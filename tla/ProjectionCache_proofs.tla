------------------------ MODULE ProjectionCache_proofs ------------------------
(***************************************************************************)
(* IInv is an invariant of ProjectionCache for every value of the          *)
(* constants, and no index is published that is not one projection.        *)
(* Almost every action moves one process from a stage to another with      *)
(* something else in hand: Move says once what that may not disturb.       *)
(***************************************************************************)
EXTENDS ProjectionCache, TLAPS

-----------------------------------------------------------------------------
(* What a process has in hand.                                             *)

LEMMA OriginalType == Original \in Content /\ Live(Original) \in Inventory
  <1>1. (CHOOSE v \in Versions : TRUE) \in Versions
    BY CacheAssumption
  <1>2. Original \in Content
    BY <1>1 DEF Original, Content
  <1> QED
    BY <1>2, CacheAssumption DEF Live, Content, Inventory

LEMMA LiveType == ASSUME NEW c \in Content PROVE Live(c) \in Inventory
  BY CacheAssumption DEF Live, Content, Inventory

\* A job that has only begun is a job.
LEMMA FreshType ==
  ASSUME NEW c \in Command, NEW i \in Inventory, NEW w \in BOOLEAN
  PROVE  /\ Fresh(c, i) \in Job
         /\ [Fresh(c, i) EXCEPT !.warned = w] \in Job
         /\ Fresh(c, i).cmd = c /\ Fresh(c, i).inventory = i
  <1>1. 1 \in 1..(N + 1)
    BY CacheAssumption
  <1>2. [k \in 1..N |-> Absent] \in [1..N -> Content \union {Absent}]
    OBVIOUS
  <1>3. Original \in Content
    BY OriginalType
  <1> QED
    BY <1>1, <1>2, <1>3 DEF Fresh, Job

LEMMA NoJobType == NoJob \in Job
  <1>1. [kind |-> "build", targets |-> {}, quiet |-> FALSE] \in Command
    BY DEF Command, Kinds, Targets
  <1> QED
    BY <1>1, OriginalType, FreshType DEF NoJob

\* The changes to a job that the actions make, field by field.
LEMMA JobEdits ==
  ASSUME NEW j \in Job, NEW v \in Content, NEW k \in 1..(N + 1), NEW w \in BOOLEAN
  PROVE  /\ [j EXCEPT !.view = v, !.at = k] \in Job
         /\ [j EXCEPT !.at = k] \in Job /\ [j EXCEPT !.at = k].at = k
         /\ [j EXCEPT !.view = v, !.draft = v] \in Job
         /\ [j EXCEPT !.view = v, !.draft = v].view = v
         /\ [j EXCEPT !.view = v, !.draft = v].draft = v
         /\ [j EXCEPT !.draft = v] \in Job
         /\ [j EXCEPT !.draft = v].draft = v /\ [j EXCEPT !.draft = v].view = j.view
         /\ [j EXCEPT !.warned = w] \in Job
         /\ [j EXCEPT !.view = v, !.at = k].at = k
  BY DEF Job

LEMMA ChangedEdit ==
  ASSUME NEW j \in Job, NEW s \in SUBSET Sources
  PROVE  [j EXCEPT !.changed = s] \in Job
  BY DEF Job

LEMMA LookEdit ==
  ASSUME NEW j \in Job, NEW v \in Content, NEW p, NEW t
  PROVE  [j EXCEPT !.view = v, !.reason = Finding(p, t)] \in Job
  <1>1. Finding(p, t) \in {"none", "missing", "operation", "unexpected", "dirty"}
    BY DEF Finding
  <1> QED
    BY <1>1 DEF Job

LEMMA OldEdit ==
  ASSUME NEW j \in Job, NEW k \in 1..N, NEW c \in Content \union {Absent}
  PROVE  [j EXCEPT !.old[k] = c] \in Job /\ [j EXCEPT !.old[k] = c].at = j.at
  BY DEF Job

LEMMA CommandEdits ==
  ASSUME NEW j \in Job
  PROVE  [j EXCEPT !.cmd.targets = {}] \in Job /\ [j EXCEPT !.cmd.kind = "build"] \in Job
  BY DEF Job, Command, Kinds

\* The sources a projection is made of, and where a command goes on.
LEMMA Typing ==
  ASSUME TypeOK, NEW p \in Procs
  PROVE  /\ Projection(p) \in Content
         /\ job[p] \in Job /\ job[p].cmd \in Command /\ job[p].inventory \in Inventory
         /\ job[p].warned \in BOOLEAN
         /\ pc[p] \in Stages
  <1>1. job[p] \in Job /\ pc[p] \in Stages
    BY DEF TypeOK
  <1>2. job[p].cmd \in Command /\ job[p].inventory \in Inventory /\ job[p].warned \in BOOLEAN
    BY <1>1 DEF Job
  <1>3. Projection(p) \in Content
    BY <1>2 DEF Projection, TypeOK, Content, Inventory
  <1> QED
    BY <1>1, <1>2, <1>3

LEMMA StartStages ==
  ASSUME NEW c \in Command
  PROVE  /\ Start(c) \in Stages \ Operating /\ AfterArtifacts(c) \in Stages \ Operating
         /\ Start(c) \notin {"publishI", "publishInc", "copyA", "installA", "undoA"}
         /\ AfterArtifacts(c) \notin {"publishI", "publishInc", "copyA", "installA", "undoA"}
  BY DEF Start, ArtifactsStart, IndexStart, AfterArtifacts, Stages, Operating

-----------------------------------------------------------------------------
(* A move of one process.                                                  *)

\* The types of what is not in the hands of a process.
RestOK ==
  /\ sources \in Content
  /\ dir \in BOOLEAN /\ marked \in BOOLEAN
  /\ litter \in BOOLEAN /\ abandoned \in BOOLEAN
  /\ artifacts \in [1..N -> Content \union {Absent}]
  /\ index \in Content \union {Absent}
  /\ dirty \in [Targets -> Marker \union {None}]
  /\ writing \in [Writers -> Targets \union {"idle"}]
  /\ touched \in [Writers -> SUBSET Sources]
  /\ changes \in Nat /\ commands \in Nat /\ trouble \in Nat /\ killed \in Nat

\* The stages that expect something of the job.
Guarded == {"publishI", "publishInc", "copyA", "installA", "undoA"}

\* While the marker stays, p, which moves to stage s, still is at work if it
\* was, or has been recorded as gone.
MarkerKept(p, s) ==
  /\ marked' => marked \/ s \in Operating
  /\ marked' /\ abandoned => abandoned'
  /\ marked' /\ pc[p] \in Operating => abandoned' \/ s \in Operating

LEMMA Move ==
  ASSUME IInv, RestOK', NEW p \in Procs, NEW s \in Stages, NEW j \in Job, GoOn(p, s, j),
         s \in {"publishI", "publishInc"} => j.draft = j.view,
         s \in {"copyA", "installA", "undoA"} => j.at \in 1..N,
         MarkerKept(p, s)
  PROVE  IInv'
  <1>1. pc \in [Procs -> Stages] /\ job \in [Procs -> Job]
    BY DEF IInv, TypeOK
  <1>2. pc' = [pc EXCEPT ![p] = s]
    BY DEF GoOn
  <1>3. job' = [job EXCEPT ![p] = IF s = "idle" THEN NoJob ELSE j]
    BY DEF GoOn
  <1>4. pc' \in [Procs -> Stages] /\ job' \in [Procs -> Job]
    BY <1>1, <1>2, <1>3, NoJobType
  <1>5. MarkerIsOwned'
    <2> SUFFICES ASSUME marked', ~abandoned'
                 PROVE  \E q \in Procs : pc'[q] \in Operating
      BY DEF MarkerIsOwned
    <2>1. CASE s \in Operating
      BY <2>1, <1>1, <1>2
    <2>2. CASE s \notin Operating
      <3>1. marked /\ ~abandoned /\ pc[p] \notin Operating
        BY <2>2 DEF MarkerKept
      <3>2. PICK q \in Procs : pc[q] \in Operating
        BY <3>1 DEF IInv, MarkerIsOwned
      <3>3. q # p
        BY <3>1, <3>2
      <3> QED
        BY <3>2, <3>3, <1>1, <1>2
    <2> QED
      BY <2>1, <2>2
  <1>6. DraftIsProjection'
    <2> SUFFICES ASSUME NEW q \in Procs, pc'[q] \in {"publishI", "publishInc"}
                 PROVE  job'[q].draft = job'[q].view
      BY DEF DraftIsProjection
    <2>1. CASE q = p
      BY <2>1, <1>1, <1>2, <1>3
    <2>2. CASE q # p
      BY <2>2, <1>1, <1>2, <1>3 DEF IInv, DraftIsProjection
    <2> QED
      BY <2>1, <2>2
  <1>7. InRange'
    <2> SUFFICES ASSUME NEW q \in Procs, pc'[q] \in {"copyA", "installA", "undoA"}
                 PROVE  job'[q].at \in 1..N
      BY DEF InRange
    <2>1. CASE q = p
      BY <2>1, <1>1, <1>2, <1>3
    <2>2. CASE q # p
      BY <2>2, <1>1, <1>2, <1>3 DEF IInv, InRange
    <2> QED
      BY <2>1, <2>2
  <1>8. TypeOK'
    BY <1>4 DEF TypeOK, RestOK
  <1> QED
    BY <1>5, <1>6, <1>7, <1>8 DEF IInv

\* A move to a stage that expects nothing.
LEMMA PlainMove ==
  ASSUME IInv, RestOK', NEW p \in Procs, NEW s \in Stages \ Guarded,
         Goto(p, s) \/ Restart(p, s) \/ \E j \in Job : GoOn(p, s, j),
         MarkerKept(p, s)
  PROVE  IInv'
  <1>1. \E j \in Job : GoOn(p, s, j)
    BY Typing, FreshType DEF Goto, Restart, IInv
  <1>2. PICK j \in Job : GoOn(p, s, j)
    BY <1>1
  <1> QED
    BY <1>2, Move DEF Guarded

LEMMA LeaveMove ==
  ASSUME IInv, RestOK', NEW p \in Procs, LeaveArtifacts(p),
         marked' => marked, marked' /\ abandoned => abandoned',
         marked' /\ pc[p] \in Operating => abandoned'
  PROVE  IInv'
  <1> DEFINE s == AfterArtifacts(job[p].cmd)
             j == Fresh(job[p].cmd, job[p].inventory)
  <1>1. s \in Stages \ Guarded
    BY Typing, StartStages DEF Guarded, IInv
  <1>2. j \in Job
    BY Typing, FreshType DEF IInv
  <1>3. \E k \in Job : GoOn(p, s, k)
    BY <1>2 DEF LeaveArtifacts
  <1>4. MarkerKept(p, s)
    BY DEF MarkerKept
  <1> HIDE DEF s, j
  <1> QED
    BY <1>1, <1>3, <1>4, PlainMove

\* Nobody moves.
LEMMA Stay ==
  ASSUME IInv, RestOK', UNCHANGED <<pc, job, marked, abandoned>>
  PROVE  IInv'
  BY DEF IInv, TypeOK, RestOK, MarkerIsOwned, DraftIsProjection, InRange

LEMMA RestType == IInv => RestOK
  BY DEF IInv, TypeOK, RestOK

-----------------------------------------------------------------------------
(* Writers, and time.                                                      *)

LEMMA ChangeStep == ASSUME IInv, NEW w \in Writers, Change(w) PROVE IInv'
  <1>1. RestOK'
    BY RestType DEF Change, RestOK, Targets, cache, counters
  <1> QED
    BY <1>1, Stay DEF Change, cache

LEMMA MarkDirtyStep == ASSUME IInv, NEW w \in Writers, MarkDirty(w) PROVE IInv'
  <1>1. RestOK
    BY RestType
  <1>2. [paths |-> touched[w], recent |-> TRUE] \in Marker
    BY <1>1 DEF RestOK, Marker
  <1>3. dirty' \in [Targets -> Marker \union {None}]
    BY <1>1, <1>2 DEF MarkDirty, RestOK
  <1>4. /\ writing' \in [Writers -> Targets \union {"idle"}]
        /\ touched' \in [Writers -> SUBSET Sources]
    BY <1>1 DEF MarkDirty, Rest, RestOK, Targets
  <1>5. trouble' \in Nat /\ commands' \in Nat /\ killed' \in Nat
    BY <1>1 DEF MarkDirty, Trouble, RestOK, counters
  <1>6. RestOK'
    BY <1>1, <1>3, <1>4, <1>5 DEF MarkDirty, RestOK
  <1> QED
    BY <1>6, Stay DEF MarkDirty

LEMMA ForgetToMarkStep == ASSUME IInv, NEW w \in Writers, ForgetToMark(w) PROVE IInv'
  <1>1. RestOK'
    BY RestType DEF ForgetToMark, Rest, RestOK, cache, counters
  <1> QED
    BY <1>1, Stay DEF ForgetToMark, cache

LEMMA QuietenStep == ASSUME IInv, NEW t \in Targets, Quieten(t) PROVE IInv'
  <1>1. RestOK
    BY RestType
  <1>2. dirty' \in [Targets -> Marker \union {None}]
    <2>1. [dirty[t] EXCEPT !.recent = FALSE] \in Marker
      BY <1>1 DEF Quieten, RestOK, Marker
    <2> QED
      BY <1>1, <2>1 DEF Quieten, RestOK
  <1>3. RestOK'
    BY <1>1, <1>2 DEF Quieten, RestOK, writers, counters
  <1> QED
    BY <1>3, Stay DEF Quieten

-----------------------------------------------------------------------------
(* Refreshers: what they begin with, and what they read.                   *)

LEMMA BeginStep ==
  ASSUME IInv, NEW p \in Procs, NEW c \in Commands, Begin(p, c), commands' \in Nat
  PROVE  IInv'
  <1> DEFINE s == IF c.kind = "tick" THEN "pulse" ELSE Start(c)
  <1>1. c \in Command
    BY CacheAssumption
  <1>2. s \in Stages \ Guarded
    BY <1>1, StartStages DEF Stages, Guarded
  <1>3. Fresh(c, Live(sources)) \in Job
    BY <1>1, LiveType, FreshType DEF IInv, TypeOK
  <1>4. RestOK'
    BY RestType DEF Begin, RestOK, writers, cache
  <1>5. MarkerKept(p, s)
    BY DEF Begin, MarkerKept, cache, Operating
  <1>6. \E j \in Job : GoOn(p, s, j)
    BY <1>3 DEF Begin
  <1> HIDE DEF s
  <1> QED
    BY <1>2, <1>4, <1>5, <1>6, PlainMove

LEMMA TickStep == ASSUME IInv, Tick PROVE IInv'
  <1>1. PICK c \in Commands : Begin(Worker, c)
    BY DEF Tick
  <1>2. commands' \in Nat
    BY RestType DEF Tick, RestOK
  <1> QED
    BY <1>1, <1>2, CacheAssumption, BeginStep

LEMMA LaunchStep == ASSUME IInv, NEW p \in Procs, Launch(p) PROVE IInv'
  <1>1. PICK c \in Commands : Begin(p, c)
    BY DEF Launch
  <1>2. commands' \in Nat
    BY RestType DEF Launch, RestOK
  <1> QED
    BY <1>1, <1>2, BeginStep

\* A step that only reads, outside the operation.
LEMMA ReadMove ==
  ASSUME IInv, NEW p \in Procs, NEW s \in Stages \ Guarded, pc[p] \notin Operating,
         UNCHANGED <<writers, cache, counters>>,
         Goto(p, s) \/ Restart(p, s) \/ \E j \in Job : GoOn(p, s, j)
  PROVE  IInv'
  <1>1. RestOK'
    BY RestType DEF RestOK, writers, cache, counters
  <1>2. MarkerKept(p, s)
    BY DEF MarkerKept, cache
  <1> QED
    BY <1>1, <1>2, PlainMove

LEMMA ReadLeave ==
  ASSUME IInv, NEW p \in Procs, pc[p] \notin Operating,
         UNCHANGED <<writers, cache, counters>>, LeaveArtifacts(p)
  PROVE  IInv'
  <1>1. RestOK'
    BY RestType DEF RestOK, writers, cache, counters
  <1> QED
    BY <1>1, LeaveMove DEF cache

LEMMA PulseStep == ASSUME IInv, NEW p \in Procs, Pulse(p) PROVE IInv'
  <1> DEFINE s == IF marked THEN "idle" ELSE Start(job[p].cmd)
  <1>1. s \in Stages \ Guarded
    BY Typing, StartStages DEF IInv, Stages, Guarded
  <1>2. pc[p] \notin Operating
    BY DEF Pulse, Operating
  <1>3. Goto(p, s) /\ UNCHANGED <<writers, cache, counters>>
    BY DEF Pulse
  <1> HIDE DEF s
  <1> QED
    BY <1>1, <1>2, <1>3, ReadMove

LEMMA LookStep == ASSUME IInv, NEW p \in Procs, Look(p) PROVE IInv'
  <1>1. /\ pc[p] \notin Operating /\ UNCHANGED <<writers, cache, counters>>
        /\ "readA" \in Stages \ Guarded /\ "readI" \in Stages \ Guarded
    BY DEF Look, Operating, Stages, Guarded
  <1>2. job[p] \in Job /\ Projection(p) \in Content
    BY Typing DEF IInv
  <1>3. CASE GoOn(p, "readA", [job[p] EXCEPT
              !.view = Projection(p), !.reason = Finding(p, "artifacts")])
    <2>1. \E j \in Job : GoOn(p, "readA", j)
      BY <1>2, <1>3, LookEdit
    <2> QED
      BY <1>1, <2>1, ReadMove
  <1>4. CASE GoOn(p, "readI", [job[p] EXCEPT
              !.view = Projection(p), !.reason = Finding(p, "index")])
    <2>1. \E j \in Job : GoOn(p, "readI", j)
      BY <1>2, <1>4, LookEdit
    <2> QED
      BY <1>1, <2>1, ReadMove
  <1> QED
    BY <1>3, <1>4 DEF Look

LEMMA ReadAStep == ASSUME IInv, NEW p \in Procs, ReadA(p) PROVE IInv'
  <1>1. /\ pc[p] \notin Operating /\ UNCHANGED <<writers, cache, counters>>
        /\ "beginA" \in Stages \ Guarded
    BY DEF ReadA, Operating, Stages, Guarded
  <1>2. LeaveArtifacts(p) \/ Restart(p, "beginA")
    BY DEF ReadA
  <1> QED
    BY <1>1, <1>2, ReadMove, ReadLeave

LEMMA ReadIStep == ASSUME IInv, NEW p \in Procs, ReadI(p) PROVE IInv'
  <1> DEFINE paths == IF dirty["index"] = None THEN {} ELSE dirty["index"].paths
  <1>1. /\ pc[p] \notin Operating /\ UNCHANGED <<writers, cache, counters>>
        /\ "beginI" \in Stages \ Guarded /\ "beginInc" \in Stages \ Guarded
        /\ "idle" \in Stages \ Guarded
    BY DEF ReadI, Operating, Stages, Guarded
  <1>2. job[p] \in Job
    BY Typing DEF IInv
  <1>3. paths \in SUBSET Sources
    <2>1. dirty["index"] \in Marker \union {None}
      BY DEF IInv, TypeOK, Targets
    <2> QED
      BY <2>1 DEF Marker
  <1>4. \/ Goto(p, "idle") \/ Restart(p, "beginI")
        \/ GoOn(p, "beginInc", [job[p] EXCEPT !.changed = paths])
    BY DEF ReadI
  <1>5. CASE GoOn(p, "beginInc", [job[p] EXCEPT !.changed = paths])
    <2>1. \E j \in Job : GoOn(p, "beginInc", j)
      BY <1>2, <1>3, <1>5, ChangedEdit
    <2> QED
      BY <1>1, <2>1, ReadMove
  <1> HIDE DEF paths
  <1> QED
    BY <1>1, <1>4, <1>5, ReadMove

LEMMA NothingToDeleteStep == ASSUME IInv, NEW p \in Procs, NothingToDelete(p) PROVE IInv'
  <1>1. /\ pc[p] \notin Operating /\ UNCHANGED <<writers, cache, counters>>
        /\ LeaveArtifacts(p)
    BY DEF NothingToDelete, Operating
  <1> QED
    BY <1>1, ReadLeave

LEMMA SkipIncStep == ASSUME IInv, NEW p \in Procs, SkipInc(p) PROVE IInv'
  <1>1. /\ pc[p] \notin Operating /\ UNCHANGED <<writers, cache, counters>>
        /\ "beginI" \in Stages \ Guarded
    BY DEF SkipInc, Operating, Stages, Guarded
  <1>2. \E j \in Job : GoOn(p, "beginI", j)
    <2>1. [job[p] EXCEPT !.warned = TRUE] \in Job
      BY Typing, CacheAssumption DEF IInv, Job
    <2> QED
      BY <2>1 DEF SkipInc
  <1> QED
    BY <1>1, <1>2, ReadMove

LEMMA LookAgainStep == ASSUME IInv, NEW p \in Procs, LookAgain(p) PROVE IInv'
  <1>1. /\ pc[p] \notin Operating /\ UNCHANGED <<writers, cache, counters>>
        /\ "beginI" \in Stages \ Guarded /\ "idle" \in Stages \ Guarded
    BY DEF LookAgain, Operating, Stages, Guarded
  <1>2. [job[p] EXCEPT !.cmd.kind = "build"] \in Job
    BY Typing, CommandEdits DEF IInv
  <1>3. Goto(p, "idle") \/ \E j \in Job : GoOn(p, "beginI", j)
    BY <1>2 DEF LookAgain
  <1> QED
    BY <1>1, <1>3, ReadMove

-----------------------------------------------------------------------------
(* The operation marker.                                                   *)

\* An operation counts at most one failure.
LEMMA CountersType ==
  ASSUME RestOK,
         \/ UNCHANGED counters
         \/ Trouble
  PROVE  trouble' \in Nat /\ commands' \in Nat /\ killed' \in Nat
  BY DEF RestOK, counters, Trouble

LEMMA BeginOperationStep == ASSUME IInv, NEW p \in Procs, BeginOperation(p) PROVE IInv'
  <1> DEFINE s == AfterBegin(p)
  <1>1. s \in Operating \ Guarded /\ s \in Stages
    BY DEF BeginOperation, AfterBegin, Operating, Stages, Guarded
  <1>2. RestOK'
    <2>1. RestOK
      BY RestType
    <2>2. marked' \in BOOLEAN /\ dir' \in BOOLEAN /\ UNCHANGED abandoned
      BY <2>1 DEF BeginOperation, RestOK
    <2>3. trouble' \in Nat /\ commands' \in Nat /\ killed' \in Nat
      BY <2>1, CountersType DEF BeginOperation
    <2> QED
      BY <2>1, <2>2, <2>3 DEF BeginOperation, RestOK, writers
  <1>3. MarkerKept(p, s)
    BY <1>1 DEF BeginOperation, MarkerKept
  <1>4. job[p] \in Job /\ [job[p] EXCEPT !.warned = TRUE] \in Job
    BY Typing, CacheAssumption DEF IInv, Job
  <1>5. Goto(p, s) \/ \E j \in Job : GoOn(p, s, j)
    BY <1>4 DEF BeginOperation
  <1> HIDE DEF s
  <1> QED
    BY <1>1, <1>2, <1>3, <1>5, PlainMove

LEMMA EndOperationStep == ASSUME IInv, NEW p \in Procs, EndOperation(p) PROVE IInv'
  <1>1. RestOK'
    <2>1. RestOK
      BY RestType
    <2>2. marked' \in BOOLEAN /\ abandoned' \in BOOLEAN
      BY <2>1 DEF EndOperation, RestOK
    <2>3. trouble' \in Nat /\ commands' \in Nat /\ killed' \in Nat
      BY <2>1, CountersType DEF EndOperation
    <2> QED
      BY <2>1, <2>2, <2>3 DEF EndOperation, RestOK, writers
  <1>2. marked' => abandoned' /\ marked
    BY DEF EndOperation
  <1>3. \A s \in Stages : MarkerKept(p, s)
    BY <1>2 DEF MarkerKept
  <1>4. {"beginI", "lookAgain", "idle"} \subseteq Stages \ Guarded
    BY DEF Stages, Guarded
  <1>5. \/ LeaveArtifacts(p) \/ Restart(p, "beginI")
        \/ Goto(p, "beginI") \/ Goto(p, "lookAgain") \/ Goto(p, "idle")
    BY DEF EndOperation
  <1>6. CASE LeaveArtifacts(p)
    BY <1>1, <1>2, <1>6, LeaveMove
  <1>7. CASE Restart(p, "beginI") \/ Goto(p, "beginI")
    BY <1>1, <1>3, <1>4, <1>7, PlainMove
  <1>8. CASE Goto(p, "lookAgain")
    BY <1>1, <1>3, <1>4, <1>8, PlainMove
  <1>9. CASE Goto(p, "idle")
    BY <1>1, <1>3, <1>4, <1>9, PlainMove
  <1> QED
    BY <1>5, <1>6, <1>7, <1>8, <1>9

-----------------------------------------------------------------------------
(* Within an operation: the marker is not touched.                         *)

LEMMA WorkKeeps ==
  ASSUME NEW p, NEW s \in Operating, marked' = marked, abandoned' = abandoned
  PROVE  MarkerKept(p, s)
  BY DEF MarkerKept

\* To a stage that expects nothing.
LEMMA WorkMove ==
  ASSUME IInv, RestOK', NEW p \in Procs, NEW s \in Operating \ Guarded,
         marked' = marked, abandoned' = abandoned,
         Goto(p, s) \/ Restart(p, s) \/ \E j \in Job : GoOn(p, s, j)
  PROVE  IInv'
  <1>1. MarkerKept(p, s) /\ s \in Stages
    BY WorkKeeps DEF Stages
  <1> QED
    BY <1>1, PlainMove

\* To a stage of the transaction.
LEMMA ArtifactMove ==
  ASSUME IInv, RestOK', NEW p \in Procs, NEW s \in {"copyA", "installA", "undoA"},
         marked' = marked, abandoned' = abandoned,
         NEW j \in Job, j.at \in 1..N, GoOn(p, s, j)
  PROVE  IInv'
  <1>1. s \in Operating /\ s \in Stages /\ s \notin {"publishI", "publishInc"}
    BY DEF Operating, Stages
  <1>2. MarkerKept(p, s)
    BY <1>1, WorkKeeps
  <1> QED
    BY <1>1, <1>2, Move

LEMMA UndoMove ==
  ASSUME IInv, RestOK', NEW p \in Procs, NEW k \in 0..N, UndoFrom(p, k),
         marked' = marked, abandoned' = abandoned
  PROVE  IInv'
  <1>1. job[p] \in Job
    BY Typing DEF IInv
  <1>2. CASE k = 0
    <2>1. 1 \in 1..(N + 1)
      BY CacheAssumption
    <2>2. [job[p] EXCEPT !.at = 1] \in Job
      BY <1>1, <2>1 DEF Job
    <2>3. GoOn(p, "endA", [job[p] EXCEPT !.at = 1])
      BY <1>2 DEF UndoFrom
    <2>4. "endA" \in Operating \ Guarded
      BY DEF Operating, Guarded
    <2>5. \E j \in Job : GoOn(p, "endA", j)
      BY <2>2, <2>3
    <2> QED
      BY <2>4, <2>5, WorkMove
  <1>3. CASE k # 0
    <2>1. k \in 1..N /\ k \in 1..(N + 1)
      BY <1>3, CacheAssumption
    <2>2. [job[p] EXCEPT !.at = k] \in Job /\ [job[p] EXCEPT !.at = k].at \in 1..N
      BY <1>1, <2>1 DEF Job
    <2>3. GoOn(p, "undoA", [job[p] EXCEPT !.at = k])
      BY <1>3 DEF UndoFrom
    <2> QED
      BY <2>2, <2>3, ArtifactMove
  <1> QED
    BY <1>2, <1>3

LEMMA AtRange ==
  ASSUME IInv, NEW p \in Procs, pc[p] \in {"copyA", "installA", "undoA"}
  PROVE  job[p].at \in 1..N
  BY DEF IInv, InRange

LEMMA ProjectAStep == ASSUME IInv, NEW p \in Procs, ProjectA(p) PROVE IInv'
  <1>1. RestOK' /\ marked' = marked /\ abandoned' = abandoned
    BY RestType DEF ProjectA, RestOK, writers, cache, counters
  <1> DEFINE j == [job[p] EXCEPT !.view = Projection(p), !.at = 1]
  <1>2. 1 \in 1..N /\ 1 \in 1..(N + 1)
    BY CacheAssumption
  <1>3. j \in Job /\ j.at \in 1..N
    BY <1>2, Typing DEF IInv, Job
  <1>4. GoOn(p, "copyA", j)
    BY DEF ProjectA
  <1> HIDE DEF j
  <1> QED
    BY <1>1, <1>3, <1>4, ArtifactMove

LEMMA CopyAStep == ASSUME IInv, NEW p \in Procs, CopyA(p) PROVE IInv'
  <1>1. RestOK' /\ marked' = marked /\ abandoned' = abandoned
    BY RestType DEF CopyA, RestOK, writers, cache, counters
  <1> DEFINE k == job[p].at
             j == [job[p] EXCEPT !.old[k] = artifacts[k]]
  <1>2. k \in 1..N
    BY AtRange DEF CopyA
  <1>3. artifacts[k] \in Content \union {Absent} /\ job[p] \in Job
    BY <1>2, Typing DEF IInv, TypeOK
  <1>4. j \in Job /\ j.at \in 1..N
    BY <1>2, <1>3, OldEdit
  <1>5. GoOn(p, "installA", j)
    BY DEF CopyA
  <1> HIDE DEF j
  <1> QED
    BY <1>1, <1>4, <1>5, ArtifactMove

LEMMA InstallAStep == ASSUME IInv, NEW p \in Procs, InstallA(p) PROVE IInv'
  <1> DEFINE k == job[p].at
             j == [job[p] EXCEPT !.at = k + 1]
  <1>1. k \in 1..N /\ job[p] \in Job
    BY AtRange, Typing DEF InstallA, IInv
  <1>2. job[p].view \in Content
    BY <1>1 DEF Job
  <1>3. RestOK' /\ marked' = marked /\ abandoned' = abandoned
    BY <1>1, <1>2, RestType DEF InstallA, RestOK, writers, counters
  <1>4. CASE k = N
    <2>1. "clearA" \in Operating \ Guarded /\ Goto(p, "clearA")
      BY <1>4 DEF Operating, Guarded, InstallA
    <2> QED
      BY <1>3, <2>1, WorkMove
  <1>5. CASE k # N
    <2>1. k + 1 \in 1..N /\ k + 1 \in 1..(N + 1)
      BY <1>1, <1>5, CacheAssumption
    <2>2. j \in Job /\ j.at \in 1..N
      BY <1>1, <2>1 DEF Job
    <2>3. GoOn(p, "copyA", j)
      BY <1>5 DEF InstallA
    <2> HIDE DEF j, k
    <2> QED
      BY <1>3, <2>2, <2>3, ArtifactMove
  <1> QED
    BY <1>4, <1>5

LEMMA FailAStep == ASSUME IInv, NEW p \in Procs, FailA(p) PROVE IInv'
  <1>1. RestOK' /\ marked' = marked /\ abandoned' = abandoned
    BY RestType DEF FailA, Trouble, RestOK, writers, cache
  <1>2. PICK k \in 0..N : UndoFrom(p, k)
    <2>1. CASE pc[p] = "projectA"
      <3>1. 0 \in 0..N
        BY CacheAssumption
      <3> QED
        BY <2>1, <3>1 DEF FailA
    <2>2. CASE pc[p] = "copyA"
      <3>1. job[p].at - 1 \in 0..N
        BY <2>2, AtRange, CacheAssumption
      <3> QED
        BY <2>2, <3>1 DEF FailA
    <2>3. CASE pc[p] = "installA"
      <3>1. job[p].at \in 0..N
        BY <2>3, AtRange, CacheAssumption
      <3> QED
        BY <2>3, <3>1 DEF FailA
    <2> QED
      BY <2>1, <2>2, <2>3 DEF FailA
  <1> QED
    BY <1>1, <1>2, UndoMove

LEMMA UndoAStep == ASSUME IInv, NEW p \in Procs, UndoA(p) PROVE IInv'
  <1> DEFINE k == job[p].at
  <1>1. k \in 1..N /\ job[p] \in Job
    BY AtRange, Typing DEF UndoA, IInv
  <1>2. job[p].old[k] \in Content \union {Absent}
    BY <1>1 DEF Job
  <1>3. artifacts' \in [1..N -> Content \union {Absent}]
    <2>1. artifacts \in [1..N -> Content \union {Absent}]
      BY DEF IInv, TypeOK
    <2> QED
      BY <1>2, <2>1 DEF UndoA
  <1>4. litter' \in BOOLEAN /\ trouble' \in Nat /\ commands' \in Nat /\ killed' \in Nat
    <2>1. /\ litter \in BOOLEAN
          /\ trouble \in Nat /\ commands \in Nat /\ killed \in Nat
      BY RestType DEF RestOK
    <2>2. CASE UNCHANGED <<litter, counters>>
      BY <2>1, <2>2 DEF counters
    <2>3. CASE Trouble /\ litter' = TRUE
      BY <2>1, <2>3 DEF Trouble
    <2> QED
      BY <2>2, <2>3 DEF UndoA
  <1>5. RestOK' /\ marked' = marked /\ abandoned' = abandoned
    BY <1>3, <1>4, RestType DEF UndoA, RestOK, writers
  <1>6. k - 1 \in 0..N /\ UndoFrom(p, k - 1)
    BY <1>1, CacheAssumption DEF UndoA
  <1> QED
    BY <1>5, <1>6, UndoMove

\* A dirty marker that goes leaves a type-correct pair of them.
LEMMA UnmarkType ==
  ASSUME RestOK, NEW t \in Targets, Unmark(t)
  PROVE  /\ dirty' \in [Targets -> Marker \union {None}]
         /\ trouble' \in Nat /\ commands' \in Nat /\ killed' \in Nat
  <1>1. dirty' = [dirty EXCEPT ![t] = None] \/ UNCHANGED dirty
    BY DEF Unmark
  <1>2. dirty' \in [Targets -> Marker \union {None}]
    BY <1>1 DEF RestOK
  <1> QED
    BY <1>2, CountersType DEF Unmark

LEMMA ClearAStep == ASSUME IInv, NEW p \in Procs, ClearA(p) PROVE IInv'
  <1>1. RestOK
    BY RestType
  <1>2. /\ dirty' \in [Targets -> Marker \union {None}]
        /\ trouble' \in Nat /\ commands' \in Nat /\ killed' \in Nat
        /\ litter' \in BOOLEAN
    <2>1. CASE Unmark("artifacts") /\ UNCHANGED litter
      <3>1. litter' \in BOOLEAN
        BY <1>1, <2>1 DEF RestOK
      <3> QED
        BY <1>1, <2>1, <3>1, UnmarkType DEF Targets
    <2>2. CASE Trouble /\ litter' = TRUE /\ dirty' = [dirty EXCEPT !["artifacts"] = None]
      <3>1. dirty' \in [Targets -> Marker \union {None}]
        BY <1>1, <2>2 DEF RestOK
      <3>2. litter' \in BOOLEAN
        BY <2>2
      <3> QED
        BY <1>1, <2>2, <3>1, <3>2, CountersType
    <2> QED
      BY <2>1, <2>2 DEF ClearA
  <1>3. RestOK' /\ marked' = marked /\ abandoned' = abandoned
    BY <1>1, <1>2 DEF ClearA, RestOK, writers
  <1>4. "endA" \in Operating \ Guarded /\ Restart(p, "endA")
    BY DEF ClearA, Operating, Guarded
  <1> QED
    BY <1>3, <1>4, WorkMove

LEMMA UnlinkAStep == ASSUME IInv, NEW p \in Procs, UnlinkA(p) PROVE IInv'
  <1> DEFINE k == job[p].at
  <1>1. RestOK /\ job[p] \in Job
    BY RestType, Typing DEF IInv
  <1>2. /\ trouble' \in Nat /\ commands' \in Nat /\ killed' \in Nat
        /\ marked' = marked /\ abandoned' = abandoned
    BY <1>1, CountersType DEF UnlinkA
  <1>3. "unlinkA" \in Operating \ Guarded /\ "endA" \in Operating \ Guarded
    BY DEF Operating, Guarded
  <1>4. CASE /\ k <= N /\ UNCHANGED dirty
             /\ artifacts' = [artifacts EXCEPT ![k] = Absent]
             /\ GoOn(p, "unlinkA", [job[p] EXCEPT !.at = k + 1])
    <2>1. RestOK'
      BY <1>1, <1>2, <1>4 DEF UnlinkA, RestOK, writers
    <2>2. k + 1 \in 1..(N + 1)
      BY <1>1, <1>4, CacheAssumption DEF Job
    <2>3. [job[p] EXCEPT !.at = k + 1] \in Job
      BY <1>1, <2>2 DEF Job
    <2>4. \E j \in Job : GoOn(p, "unlinkA", j)
      BY <1>4, <2>3
    <2> QED
      BY <1>2, <1>3, <2>1, <2>4, WorkMove
  <1>5. CASE /\ Goto(p, "endA") /\ UNCHANGED artifacts
             /\ dirty' = [dirty EXCEPT !["artifacts"] = None]
    <2>1. RestOK'
      BY <1>1, <1>2, <1>5 DEF UnlinkA, RestOK, writers
    <2> QED
      BY <1>2, <1>3, <1>5, <2>1, WorkMove
  <1>6. CASE /\ GoOn(p, "endA", [job[p] EXCEPT !.cmd.targets = {}])
             /\ UNCHANGED <<artifacts, dirty>>
    <2>1. RestOK'
      BY <1>1, <1>2, <1>6 DEF UnlinkA, RestOK, writers
    <2>2. \E j \in Job : GoOn(p, "endA", j)
      BY <1>1, <1>6, CommandEdits
    <2> QED
      BY <1>2, <1>3, <2>1, <2>2, WorkMove
  <1> QED
    BY <1>4, <1>5, <1>6 DEF UnlinkA

-----------------------------------------------------------------------------
(* The index.                                                              *)

\* To a stage that publishes, with the projection it was checked against.
LEMMA PublishMove ==
  ASSUME IInv, RestOK', NEW p \in Procs, NEW s \in {"publishI", "publishInc"},
         marked' = marked, abandoned' = abandoned,
         NEW j \in Job, j.draft = j.view, GoOn(p, s, j)
  PROVE  IInv'
  <1>1. s \in Operating /\ s \in Stages /\ s \notin {"copyA", "installA", "undoA"}
    BY DEF Operating, Stages
  <1>2. MarkerKept(p, s)
    BY <1>1, WorkKeeps
  <1> QED
    BY <1>1, <1>2, Move

LEMMA WarnedJob ==
  ASSUME IInv, NEW p \in Procs, NEW s,
         GoOn(p, s, [job[p] EXCEPT !.warned = TRUE])
  PROVE  \E j \in Job : GoOn(p, s, j)
  <1>1. [job[p] EXCEPT !.warned = TRUE] \in Job
    BY Typing DEF IInv, Job
  <1> QED
    BY <1>1

LEMMA CopyIncStep == ASSUME IInv, NEW p \in Procs, CopyInc(p) PROVE IInv'
  <1>1. RestOK
    BY RestType
  <1>2. trouble' \in Nat /\ commands' \in Nat /\ killed' \in Nat
    BY <1>1, CountersType DEF CopyInc
  <1>3. RestOK' /\ marked' = marked /\ abandoned' = abandoned
    BY <1>1, <1>2 DEF CopyInc, RestOK, writers, cache
  <1>4. CASE Goto(p, "fallInc")
    <2>1. "fallInc" \in Operating \ Guarded
      BY DEF Operating, Guarded
    <2> QED
      BY <1>3, <1>4, <2>1, WorkMove
  <1>5. CASE /\ Reconciled(p)
             /\ GoOn(p, "publishInc", [job[p] EXCEPT !.draft = Patched(p)])
    <2>1. job[p] \in Job
      BY Typing DEF IInv
    <2>2. job[p].view \in Content /\ Patched(p) = job[p].view
      BY <1>5, <2>1 DEF Reconciled, Job
    <2> DEFINE j == [job[p] EXCEPT !.draft = job[p].view]
    <2>3. j \in Job /\ j.draft = j.view
      BY <2>1, <2>2 DEF Job
    <2>4. GoOn(p, "publishInc", j)
      BY <1>5, <2>2
    <2> HIDE DEF j
    <2> QED
      BY <1>3, <2>3, <2>4, PublishMove
  <1> QED
    BY <1>4, <1>5 DEF CopyInc

LEMMA DraftIStep == ASSUME IInv, NEW p \in Procs, DraftI(p) PROVE IInv'
  <1>1. RestOK
    BY RestType
  <1>2. trouble' \in Nat /\ commands' \in Nat /\ killed' \in Nat
    BY <1>1, CountersType DEF DraftI
  <1>3. RestOK' /\ marked' = marked /\ abandoned' = abandoned
    BY <1>1, <1>2 DEF DraftI, RestOK, writers, cache
  <1>4. CASE GoOn(p, "endI", [job[p] EXCEPT !.warned = TRUE])
    <2>1. "endI" \in Operating \ Guarded
      BY DEF Operating, Guarded
    <2> QED
      BY <1>3, <1>4, <2>1, WarnedJob, WorkMove
  <1>5. CASE GoOn(p, "publishI", [job[p] EXCEPT !.view = Projection(p), !.draft = Projection(p)])
    <2> DEFINE j == [job[p] EXCEPT !.view = Projection(p), !.draft = Projection(p)]
    <2>1. j \in Job /\ j.draft = j.view
      BY Typing DEF IInv, Job
    <2>2. GoOn(p, "publishI", j)
      BY <1>5
    <2> HIDE DEF j
    <2> QED
      BY <1>3, <2>1, <2>2, PublishMove
  <1> QED
    BY <1>4, <1>5 DEF DraftI

LEMMA PublishIStep == ASSUME IInv, NEW p \in Procs, PublishI(p) PROVE IInv'
  <1>1. RestOK /\ job[p] \in Job
    BY RestType, Typing DEF IInv
  <1>2. trouble' \in Nat /\ commands' \in Nat /\ killed' \in Nat
    BY <1>1, CountersType DEF PublishI
  <1>3. index' \in Content \union {Absent}
    BY <1>1 DEF PublishI, RestOK, Job
  <1>4. RestOK' /\ marked' = marked /\ abandoned' = abandoned
    BY <1>1, <1>2, <1>3 DEF PublishI, RestOK, writers
  <1>5. PICK s \in {"clearI", "clearInc", "endI", "fallInc"} :
          Goto(p, s) \/ GoOn(p, s, [job[p] EXCEPT !.warned = TRUE])
    BY DEF PublishI
  <1>6. s \in Operating \ Guarded
    BY DEF Operating, Guarded
  <1> QED
    BY <1>4, <1>5, <1>6, WarnedJob, WorkMove

LEMMA ClearIStep == ASSUME IInv, NEW p \in Procs, ClearI(p) PROVE IInv'
  <1>1. RestOK
    BY RestType
  <1>2. /\ dirty' \in [Targets -> Marker \union {None}]
        /\ trouble' \in Nat /\ commands' \in Nat /\ killed' \in Nat
    BY <1>1, UnmarkType DEF ClearI, Targets
  <1>3. RestOK' /\ marked' = marked /\ abandoned' = abandoned
    BY <1>1, <1>2 DEF ClearI, RestOK, writers
  <1>4. PICK s \in {"endI", "endInc"} : Restart(p, s)
    BY DEF ClearI
  <1>5. s \in Operating \ Guarded
    BY DEF Operating, Guarded
  <1> QED
    BY <1>3, <1>4, <1>5, WorkMove

LEMMA UnlinkIStep == ASSUME IInv, NEW p \in Procs, UnlinkI(p) PROVE IInv'
  <1>1. RestOK
    BY RestType
  <1>2. trouble' \in Nat /\ commands' \in Nat /\ killed' \in Nat
    BY <1>1, CountersType DEF UnlinkI
  <1>3. index' \in Content \union {Absent}
    BY <1>1 DEF UnlinkI, RestOK
  <1>4. dirty' \in [Targets -> Marker \union {None}]
    BY <1>1 DEF UnlinkI, RestOK
  <1>5. RestOK' /\ marked' = marked /\ abandoned' = abandoned
    BY <1>1, <1>2, <1>3, <1>4 DEF UnlinkI, RestOK, writers
  <1>6. "endI" \in Operating \ Guarded /\ Goto(p, "endI")
    BY DEF UnlinkI, Operating, Guarded
  <1> QED
    BY <1>5, <1>6, WorkMove

\* Whoever is killed at work, while the marker is there, abandons it.
LEMMA KillStep == ASSUME IInv, NEW p \in Procs, Kill(p) PROVE IInv'
  <1>1. RestOK
    BY RestType
  <1>2. trouble' \in Nat /\ commands' \in Nat /\ killed' \in Nat
    BY <1>1 DEF Kill, RestOK
  <1>3. litter' \in BOOLEAN /\ abandoned' \in BOOLEAN
    BY <1>1 DEF Kill, RestOK
  <1>4. RestOK'
    BY <1>1, <1>2, <1>3 DEF Kill, RestOK, writers
  <1>5. MarkerKept(p, "idle")
    BY DEF Kill, MarkerKept
  <1>6. "idle" \in Stages \ Guarded /\ Goto(p, "idle")
    BY DEF Kill, Stages, Guarded
  <1> QED
    BY <1>4, <1>5, <1>6, PlainMove

-----------------------------------------------------------------------------
(* The theorems.                                                           *)

LEMMA InitIInv == Init => IInv
  <1> SUFFICES ASSUME Init PROVE IInv
    OBVIOUS
  <1>1. sources \in Content
    BY OriginalType DEF Init
  <1>2. \A p \in Procs : pc[p] = "idle"
    BY DEF Init
  <1>3. pc \in [Procs -> Stages] /\ job \in [Procs -> Job]
    BY NoJobType DEF Init, Stages
  <1>4. RestOK
    BY <1>1 DEF Init, RestOK, Targets
  <1>5. TypeOK
    BY <1>3, <1>4 DEF TypeOK, RestOK
  <1>6. MarkerIsOwned /\ DraftIsProjection /\ InRange
    BY <1>2 DEF Init, MarkerIsOwned, DraftIsProjection, InRange
  <1> QED
    BY <1>5, <1>6 DEF IInv

LEMMA StepIInv == ASSUME IInv, NEW p \in Procs, Step(p) PROVE IInv'
  <1>1. CASE Pulse(p) \/ Look(p) \/ ReadA(p) \/ ReadI(p)
    BY <1>1, PulseStep, LookStep, ReadAStep, ReadIStep
  <1>2. CASE \/ BeginOperation(p) \/ NothingToDelete(p) \/ SkipInc(p) \/ EndOperation(p)
    BY <1>2, BeginOperationStep, NothingToDeleteStep, SkipIncStep, EndOperationStep
  <1>3. CASE \/ ProjectA(p) \/ CopyA(p) \/ InstallA(p) \/ UndoA(p) \/ ClearA(p) \/ UnlinkA(p)
    BY <1>3, ProjectAStep, CopyAStep, InstallAStep, UndoAStep, ClearAStep, UnlinkAStep
  <1>4. CASE \/ CopyInc(p) \/ DraftI(p) \/ PublishI(p) \/ ClearI(p) \/ LookAgain(p) \/ UnlinkI(p)
    BY <1>4, CopyIncStep, DraftIStep, PublishIStep, ClearIStep, LookAgainStep, UnlinkIStep
  <1> QED
    BY <1>1, <1>2, <1>3, <1>4 DEF Step

LEMMA NextIInv == IInv /\ [Next]_vars => IInv'
  <1> SUFFICES ASSUME IInv, [Next]_vars PROVE IInv'
    OBVIOUS
  <1>1. CASE \E w \in Writers : Change(w) \/ MarkDirty(w) \/ ForgetToMark(w)
    BY <1>1, ChangeStep, MarkDirtyStep, ForgetToMarkStep
  <1>2. CASE \E t \in Targets : Quieten(t)
    BY <1>2, QuietenStep
  <1>3. CASE Tick
    BY <1>3, TickStep
  <1>4. CASE \E p \in Procs : Launch(p) \/ Step(p) \/ FailA(p) \/ Kill(p)
    BY <1>4, LaunchStep, StepIInv, FailAStep, KillStep
  <1>5. CASE UNCHANGED vars
    <2>1. RestOK'
      BY <1>5, RestType DEF vars, RestOK, writers, cache, counters
    <2> QED
      BY <1>5, <2>1, Stay DEF vars, cache
  <1> QED
    BY <1>1, <1>2, <1>3, <1>4, <1>5 DEF Next

\* The inductive invariant holds of every behaviour of writers and refreshers.
THEOREM Invariance == Spec => []IInv
  <1> QED
    BY InitIInv, NextIInv, PTL DEF Spec

\* Every variable has its type, whatever the sources, processes and commands.
THEOREM TypeCorrect == Spec => []TypeOK
  <1>1. IInv => TypeOK
    BY DEF IInv
  <1> QED
    BY <1>1, Invariance, PTL

\* The finally clauses of projection_artifacts.py and projection_index.py leave
\* no operation marker behind, through fallback, rollback and delete: one that
\* nobody is at work under was abandoned by a process killed or a failed unlink.
THEOREM MarkerOwned == Spec => []MarkerIsOwned
  <1>1. IInv => MarkerIsOwned
    BY DEF IInv
  <1> QED
    BY <1>1, Invariance, PTL

\* Who is about to publish holds exactly a projection, and nobody else writes
\* the index.
LEMMA IndexStep ==
  ASSUME IInv, [Next]_vars, index' # index
  PROVE  index' = Absent \/ \E p \in Procs : index' = job[p].view
  <1>1. PICK p \in Procs : PublishI(p) \/ UnlinkI(p)
    <2>1. CASE \E w \in Writers : Change(w) \/ MarkDirty(w) \/ ForgetToMark(w)
      BY <2>1 DEF Change, MarkDirty, ForgetToMark, cache
    <2>2. CASE (\E t \in Targets : Quieten(t)) \/ Tick \/ UNCHANGED vars
      BY <2>2 DEF Quieten, Tick, Begin, vars, cache
    <2>3. ASSUME NEW p \in Procs, Launch(p) \/ Step(p) \/ FailA(p) \/ Kill(p)
          PROVE  PublishI(p) \/ UnlinkI(p)
      BY <2>3 DEF Step, cache, Launch, Begin, Pulse, Look, ReadA, ReadI, BeginOperation,
                  NothingToDelete, SkipInc, EndOperation, ProjectA, CopyA, InstallA,
                  FailA, UndoA, ClearA, UnlinkA, CopyInc, DraftI, ClearI, LookAgain, Kill
    <2> QED
      BY <2>1, <2>2, <2>3 DEF Next
  <1>2. CASE PublishI(p)
    BY <1>2 DEF PublishI, IInv, DraftIsProjection
  <1>3. CASE UnlinkI(p)
    BY <1>3 DEF UnlinkI
  <1> QED
    BY <1>1, <1>2, <1>3

\* Whatever dirty markers replaced each other, and whoever changed, killed or
\* deleted what meanwhile, an index that appears is one projection.
THEOREM IndexIsWhole == Spec => IndexIsOneProjection
  <1>1. IInv /\ [Next]_vars =>
          [index' # index =>
             index' = Absent \/ \E p \in Procs : index' = job[p].view]_vars
    BY IndexStep
  <1> QED
    BY <1>1, Invariance, PTL DEF Spec, IndexIsOneProjection
-----------------------------------------------------------------------------
(* Every command ends after a bounded number of its own steps.             *)

Again(j) == IF Inspects(j.cmd) THEN 6 ELSE 0

\* StepsLeft, stage by stage.
LEMMA StepsTable ==
  ASSUME NEW j
  PROVE  /\ StepsLeft("idle", j) = 0
         /\ StepsLeft("endI", j) = Again(j) + 1
         /\ StepsLeft("clearI", j) = Again(j) + 2
         /\ StepsLeft("unlinkI", j) = Again(j) + 2
         /\ StepsLeft("publishI", j) = Again(j) + 3
         /\ StepsLeft("draftI", j) = Again(j) + 4
         /\ StepsLeft("beginI", j) = Again(j) + 5
         /\ StepsLeft("lookAgain", j) = 6
         /\ StepsLeft("endInc", j) = 12 /\ StepsLeft("fallInc", j) = 12
         /\ StepsLeft("clearInc", j) = 13 /\ StepsLeft("publishInc", j) = 14
         /\ StepsLeft("copyInc", j) = 15 /\ StepsLeft("beginInc", j) = 16
         /\ StepsLeft("readI", j) = 17 /\ StepsLeft("lookI", j) = 18
         /\ StepsLeft("endA", j) = 19 /\ StepsLeft("clearA", j) = 20
         /\ StepsLeft("undoA", j) = 19 + j.at
         /\ StepsLeft("unlinkA", j) = 21 + N - j.at
         /\ StepsLeft("installA", j) = 21 + 3 * N - 2 * j.at
         /\ StepsLeft("copyA", j) = 22 + 3 * N - 2 * j.at
         /\ StepsLeft("projectA", j) = 21 + 3 * N
         /\ StepsLeft("beginA", j) = 22 + 3 * N
         /\ StepsLeft("readA", j) = 23 + 3 * N
         /\ StepsLeft("lookA", j) = 24 + 3 * N
         /\ StepsLeft("pulse", j) = 25 + 3 * N
  BY DEF StepsLeft, Again

LEMMA AgainRange == ASSUME NEW j PROVE Again(j) \in {0, 6}
  BY DEF Again

\* Where a command begins, with its artifacts and without.
LEMMA StartSteps ==
  ASSUME NEW c, NEW j
  PROVE  /\ StepsLeft(AfterArtifacts(c), j) \in 0..18
         /\ StepsLeft(Start(c), j) \in 0..(24 + 3 * N)
  <1>1. StepsLeft(AfterArtifacts(c), j) \in 0..18
    BY StepsTable, AgainRange DEF AfterArtifacts, IndexStart
  <1>2. CASE Start(c) = AfterArtifacts(c)
    BY <1>1, <1>2, CacheAssumption
  <1>3. CASE Start(c) \in {"lookA", "beginA"}
    BY <1>1, <1>3, StepsTable, CacheAssumption
  <1> QED
    BY <1>1, <1>2, <1>3 DEF Start, ArtifactsStart

\* At no stage are there more steps left than at the first one of a tick.
LEMMA StepsRange ==
  ASSUME IInv, NEW p \in Procs
  PROVE  StepsLeft(pc[p], job[p]) \in 0..(25 + 3 * N)
  <1>1. pc[p] \in Stages /\ job[p].at \in 1..(N + 1)
    BY Typing DEF IInv, Job
  <1>2. CASE pc[p] \in {"copyA", "installA", "undoA"}
    BY <1>2, AtRange, StepsTable, CacheAssumption
  <1>3. CASE pc[p] \in {"unlinkA", "projectA", "beginA", "readA", "lookA", "pulse"}
    BY <1>1, <1>3, StepsTable, CacheAssumption
  <1>4. CASE pc[p] \in {"idle", "endI", "clearI", "unlinkI", "publishI", "draftI", "beginI"}
    BY <1>4, StepsTable, AgainRange, CacheAssumption
  <1>5. CASE pc[p] \in {"lookAgain", "endInc", "fallInc", "clearInc", "publishInc", "copyInc",
                         "beginInc", "readI", "lookI", "endA", "clearA"}
    BY <1>5, StepsTable, CacheAssumption
  <1> QED
    BY <1>1, <1>2, <1>3, <1>4, <1>5 DEF Stages, Operating

Descends(p) == StepsLeft(pc'[p], job'[p]) < StepsLeft(pc[p], job[p])

\* What p has left is what is left at the stage, and with the job, it goes on with.
LEMMA Reached ==
  ASSUME IInv, NEW p \in Procs, NEW s, NEW j, GoOn(p, s, j)
  PROVE  StepsLeft(pc'[p], job'[p]) = StepsLeft(s, j)
  <1>1. pc'[p] = s /\ job'[p] = IF s = "idle" THEN NoJob ELSE j
    BY DEF GoOn, IInv, TypeOK
  <1>2. CASE s = "idle"
    BY <1>1, <1>2, StepsTable
  <1>3. CASE s # "idle"
    BY <1>1, <1>3
  <1> QED
    BY <1>2, <1>3

LEMMA GotoSteps ==
  ASSUME IInv, NEW p \in Procs, NEW s, Goto(p, s)
  PROVE  StepsLeft(pc'[p], job'[p]) = StepsLeft(s, job[p])
  BY Reached DEF Goto

\* A job begun again is of the same command.
LEMMA RestartSteps ==
  ASSUME IInv, NEW p \in Procs, NEW s, Restart(p, s)
  PROVE  \E j : /\ StepsLeft(pc'[p], job'[p]) = StepsLeft(s, j)
                /\ Again(j) = Again(job[p])
  <1> DEFINE j == [Fresh(job[p].cmd, job[p].inventory) EXCEPT !.warned = job[p].warned]
  <1>1. j.cmd = job[p].cmd
    BY DEF Fresh
  <1>2. Again(j) = Again(job[p])
    BY <1>1 DEF Again
  <1>3. GoOn(p, s, j)
    BY DEF Restart
  <1> HIDE DEF j
  <1> QED
    BY <1>2, <1>3, Reached

LEMMA LeaveSteps ==
  ASSUME IInv, NEW p \in Procs, LeaveArtifacts(p)
  PROVE  StepsLeft(pc'[p], job'[p]) \in 0..18
  BY Reached, StartSteps DEF LeaveArtifacts

\* A warning changes nothing that counts.
LEMMA WarnedSteps ==
  ASSUME IInv, NEW p \in Procs, NEW s, GoOn(p, s, [job[p] EXCEPT !.warned = TRUE])
  PROVE  \E j : /\ StepsLeft(pc'[p], job'[p]) = StepsLeft(s, j)
                /\ Again(j) = Again(job[p])
  <1> DEFINE j == [job[p] EXCEPT !.warned = TRUE]
  <1>1. j.cmd = job[p].cmd
    BY Typing DEF IInv, Job
  <1>2. Again(j) = Again(job[p])
    BY <1>1 DEF Again
  <1> HIDE DEF j
  <1> QED
    BY <1>2, Reached DEF j

LEMMA ReadDescends ==
  ASSUME IInv, NEW p \in Procs, Pulse(p) \/ Look(p) \/ ReadA(p) \/ ReadI(p)
  PROVE  Descends(p)
  <1>1. CASE Pulse(p)
    BY <1>1, GotoSteps, StartSteps, StepsTable, CacheAssumption DEF Pulse, Descends
  <1>2. CASE Look(p)
    BY <1>2, Reached, StepsTable, CacheAssumption DEF Look, Descends
  <1>3. CASE ReadA(p)
    <2>1. CASE LeaveArtifacts(p)
      BY <1>3, <2>1, LeaveSteps, StepsTable, CacheAssumption DEF ReadA, Descends
    <2>2. CASE Restart(p, "beginA")
      BY <1>3, <2>2, RestartSteps, StepsTable, CacheAssumption DEF ReadA, Descends
    <2> QED
      BY <1>3, <2>1, <2>2 DEF ReadA
  <1>4. CASE ReadI(p)
    <2>1. CASE Goto(p, "idle")
      BY <1>4, <2>1, GotoSteps, StepsTable DEF ReadI, Descends
    <2>2. CASE Restart(p, "beginI")
      BY <1>4, <2>2, RestartSteps, StepsTable, AgainRange DEF ReadI, Descends
    <2>3. CASE \E j : GoOn(p, "beginInc", j)
      BY <1>4, <2>3, Reached, StepsTable DEF ReadI, Descends
    <2> QED
      BY <1>4, <2>1, <2>2, <2>3 DEF ReadI
  <1> QED
    BY <1>1, <1>2, <1>3, <1>4

LEMMA MarkerDescends ==
  ASSUME IInv, NEW p \in Procs,
         BeginOperation(p) \/ NothingToDelete(p) \/ SkipInc(p) \/ EndOperation(p)
  PROVE  Descends(p)
  <1>1. job[p].at \in 1..(N + 1) /\ Again(job[p]) \in {0, 6}
    BY Typing, AgainRange DEF IInv, Job
  <1>2. CASE BeginOperation(p)
    <2>1. PICK j : /\ StepsLeft(pc'[p], job'[p]) = StepsLeft(AfterBegin(p), j)
                   /\ Again(j) = Again(job[p]) /\ j.at = job[p].at
      <3>1. CASE Goto(p, AfterBegin(p))
        BY <3>1, GotoSteps
      <3>2. CASE GoOn(p, AfterBegin(p), [job[p] EXCEPT !.warned = TRUE])
        <4> DEFINE j == [job[p] EXCEPT !.warned = TRUE]
        <4>1. j.cmd = job[p].cmd /\ j.at = job[p].at
          BY Typing DEF IInv, Job
        <4>2. Again(j) = Again(job[p])
          BY <4>1 DEF Again
        <4> HIDE DEF j
        <4> QED
          BY <3>2, <4>1, <4>2, Reached DEF j
      <3> QED
        BY <1>2, <3>1, <3>2 DEF BeginOperation
    <2>2. CASE pc[p] = "beginA"
      BY <1>1, <2>1, <2>2, StepsTable, CacheAssumption DEF AfterBegin, Descends
    <2>3. CASE pc[p] = "beginI"
      BY <1>1, <2>1, <2>3, StepsTable DEF AfterBegin, Descends
    <2>4. CASE pc[p] = "beginInc"
      BY <1>1, <2>1, <2>4, StepsTable DEF AfterBegin, Descends
    <2> QED
      BY <1>2, <2>2, <2>3, <2>4 DEF BeginOperation
  <1>3. CASE NothingToDelete(p)
    BY <1>3, LeaveSteps, StepsTable, CacheAssumption
       DEF NothingToDelete, Descends
  <1>4. CASE SkipInc(p)
    BY <1>1, <1>4, WarnedSteps, StepsTable DEF SkipInc, Descends
  <1>5. CASE EndOperation(p)
    <2>1. CASE pc[p] = "endA" /\ LeaveArtifacts(p)
      BY <2>1, LeaveSteps, StepsTable DEF Descends
    <2>2. CASE pc[p] = "fallInc" /\ Restart(p, "beginI")
      BY <1>1, <2>2, RestartSteps, StepsTable DEF Descends
    <2>3. CASE pc[p] = "endInc" /\ (Goto(p, "beginI") \/ Goto(p, "lookAgain"))
      BY <1>1, <2>3, GotoSteps, StepsTable DEF Descends
    <2>4. CASE pc[p] = "endI" /\ Inspects(job[p].cmd) /\ Goto(p, "lookAgain")
      BY <2>4, GotoSteps, StepsTable DEF Again, Descends
    <2>5. CASE pc[p] = "endI" /\ Goto(p, "idle")
      BY <1>1, <2>5, GotoSteps, StepsTable DEF Descends
    <2> QED
      BY <1>5, <2>1, <2>2, <2>3, <2>4, <2>5 DEF EndOperation
  <1> QED
    BY <1>2, <1>3, <1>4, <1>5

LEMMA UndoSteps ==
  ASSUME IInv, NEW p \in Procs, NEW k \in 0..N, UndoFrom(p, k)
  PROVE  StepsLeft(pc'[p], job'[p]) = 19 + k
  <1> DEFINE j == [job[p] EXCEPT !.at = IF k = 0 THEN 1 ELSE k]
  <1>1. j.at = IF k = 0 THEN 1 ELSE k
    BY Typing DEF IInv, Job
  <1>2. GoOn(p, IF k = 0 THEN "endA" ELSE "undoA", j)
    BY DEF UndoFrom
  <1> HIDE DEF j
  <1>3. CASE k = 0
    BY <1>2, <1>3, Reached, StepsTable
  <1>4. CASE k # 0
    BY <1>1, <1>2, <1>4, Reached, StepsTable
  <1> QED
    BY <1>3, <1>4

\* The loops of the transaction: a copy and a move for every artifact, or less
\* and then a step back for each.
LEMMA TransactionDescends ==
  ASSUME IInv, NEW p \in Procs,
         ProjectA(p) \/ CopyA(p) \/ InstallA(p) \/ FailA(p) \/ UndoA(p)
  PROVE  Descends(p)
  <1> DEFINE k == job[p].at
  <1>1. job[p] \in Job
    BY Typing DEF IInv
  <1>2. CASE ProjectA(p)
    <2> DEFINE j == [job[p] EXCEPT !.view = Projection(p), !.at = 1]
    <2>1. j.at = 1 /\ GoOn(p, "copyA", j)
      BY <1>1, <1>2 DEF ProjectA, Job
    <2> HIDE DEF j
    <2> QED
      BY <1>2, <2>1, Reached, StepsTable, CacheAssumption DEF ProjectA, Descends
  <1>3. CASE CopyA(p)
    <2> DEFINE j == [job[p] EXCEPT !.old[k] = artifacts[k]]
    <2>1. j.at = k /\ GoOn(p, "installA", j)
      BY <1>1, <1>3 DEF CopyA, Job
    <2>2. k \in 1..N
      BY <1>3, AtRange DEF CopyA
    <2> HIDE DEF j
    <2> QED
      BY <1>3, <2>1, <2>2, Reached, StepsTable, CacheAssumption DEF CopyA, Descends
  <1>4. CASE InstallA(p)
    <2> DEFINE j == [job[p] EXCEPT !.at = k + 1]
    <2>1. k \in 1..N
      BY <1>4, AtRange DEF InstallA
    <2>2. CASE k = N /\ Goto(p, "clearA")
      BY <1>4, <2>1, <2>2, GotoSteps, StepsTable, CacheAssumption DEF InstallA, Descends
    <2>3. CASE GoOn(p, "copyA", j)
      <3>1. j.at = k + 1
        BY <1>1 DEF Job
      <3> HIDE DEF j
      <3> QED
        BY <1>4, <2>1, <2>3, <3>1, Reached, StepsTable, CacheAssumption DEF InstallA, Descends
    <2> QED
      BY <1>4, <2>2, <2>3 DEF InstallA
  <1>5. CASE FailA(p)
    <2>1. CASE pc[p] = "projectA" /\ UndoFrom(p, 0)
      <3>1. 0 \in 0..N
        BY CacheAssumption
      <3> QED
        BY <2>1, <3>1, UndoSteps, StepsTable, CacheAssumption DEF Descends
    <2>2. CASE pc[p] = "copyA" /\ UndoFrom(p, k - 1)
      <3>1. k \in 1..N /\ k - 1 \in 0..N
        BY <2>2, AtRange, CacheAssumption
      <3> QED
        BY <2>2, <3>1, UndoSteps, StepsTable, CacheAssumption DEF Descends
    <2>3. CASE pc[p] = "installA" /\ UndoFrom(p, k)
      <3>1. k \in 1..N /\ k \in 0..N
        BY <2>3, AtRange, CacheAssumption
      <3> QED
        BY <2>3, <3>1, UndoSteps, StepsTable, CacheAssumption DEF Descends
    <2> QED
      BY <1>5, <2>1, <2>2, <2>3 DEF FailA
  <1>6. CASE UndoA(p)
    <2>1. k \in 1..N /\ k - 1 \in 0..N
      BY <1>6, AtRange, CacheAssumption DEF UndoA
    <2> QED
      BY <1>6, <2>1, UndoSteps, StepsTable, CacheAssumption DEF UndoA, Descends
  <1> QED
    BY <1>2, <1>3, <1>4, <1>5, <1>6

LEMMA UnlinkDescends ==
  ASSUME IInv, NEW p \in Procs, ClearA(p) \/ UnlinkA(p)
  PROVE  Descends(p)
  <1> DEFINE k == job[p].at
  <1>1. job[p] \in Job /\ k \in 1..(N + 1)
    BY Typing DEF IInv, Job
  <1>2. CASE ClearA(p)
    BY <1>2, RestartSteps, StepsTable DEF ClearA, Descends
  <1>3. CASE UnlinkA(p)
    <2>1. CASE k <= N /\ GoOn(p, "unlinkA", [job[p] EXCEPT !.at = k + 1])
      <3> DEFINE j == [job[p] EXCEPT !.at = k + 1]
      <3>1. j.at = k + 1
        BY <1>1 DEF Job
      <3> HIDE DEF j
      <3>2. GoOn(p, "unlinkA", j)
        BY <2>1 DEF j
      <3> QED
        BY <1>1, <1>3, <3>1, <3>2, Reached, StepsTable, CacheAssumption DEF UnlinkA, Descends
    <2>2. CASE \E j : GoOn(p, "endA", j)
      BY <1>1, <1>3, <2>2, Reached, StepsTable, CacheAssumption DEF UnlinkA, Descends
    <2> QED
      BY <1>3, <2>1, <2>2 DEF UnlinkA, Goto
  <1> QED
    BY <1>2, <1>3

LEMMA IndexDescends ==
  ASSUME IInv, NEW p \in Procs,
         \/ CopyInc(p) \/ DraftI(p) \/ PublishI(p) \/ ClearI(p) \/ LookAgain(p) \/ UnlinkI(p)
  PROVE  Descends(p)
  <1>1. job[p] \in Job /\ Again(job[p]) \in {0, 6}
    BY Typing, AgainRange DEF IInv
  <1>2. CASE CopyInc(p)
    BY <1>2, Reached, GotoSteps, StepsTable DEF CopyInc, Descends
  <1>3. CASE DraftI(p)
    <2>1. CASE GoOn(p, "endI", [job[p] EXCEPT !.warned = TRUE])
      BY <1>1, <1>3, <2>1, WarnedSteps, StepsTable DEF DraftI, Descends
    <2>2. CASE GoOn(p, "publishI", [job[p] EXCEPT !.view = Projection(p), !.draft = Projection(p)])
      <3> DEFINE j == [job[p] EXCEPT !.view = Projection(p), !.draft = Projection(p)]
      <3>1. j.cmd = job[p].cmd
        BY <1>1 DEF Job
      <3>2. Again(j) = Again(job[p])
        BY <3>1 DEF Again
      <3> HIDE DEF j
      <3>3. GoOn(p, "publishI", j)
        BY <2>2 DEF j
      <3> QED
        BY <1>1, <1>3, <3>2, <3>3, Reached, StepsTable DEF DraftI, Descends
    <2> QED
      BY <1>3, <2>1, <2>2 DEF DraftI
  <1>4. CASE PublishI(p)
    <2>1. CASE pc[p] = "publishI" /\ Goto(p, "clearI")
      BY <1>1, <2>1, GotoSteps, StepsTable DEF Descends
    <2>2. CASE pc[p] = "publishI" /\ GoOn(p, "endI", [job[p] EXCEPT !.warned = TRUE])
      BY <1>1, <2>2, WarnedSteps, StepsTable DEF Descends
    <2>3. CASE pc[p] = "publishInc" /\ (Goto(p, "clearInc") \/ Goto(p, "fallInc"))
      BY <2>3, GotoSteps, StepsTable DEF Descends
    <2> QED
      BY <1>4, <2>1, <2>2, <2>3 DEF PublishI
  <1>5. CASE ClearI(p)
    BY <1>1, <1>5, RestartSteps, StepsTable DEF ClearI, Descends
  <1>6. CASE LookAgain(p)
    <2>1. CASE Goto(p, "idle")
      BY <1>6, <2>1, GotoSteps, StepsTable DEF LookAgain, Descends
    <2>2. CASE GoOn(p, "beginI", [job[p] EXCEPT !.cmd.kind = "build"])
      <3> DEFINE j == [job[p] EXCEPT !.cmd.kind = "build"]
      <3>1. j.cmd.kind = "build"
        BY <1>1 DEF Job, Command
      <3>2. Again(j) = 0
        BY <3>1 DEF Again, Inspects
      <3> HIDE DEF j
      <3>3. GoOn(p, "beginI", j)
        BY <2>2 DEF j
      <3> QED
        BY <1>6, <3>2, <3>3, Reached, StepsTable DEF LookAgain, Descends
    <2> QED
      BY <1>6, <2>1, <2>2 DEF LookAgain
  <1>7. CASE UnlinkI(p)
    BY <1>1, <1>7, GotoSteps, StepsTable DEF UnlinkI, Descends
  <1> QED
    BY <1>2, <1>3, <1>4, <1>5, <1>6, <1>7

LEMMA StepDescends ==
  ASSUME IInv, NEW p \in Procs, Step(p) \/ FailA(p) \/ Kill(p)
  PROVE  Descends(p)
  <1>1. CASE Kill(p)
    <2>1. StepsLeft(pc'[p], job'[p]) = 0
      BY <1>1, GotoSteps, StepsTable DEF Kill
    <2>2. StepsLeft(pc[p], job[p]) # 0
      <3>1. pc[p] \in Stages \ {"idle"} /\ job[p].at \in 1..(N + 1)
        BY <1>1, Typing DEF Kill, IInv, Job
      <3>2. CASE pc[p] \in {"copyA", "installA", "undoA"}
        BY <3>2, AtRange, StepsTable, CacheAssumption
      <3>3. CASE pc[p] \in {"unlinkA", "projectA", "beginA", "readA", "lookA", "pulse"}
        BY <3>1, <3>3, StepsTable, CacheAssumption
      <3>4. CASE pc[p] \in {"endI", "clearI", "unlinkI", "publishI", "draftI", "beginI"}
        BY <3>4, StepsTable, AgainRange
      <3>5. CASE pc[p] \in {"lookAgain", "endInc", "fallInc", "clearInc", "publishInc",
                            "copyInc", "beginInc", "readI", "lookI", "endA", "clearA"}
        BY <3>5, StepsTable
      <3> QED
        BY <3>1, <3>2, <3>3, <3>4, <3>5 DEF Stages, Operating
    <2> QED
      BY <2>1, <2>2, StepsRange, CacheAssumption DEF Descends
  <1>2. CASE Step(p) \/ FailA(p)
    BY <1>2, ReadDescends, MarkerDescends, TransactionDescends, UnlinkDescends, IndexDescends
       DEF Step
  <1> QED
    BY <1>1, <1>2

\* Nobody moves but the one whose step it is.
LEMMA OthersStay ==
  ASSUME IInv, NEW p \in Procs, NEW q \in Procs, p # q, Step(p) \/ FailA(p) \/ Kill(p)
  PROVE  UNCHANGED <<pc[q], job[q]>>
  <1>1. \E s, j : GoOn(p, s, j)
    <2>1. CASE Pulse(p) \/ Look(p) \/ ReadA(p) \/ ReadI(p)
      BY <2>1 DEF Pulse, Look, ReadA, ReadI, Goto, Restart, LeaveArtifacts
    <2>2. CASE BeginOperation(p) \/ NothingToDelete(p) \/ SkipInc(p) \/ EndOperation(p)
      BY <2>2 DEF BeginOperation, NothingToDelete, SkipInc, EndOperation, Goto, Restart,
                  LeaveArtifacts
    <2>3. CASE ProjectA(p) \/ CopyA(p) \/ InstallA(p) \/ FailA(p) \/ UndoA(p)
      BY <2>3 DEF ProjectA, CopyA, InstallA, FailA, UndoA, UndoFrom, Goto
    <2>4. CASE ClearA(p) \/ UnlinkA(p) \/ CopyInc(p) \/ DraftI(p)
      BY <2>4 DEF ClearA, UnlinkA, CopyInc, DraftI, Goto, Restart
    <2>5. CASE PublishI(p) \/ ClearI(p) \/ LookAgain(p) \/ UnlinkI(p) \/ Kill(p)
      BY <2>5 DEF PublishI, ClearI, LookAgain, UnlinkI, Kill, Goto, Restart
    <2> QED
      BY <2>1, <2>2, <2>3, <2>4, <2>5 DEF Step
  <1> QED
    BY <1>1 DEF GoOn, IInv, TypeOK

LEMMA NextDescends ==
  ASSUME IInv, [Next]_vars, NEW q \in Procs, pc[q] # "idle"
  PROVE  UNCHANGED <<pc[q], job[q]>> \/ Descends(q)
  <1>1. CASE \E w \in Writers : Change(w) \/ MarkDirty(w) \/ ForgetToMark(w)
    BY <1>1 DEF Change, MarkDirty, ForgetToMark
  <1>2. CASE \E t \in Targets : Quieten(t)
    BY <1>2 DEF Quieten
  <1>3. ASSUME NEW p \in Procs, NEW c, Begin(p, c)
        PROVE  UNCHANGED <<pc[q], job[q]>>
    BY <1>3 DEF Begin, GoOn, IInv, TypeOK
  <1>4. CASE Tick
    BY <1>3, <1>4, CacheAssumption DEF Tick
  <1>5. CASE \E p \in Procs : Launch(p)
    BY <1>3, <1>5 DEF Launch
  <1>6. CASE \E p \in Procs : Step(p) \/ FailA(p) \/ Kill(p)
    BY <1>6, StepDescends, OthersStay
  <1>7. CASE UNCHANGED vars
    BY <1>7 DEF vars
  <1> QED
    BY <1>1, <1>2, <1>4, <1>5, <1>6, <1>7 DEF Next

\* Every command of the cache ends after at most 3 * N + 25 steps of its own,
\* however often it is overtaken by writers and other refreshers: no step sets
\* it back, and each of its own brings it nearer to its end.
THEOREM CommandsAreBounded ==
  Spec => /\ CommandsDescend
          /\ [](\A p \in Procs : StepsLeft(pc[p], job[p]) \in 0..(25 + 3 * N))
          /\ [][\A p \in Procs : Step(p) \/ FailA(p) \/ Kill(p) => Descends(p)]_vars
  <1>1. IInv => \A p \in Procs : StepsLeft(pc[p], job[p]) \in 0..(25 + 3 * N)
    BY StepsRange
  <1>2. IInv /\ [Next]_vars =>
          [\A p \in Procs : pc[p] # "idle" =>
             \/ UNCHANGED <<pc[p], job[p]>>
             \/ StepsLeft(pc'[p], job'[p]) < StepsLeft(pc[p], job[p])]_vars
    BY NextDescends DEF Descends
  <1>3. IInv /\ [Next]_vars =>
          [\A p \in Procs : Step(p) \/ FailA(p) \/ Kill(p) => Descends(p)]_vars
    BY StepDescends
  <1> QED
    BY <1>1, <1>2, <1>3, Invariance, PTL DEF Spec, CommandsDescend
=============================================================================
