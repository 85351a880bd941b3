----------------------------- MODULE Mlhd_proofs -----------------------------
(***************************************************************************)
(* What holds of the mlhd control plane for any set of pids, any number of *)
(* commands at the same time and any number of killed processes.  The two  *)
(* parts of the invariant are inductive together: a marker that names a    *)
(* pid is overwritten by that process before it leaves the stages of a     *)
(* refresh, or the process is killed and the marker counts as left behind. *)
(***************************************************************************)
EXTENDS Mlhd, TLAPS

LEMMA InitEstablishes == Init => IInv
<1>. SUFFICES ASSUME Init PROVE IInv
  OBVIOUS
<1>1. TypeOK
  BY MlhdAssumption DEF Init, TypeOK, Stages
<1>2. Family
  BY DEF Init, Family, Parent, SpawnedStages
<1>3. ActiveMarkersAreTrue
  BY MlhdAssumption DEF Init, ActiveMarkersAreTrue
<1>. QED BY <1>1, <1>2, <1>3 DEF IInv

\* Of the processes that stay, an exit changes only zombies.
LEMMA ExitLemma ==
  ASSUME TypeOK, NEW p \in Pids, Exit(p)
  PROVE  /\ stage' \in [Pids -> Stages]
         /\ known' \in [Pids -> Pids \union {NoPid}]
         /\ locked' \in [Pids -> BOOLEAN]
         /\ \A q \in Pids \ {p} : stage[q] # "zombie" => stage'[q] = stage[q]
<1>1. /\ "zombie" \in Stages /\ "free" \in Stages
  BY DEF Stages
<1>2. \A q \in Pids : stage[q] \in Stages
  BY DEF TypeOK
<1>3. stage' \in [Pids -> Stages]
  BY <1>1, <1>2 DEF Exit
<1>4. \A q \in Pids \ {p} : stage[q] # "zombie" => stage'[q] = stage[q]
  BY DEF Exit
<1>5. /\ known' \in [Pids -> Pids \union {NoPid}]
      /\ locked' \in [Pids -> BOOLEAN]
  BY DEF Exit, Forget, TypeOK
<1>. QED BY <1>3, <1>4, <1>5

LEMMA GotoLemma ==
  ASSUME TypeOK, NEW p \in Pids, NEW s \in Stages, Goto(p, s)
  PROVE  /\ stage' \in [Pids -> Stages]
         /\ stage'[p] = s
         /\ \A q \in Pids \ {p} : stage'[q] = stage[q]
BY DEF Goto, TypeOK

-----------------------------------------------------------------------------
(* The processes are well typed after every step.                          *)

LEMMA TypeStep ==
  ASSUME TypeOK, Family, [Next]_vars
  PROVE  TypeOK'
<1>. USE MlhdAssumption
<1>0. CASE UNCHANGED vars
  BY <1>0 DEF TypeOK, vars, files, procs, history
<1>1. SUFFICES ASSUME NEW p \in Pids,
                      Launch(p) \/ Step(p) \/ Refresh(p) \/ GiveUp(p) \/ Crash(p)
               PROVE  TypeOK'
  BY <1>0 DEF Next
<1>2. CASE Launch(p)
  <2>1. stage' \in [Pids -> Stages]
    BY <1>2 DEF Launch, Goto, TypeOK, Stages, StartStages, StopStages, RunStages
  <2>. QED BY <1>2, <2>1 DEF Launch, TypeOK, files, history
<1>3. CASE Crash(p)
  <2>1. cut' \subseteq {"state", "lastRun"}
    BY <1>3 DEF Crash, LeftBy, TypeOK
  <2>2. crashes' \in 0 .. MaxCrashes
    BY <1>3 DEF Crash, TypeOK
  <2>. QED BY <1>3, <2>1, <2>2, ExitLemma DEF Crash, TypeOK, files
<1>4. CASE GiveUp(p)
  BY <1>4, ExitLemma DEF GiveUp, TypeOK, files, history
<1>5. CASE Refresh(p)
  <2>1. "openDone" \in Stages
    BY DEF Stages, RunStages
  <2>. QED BY <1>5, <2>1, GotoLemma DEF Refresh, TypeOK, files, history
<1>6. CASE ReadPid(p)
  <2>1. "readLock" \in Stages
    BY DEF Stages, StartStages
  <2>2. known' \in [Pids -> Pids \union {NoPid}]
    BY <1>6 DEF ReadPid, TypeOK
  <2>. QED BY <1>6, <2>1, <2>2, GotoLemma DEF ReadPid, TypeOK, files, history
<1>7. CASE ReadLock(p)
  <2>1. "decide" \in Stages
    BY DEF Stages, StartStages
  <2>2. locked' \in [Pids -> BOOLEAN]
    BY <1>7 DEF ReadLock, TypeOK
  <2>. QED BY <1>7, <2>1, <2>2, GotoLemma DEF ReadLock, TypeOK, files, history
<1>8. CASE Decide(p)
  <2>1. CASE Exit(p)
    BY <1>8, <2>1, ExitLemma DEF Decide, TypeOK, files, history
  <2>2. CASE Goto(p, IF known[p] # NoPid /\ ~Alive(known[p])
                     THEN "removePid" ELSE "spawn") /\ Forget(p)
    <3>1. "removePid" \in Stages /\ "spawn" \in Stages
      BY DEF Stages, StartStages
    <3>2. stage' \in [Pids -> Stages]
      BY <2>2, <3>1 DEF Goto, TypeOK
    <3>3. known' \in [Pids -> Pids \union {NoPid}] /\ locked' \in [Pids -> BOOLEAN]
      BY <2>2 DEF Forget, TypeOK
    <3>. QED BY <1>8, <3>2, <3>3 DEF Decide, TypeOK, files, history
  <2>. QED BY <1>8, <2>1, <2>2 DEF Decide
<1>9. CASE Spawn(p)
  <2>1. "openPid" \in Stages /\ "wait" \in Stages
    BY DEF Stages, SpawnedStages, WorkerStages
  <2>2. CASE Exit(p)
    BY <1>9, <2>2, ExitLemma DEF Spawn, TypeOK, files, history
  <2>3. ASSUME NEW w \in Pids,
               stage' = [stage EXCEPT ![p] = "openPid", ![w] = "wait"],
               known' = [known EXCEPT ![p] = w], UNCHANGED locked
        PROVE  TypeOK'
    <3>1. stage' \in [Pids -> Stages]
      BY <2>1, <2>3 DEF TypeOK
    <3>. QED BY <1>9, <2>3, <3>1 DEF Spawn, TypeOK, files, history
  <2>. QED BY <1>9, <2>2, <2>3 DEF Spawn
<1>10. CASE WritePid(p) \/ WriteLock(p) \/ RemovePid(p) \/ RemoveLock(p)
  <2>1. stage' \in [Pids -> Stages]
    BY <1>10 DEF WritePid, WriteLock, RemovePid, RemoveLock, Goto, TypeOK, Stages,
       StartStages, SpawnedStages, StopStages
  <2>2. stage[p] = "fillPid" => known[p] \in Pids
    BY DEF Family, Parent, SpawnedStages
  <2>3. pidFile' \in Pids \union {Absent, Torn} /\ lockFile' \in {Absent, Torn, Whole}
    BY <1>10, <2>2 DEF WritePid, WriteLock, RemovePid, RemoveLock, TypeOK
  <2>. QED BY <1>10, <2>1, <2>3 DEF WritePid, WriteLock, RemovePid, RemoveLock, TypeOK, history
<1>11. CASE WriteState(p)
  <2>1. CASE OpenState(p)
    <3>1. stage' \in [Pids -> Stages]
      BY <2>1 DEF OpenState, Goto, TypeOK, Stages, SpawnedStages, StopStages, RunStages
    <3>. QED BY <2>1, <3>1 DEF OpenState, TypeOK
  <2>2. CASE FillState(p)
    <3>1. CASE Exit(p) /\ state' = Quiet
      BY <2>2, <3>1, ExitLemma DEF FillState, TypeOK
    <3>2. CASE Goto(p, "refresh") /\ state' = p /\ UNCHANGED <<known, locked>>
      <4>1. "refresh" \in Stages
        BY DEF Stages, RunStages
      <4>. QED BY <2>2, <3>2, <4>1, GotoLemma DEF FillState, TypeOK
    <3>. QED BY <2>2, <3>1, <3>2 DEF FillState
  <2>. QED BY <1>11, <2>1, <2>2 DEF WriteState
<1>12. CASE RunOnce(p)
  <2>1. CASE ReadState(p)
    <3>1. "guard" \in Stages
      BY DEF Stages, RunStages
    <3>2. known' \in [Pids -> Pids \union {NoPid}]
      BY <2>1 DEF ReadState, TypeOK
    <3>. QED BY <2>1, <3>1, <3>2, GotoLemma DEF ReadState, TypeOK, files, history
  <2>2. CASE Guard(p)
    <3>1. CASE Exit(p)
      BY <2>2, <3>1, ExitLemma DEF Guard, TypeOK, files, history
    <3>2. CASE Goto(p, "openBegun") /\ Forget(p)
      <4>1. "openBegun" \in Stages
        BY DEF Stages, RunStages
      <4>2. known' \in [Pids -> Pids \union {NoPid}] /\ locked' \in [Pids -> BOOLEAN]
        BY <3>2 DEF Forget, TypeOK
      <4>. QED BY <2>2, <3>2, <4>1, <4>2, GotoLemma DEF Guard, TypeOK, files, history
    <3>. QED BY <2>2, <3>1, <3>2 DEF Guard
  <2>3. CASE OpenLastRun(p)
    <3>1. stage' \in [Pids -> Stages]
      BY <2>3 DEF OpenLastRun, Goto, TypeOK, Stages, RunStages
    <3>. QED BY <2>3, <3>1 DEF OpenLastRun, TypeOK
  <2>4. CASE FillLastRun(p)
    <3>1. stage' \in [Pids -> Stages]
      BY <2>4 DEF FillLastRun, Goto, TypeOK, Stages, RunStages
    <3>2. lastRun' \in Pids \union {Absent, Torn, Quiet}
      BY <2>4 DEF FillLastRun
    <3>. QED BY <2>4, <3>1, <3>2 DEF FillLastRun, TypeOK
  <2>. QED BY <1>12, <2>1, <2>2, <2>3, <2>4 DEF RunOnce
<1>13. CASE Work(p)
  <2>1. CASE LookForMarkers(p)
    <3>1. stage' \in [Pids -> Stages]
      BY <2>1 DEF LookForMarkers, Goto, TypeOK, Stages, WorkerStages
    <3>. QED BY <2>1, <3>1 DEF LookForMarkers, TypeOK, files, history
  <2>2. CASE LookAgain(p)
    <3>1. CASE Exit(p)
      BY <2>2, <3>1, ExitLemma DEF LookAgain, TypeOK, files, history
    <3>2. CASE (Goto(p, "loopPid") \/ Goto(p, "tick")) /\ UNCHANGED <<known, locked>>
      <4>1. stage' \in [Pids -> Stages]
        BY <3>2 DEF Goto, TypeOK, Stages, WorkerStages
      <4>. QED BY <2>2, <3>2, <4>1 DEF LookAgain, TypeOK, files, history
    <3>. QED BY <2>2, <3>1, <3>2 DEF LookAgain
  <2>3. CASE Tick(p)
    <3>1. "ticking" \in Stages /\ "readState" \in Stages
      BY DEF Stages, RunStages, WorkerStages
    <3>2. CASE Exit(p)
      BY <2>3, <3>2, ExitLemma DEF Tick, TypeOK, files, history
    <3>3. ASSUME NEW c \in Pids,
                 stage' = [stage EXCEPT ![p] = "ticking", ![c] = "readState"],
                 known' = [known EXCEPT ![p] = c], UNCHANGED locked
          PROVE  TypeOK'
      <4>1. stage' \in [Pids -> Stages]
        BY <3>1, <3>3 DEF TypeOK
      <4>. QED BY <2>3, <3>3, <4>1 DEF Tick, TypeOK, files, history
    <3>. QED BY <2>3, <3>2, <3>3 DEF Tick
  <2>4. CASE Reap(p)
    <3>1. "loop" \in Stages /\ "free" \in Stages
      BY DEF Stages, WorkerStages
    <3>2. stage' \in [Pids -> Stages]
      BY <2>4, <3>1 DEF Reap, TypeOK
    <3>3. known' \in [Pids -> Pids \union {NoPid}] /\ locked' \in [Pids -> BOOLEAN]
      BY <2>4 DEF Reap, Forget, TypeOK
    <3>. QED BY <2>4, <3>2, <3>3 DEF Reap, TypeOK, files, history
  <2>5. CASE Timeout(p)
    <3>1. "loop" \in Stages /\ "free" \in Stages
      BY DEF Stages, WorkerStages
    <3>2. stage' \in [Pids -> Stages]
      BY <2>5, <3>1 DEF Timeout, TypeOK
    <3>3. known' \in [Pids -> Pids \union {NoPid}] /\ locked' \in [Pids -> BOOLEAN]
      BY <2>5 DEF Timeout, TypeOK
    <3>4. cut' \subseteq {"state", "lastRun"}
      BY <2>5 DEF Timeout, LeftBy, TypeOK
    <3>. QED BY <2>5, <3>2, <3>3, <3>4 DEF Timeout, TypeOK, files
  <2>. QED BY <1>13, <2>1, <2>2, <2>3, <2>4, <2>5 DEF Work
<1>. QED BY <1>1, <1>2, <1>3, <1>4, <1>5, <1>6, <1>7, <1>8, <1>9, <1>10, <1>11,
            <1>12, <1>13 DEF Step, Start, Remove

-----------------------------------------------------------------------------
(* Parents and their children.                                             *)

\* What every step but a spawn leaves as it was, and why that is enough.
LEMMA FamilyKept ==
  ASSUME TypeOK, Family,
         \A q \in Pids : Parent(q)' => Parent(q) /\ known'[q] = known[q],
         \A q, r \in Pids :
           stage[q] # "free" /\ Parent(r)' /\ known[r] = q => stage'[q] # "free",
         \A q \in Pids : stage'[q] = "ticking" => stage[q] = "ticking",
         \A q \in Pids : stage[q] \in RunStages \union {"zombie"} =>
                          stage'[q] \in RunStages \union {"zombie", "free"}
  PROVE  Family'
<1>1. ASSUME NEW p \in Pids, Parent(p)'
      PROVE  known'[p] \in Pids /\ stage'[known'[p]] # "free"
  <2>1. Parent(p) /\ known'[p] = known[p]
    BY <1>1
  <2>2. known[p] \in Pids /\ stage[known[p]] # "free"
    BY <2>1 DEF Family
  <2>. QED BY <1>1, <2>1, <2>2
<1>2. ASSUME NEW p \in Pids, NEW q \in Pids, Parent(p)', Parent(q)',
             known'[p] = known'[q]
      PROVE  p = q
  <2>1. Parent(p) /\ Parent(q) /\ known[p] = known[q]
    BY <1>2
  <2>. QED BY <2>1 DEF Family
<1>3. ASSUME NEW w \in Pids, stage'[w] = "ticking"
      PROVE  stage'[known'[w]] \in RunStages \union {"zombie"}
  <2>1. Parent(w)' /\ stage[w] = "ticking"
    BY <1>3 DEF Parent
  <2>2. known'[w] = known[w] /\ known[w] \in Pids /\ stage'[known[w]] # "free"
    BY <1>1, <2>1
  <2>3. stage[known[w]] \in RunStages \union {"zombie"}
    BY <2>1 DEF Family
  <2>. QED BY <2>2, <2>3
<1>. QED BY <1>1, <1>2, <1>3 DEF Family

LEMMA FamilyGoto ==
  ASSUME TypeOK, Family, NEW p \in Pids, NEW s \in Stages \ {"free", "ticking"},
         Goto(p, s),
         s \in SpawnedStages => stage[p] \in SpawnedStages,
         stage[p] \in RunStages \union {"zombie"} => s \in RunStages,
         \A q \in Pids : q # p \/ s \in SpawnedStages => known'[q] = known[q]
  PROVE  Family'
<1>1. stage'[p] = s /\ \A q \in Pids \ {p} : stage'[q] = stage[q]
  BY GotoLemma
<1>2. \A q \in Pids : Parent(q)' => Parent(q) /\ known'[q] = known[q]
  BY <1>1 DEF Parent
<1>3. \A q, r \in Pids :
        stage[q] # "free" /\ Parent(r)' /\ known[r] = q => stage'[q] # "free"
  BY <1>1
<1>4. \A q \in Pids : stage'[q] = "ticking" => stage[q] = "ticking"
  BY <1>1
<1>5. \A q \in Pids : stage[q] \in RunStages \union {"zombie"} =>
                       stage'[q] \in RunStages \union {"zombie", "free"}
  BY <1>1
<1>. QED BY <1>2, <1>3, <1>4, <1>5, FamilyKept

LEMMA FamilyExit ==
  ASSUME TypeOK, Family, NEW p \in Pids, stage[p] # "zombie", Exit(p)
  PROVE  Family'
<1>1. \A q \in Pids : q # p /\ stage[q] # "zombie" => stage'[q] = stage[q]
  BY ExitLemma
<1>2. \A q \in Pids : q # p /\ stage[q] = "zombie" => stage'[q] \in {"zombie", "free"}
  BY DEF Exit
<1>3. stage'[p] \in {"zombie", "free"}
  BY DEF Exit
<1>4. \A q \in Pids : q # p => known'[q] = known[q]
  BY DEF Exit, Forget, TypeOK
<1>5. ~Parent(p)'
  BY <1>3 DEF Parent, SpawnedStages
<1>6. \A q \in Pids : Parent(q)' => q # p /\ Parent(q) /\ known'[q] = known[q]
  BY <1>1, <1>2, <1>4, <1>5 DEF Parent, SpawnedStages
<1>7. ASSUME NEW q \in Pids, NEW r \in Pids,
             stage[q] # "free", Parent(r)', known[r] = q
      PROVE  stage'[q] # "free"
  <2>1. Parent(r) /\ r # p
    BY <1>6, <1>7
  <2>2. CASE q = p
    BY <1>7, <2>1, <2>2 DEF Exit, HasParent
  <2>3. CASE q # p /\ stage[q] = "zombie"
    <3>1. ~(Parent(p) /\ known[p] = q)
      BY <1>7, <2>1 DEF Family
    <3>. QED BY <2>3, <3>1 DEF Exit
  <2>. QED BY <1>1, <1>7, <2>2, <2>3
<1>8. \A q \in Pids : stage'[q] = "ticking" => stage[q] = "ticking"
  BY <1>1, <1>2, <1>3
<1>9. \A q \in Pids : stage[q] \in RunStages \union {"zombie"} =>
                       stage'[q] \in RunStages \union {"zombie", "free"}
  BY <1>1, <1>2, <1>3
<1>. QED BY <1>6, <1>7, <1>8, <1>9, FamilyKept

\* The first worker of a start, and the run-once of a tick.
LEMMA FamilySpawn ==
  ASSUME TypeOK, Family, NEW p \in Pids, NEW c \in Pids, NEW s, NEW t,
         ~Parent(p), stage[p] \notin {"free", "zombie"} \union RunStages, stage[c] = "free",
         <<s, t>> \in {<<"openPid", "wait">>, <<"ticking", "readState">>},
         stage' = [stage EXCEPT ![p] = s, ![c] = t],
         known' = [known EXCEPT ![p] = c]
  PROVE  Family'
<1>1. p # c
  OBVIOUS
<1>2. /\ stage'[p] = s /\ stage'[c] = t
      /\ \A q \in Pids \ {p, c} : stage'[q] = stage[q]
  BY <1>1 DEF TypeOK
<1>3. known'[p] = c /\ \A q \in Pids \ {p} : known'[q] = known[q]
  BY DEF TypeOK
<1>4. s \in SpawnedStages \union {"ticking"} /\ t \notin SpawnedStages \union {"ticking", "free"}
  BY DEF SpawnedStages
<1>5. \A q \in Pids : Parent(q)' <=> q = p \/ Parent(q)
  BY <1>1, <1>2, <1>4 DEF Parent, SpawnedStages
<1>6. \A q \in Pids : Parent(q) => known[q] # c
  BY DEF Family
<1>7. ASSUME NEW q \in Pids, Parent(q)'
      PROVE  known'[q] \in Pids /\ stage'[known'[q]] # "free"
  <2>1. CASE q = p
    BY <1>2, <1>3, <1>4, <2>1
  <2>2. CASE q # p
    <3>1. known[q] \in Pids /\ stage[known[q]] # "free" /\ known'[q] = known[q]
      BY <1>3, <1>5, <1>7, <2>2 DEF Family
    <3>2. s # "free"
      BY <1>4 DEF SpawnedStages
    <3>. QED BY <1>2, <1>4, <3>1, <3>2
  <2>. QED BY <2>1, <2>2
<1>8. ASSUME NEW q \in Pids, NEW r \in Pids, Parent(q)', Parent(r)',
             known'[q] = known'[r]
      PROVE  q = r
  <2>1. CASE q # p /\ r # p
    BY <1>3, <1>5, <1>8, <2>1 DEF Family
  <2>2. CASE q = p \/ r = p
    BY <1>3, <1>5, <1>6, <1>8, <2>2
  <2>. QED BY <2>1, <2>2
<1>9. ASSUME NEW w \in Pids, stage'[w] = "ticking"
      PROVE  stage'[known'[w]] \in RunStages \union {"zombie"}
  <2>1. CASE w = p
    <3>1. t = "readState"
      BY <1>2, <1>9, <2>1
    <3>. QED BY <1>2, <1>3, <2>1, <3>1 DEF RunStages
  <2>2. CASE w # p
    <3>1. stage[w] = "ticking" /\ known'[w] = known[w]
      BY <1>2, <1>3, <1>4, <1>9, <2>2
    <3>2. known[w] \in Pids /\ stage[known[w]] \in RunStages \union {"zombie"}
      BY <3>1 DEF Family, Parent
    <3>3. known[w] # p /\ known[w] # c
      BY <3>2 DEF RunStages
    <3>. QED BY <1>2, <3>1, <3>2, <3>3
  <2>. QED BY <2>1, <2>2
<1>. QED BY <1>7, <1>8, <1>9 DEF Family

LEMMA FamilyStep ==
  ASSUME TypeOK, Family, [Next]_vars
  PROVE  Family'
<1>0. CASE UNCHANGED vars
  BY <1>0 DEF Family, Parent, vars, procs
<1>1. SUFFICES ASSUME NEW p \in Pids,
                      Launch(p) \/ Step(p) \/ Refresh(p) \/ GiveUp(p) \/ Crash(p)
               PROVE  Family'
  BY <1>0 DEF Next
<1>. USE DEF Stages, StartStages, SpawnedStages, StopStages, RunStages, WorkerStages
<1>2. CASE Launch(p)
  <2>1. PICK s \in {"readPid", "dropPid", "readState"} : Goto(p, s)
    BY <1>2 DEF Launch
  <2>2. UNCHANGED known /\ stage[p] = "free"
    BY <1>2 DEF Launch
  <2>. QED BY <2>1, <2>2, FamilyGoto
<1>3. CASE Crash(p)
  BY <1>3, FamilyExit DEF Crash
<1>4. CASE GiveUp(p)
  BY <1>4, FamilyExit DEF GiveUp
<1>5. CASE Refresh(p)
  BY <1>5, FamilyGoto DEF Refresh
<1>6. CASE ReadPid(p)
  <2>1. \A q \in Pids \ {p} : known'[q] = known[q]
    BY <1>6 DEF ReadPid, TypeOK
  <2>. QED BY <1>6, <2>1, FamilyGoto DEF ReadPid
<1>7. CASE ReadLock(p)
  BY <1>7, FamilyGoto DEF ReadLock
<1>8. CASE Decide(p)
  <2>1. CASE Exit(p)
    BY <1>8, <2>1, FamilyExit DEF Decide
  <2>2. ASSUME NEW s \in {"removePid", "spawn"}, Goto(p, s), Forget(p)
        PROVE  Family'
    <3>1. \A q \in Pids \ {p} : known'[q] = known[q]
      BY <2>2 DEF Forget, TypeOK
    <3>. QED BY <1>8, <2>2, <3>1, FamilyGoto DEF Decide
  <2>. QED BY <1>8, <2>1, <2>2 DEF Decide
<1>9. CASE Spawn(p)
  <2>1. stage[p] = "spawn" /\ ~Parent(p)
    BY <1>9 DEF Spawn, Parent
  <2>2. CASE Exit(p)
    BY <2>1, <2>2, FamilyExit
  <2>3. CASE ~Exit(p)
    <3>1. PICK w \in Pids :
            /\ stage[w] = "free"
            /\ stage' = [stage EXCEPT ![p] = "openPid", ![w] = "wait"]
            /\ known' = [known EXCEPT ![p] = w]
      BY <1>9, <2>3 DEF Spawn
    <3>. QED BY <2>1, <3>1, FamilySpawn
  <2>. QED BY <2>2, <2>3
<1>10. CASE WritePid(p)
  BY <1>10, FamilyGoto DEF WritePid
<1>11. CASE WriteLock(p)
  BY <1>11, FamilyGoto DEF WriteLock
<1>12. CASE RemovePid(p)
  BY <1>12, FamilyGoto DEF RemovePid
<1>13. CASE RemoveLock(p)
  BY <1>13, FamilyGoto DEF RemoveLock
<1>14. CASE OpenState(p)
  BY <1>14, FamilyGoto DEF OpenState
<1>15. CASE FillState(p)
  <2>1. CASE Exit(p)
    BY <1>15, <2>1, FamilyExit DEF FillState
  <2>2. CASE ~Exit(p)
    BY <1>15, <2>2, FamilyGoto DEF FillState
  <2>. QED BY <2>1, <2>2
<1>16. CASE ReadState(p)
  <2>1. \A q \in Pids \ {p} : known'[q] = known[q]
    BY <1>16 DEF ReadState, TypeOK
  <2>. QED BY <1>16, <2>1, FamilyGoto DEF ReadState
<1>17. CASE Guard(p)
  <2>1. CASE Exit(p)
    BY <1>17, <2>1, FamilyExit DEF Guard
  <2>2. CASE ~Exit(p)
    <3>1. \A q \in Pids \ {p} : known'[q] = known[q]
      BY <1>17, <2>2 DEF Guard, Forget, TypeOK
    <3>. QED BY <1>17, <2>2, <3>1, FamilyGoto DEF Guard
  <2>. QED BY <2>1, <2>2
<1>18. CASE OpenLastRun(p)
  BY <1>18, FamilyGoto DEF OpenLastRun
<1>19. CASE FillLastRun(p)
  BY <1>19, FamilyGoto DEF FillLastRun
<1>20. CASE LookForMarkers(p)
  BY <1>20, FamilyGoto DEF LookForMarkers
<1>21. CASE LookAgain(p)
  <2>1. CASE Exit(p)
    BY <1>21, <2>1, FamilyExit DEF LookAgain
  <2>2. CASE ~Exit(p)
    BY <1>21, <2>2, FamilyGoto DEF LookAgain
  <2>. QED BY <2>1, <2>2
<1>22. CASE Tick(p)
  <2>1. stage[p] = "tick" /\ ~Parent(p)
    BY <1>22 DEF Tick, Parent
  <2>2. CASE Exit(p)
    BY <2>1, <2>2, FamilyExit
  <2>3. CASE ~Exit(p)
    <3>1. PICK c \in Pids :
            /\ stage[c] = "free"
            /\ stage' = [stage EXCEPT ![p] = "ticking", ![c] = "readState"]
            /\ known' = [known EXCEPT ![p] = c]
      BY <1>22, <2>3 DEF Tick
    <3>. QED BY <2>1, <3>1, FamilySpawn
  <2>. QED BY <2>2, <2>3
<1>23. CASE Reap(p) \/ Timeout(p)
  <2> DEFINE c == known[p]
  <2>1. stage[p] = "ticking" /\ Parent(p)
    BY <1>23 DEF Reap, Timeout, Parent
  <2>2. c \in Pids /\ stage[c] \in RunStages \union {"zombie"} /\ c # p
    BY <2>1 DEF Family
  <2>3. /\ stage'[p] = "loop" /\ stage'[c] = "free"
        /\ \A q \in Pids \ {p, c} : stage'[q] = stage[q]
    BY <1>23, <2>2 DEF Reap, Timeout, TypeOK
  <2>4. \A q \in Pids \ {p, c} : known'[q] = known[q]
    BY <1>23, <2>2 DEF Reap, Timeout, Forget, TypeOK
  <2>5. \A q \in Pids : Parent(q)' => Parent(q) /\ known'[q] = known[q]
    BY <2>3, <2>4 DEF Parent
  <2>6. \A q \in Pids : Parent(q)' => q # p
    BY <2>3 DEF Parent
  <2>7. \A q, r \in Pids :
          stage[q] # "free" /\ Parent(r)' /\ known[r] = q => stage'[q] # "free"
    <3>1. \A r \in Pids : Parent(r)' => known[r] # c
      BY <2>1, <2>5, <2>6 DEF Family
    <3>. QED BY <2>3, <3>1
  <2>8. \A q \in Pids : stage'[q] = "ticking" => stage[q] = "ticking"
    BY <2>3
  <2>9. \A q \in Pids : stage[q] \in RunStages \union {"zombie"} =>
                         stage'[q] \in RunStages \union {"zombie", "free"}
    BY <2>1, <2>3
  <2>. QED BY <2>5, <2>7, <2>8, <2>9, FamilyKept
<1>. QED BY <1>1, <1>2, <1>3, <1>4, <1>5, <1>6, <1>7, <1>8, <1>9, <1>10, <1>11,
            <1>12, <1>13, <1>14, <1>15, <1>16, <1>17, <1>18, <1>19, <1>20, <1>21,
            <1>22, <1>23 DEF Step, Start, Remove, WriteState, RunOnce, Work

-----------------------------------------------------------------------------
(* The markers of a run-once.                                              *)

Begun == {"openActive", "fillActive", "refresh", "openDone"}
Active == {"refresh", "openDone", "fillDone", "openIdle"}

\* A step that writes neither marker: the process that a marker names stays in
\* the stages of the marker, or is killed.
LEMMA MarkersKept ==
  ASSUME ActiveMarkersAreTrue, UNCHANGED <<state, lastRun>>, cut \subseteq cut',
         lastRun \in Pids /\ stage[lastRun] \in Begun =>
           stage'[lastRun] \in Begun \/ "lastRun" \in cut',
         state \in Pids /\ stage[state] \in Active =>
           stage'[state] \in Active \/ "state" \in cut'
  PROVE  ActiveMarkersAreTrue'
BY DEF ActiveMarkersAreTrue, Begun, Active

\* A step of a process that is not at a refresh, and starts or ends no other.
LEMMA MarkersApart ==
  ASSUME TypeOK, ActiveMarkersAreTrue, UNCHANGED <<state, lastRun, cut>>,
         \A q \in Pids : stage[q] \in Begun \union Active => stage'[q] = stage[q]
  PROVE  ActiveMarkersAreTrue'
BY MarkersKept

LEMMA MarkersStep ==
  ASSUME TypeOK, Family, ActiveMarkersAreTrue, [Next]_vars
  PROVE  ActiveMarkersAreTrue'
<1>0. CASE UNCHANGED vars
  BY <1>0 DEF ActiveMarkersAreTrue, vars, files, procs, history
<1>1. SUFFICES ASSUME NEW p \in Pids,
                      Launch(p) \/ Step(p) \/ Refresh(p) \/ GiveUp(p) \/ Crash(p)
               PROVE  ActiveMarkersAreTrue'
  BY <1>0 DEF Next
<1>. USE DEF Begun, Active
<1>2. CASE Launch(p)
  BY <1>2, MarkersApart DEF Launch, Goto, TypeOK, files, history
<1>3. CASE Crash(p)
  <2>1. \A q \in Pids \ {p} : stage[q] # "zombie" => stage'[q] = stage[q]
    BY <1>3, ExitLemma DEF Crash
  <2>2. cut' = cut \union LeftBy(p) /\ UNCHANGED <<state, lastRun>>
    BY <1>3 DEF Crash, files
  <2>3. lastRun = p => "lastRun" \in cut'
    BY <2>2 DEF LeftBy
  <2>4. state = p => "state" \in cut'
    BY <2>2 DEF LeftBy
  <2>. QED BY <2>1, <2>2, <2>3, <2>4, MarkersKept
<1>4. ASSUME Exit(p), UNCHANGED <<state, lastRun, cut>>, stage[p] \notin Begun \union Active
      PROVE  ActiveMarkersAreTrue'
  BY <1>4, ExitLemma, MarkersApart
<1>5. CASE GiveUp(p)
  BY <1>4, <1>5 DEF GiveUp, files, history
<1>6. CASE Refresh(p)
  <2>1. /\ stage'[p] = "openDone"
        /\ \A q \in Pids \ {p} : stage'[q] = stage[q]
    BY <1>6 DEF Refresh, Goto, TypeOK
  <2>2. UNCHANGED <<state, lastRun, cut>>
    BY <1>6 DEF Refresh, files, history
  <2>. QED BY <2>1, <2>2, MarkersKept
<1>7. CASE ReadPid(p) \/ ReadLock(p)
  BY <1>7, MarkersApart DEF ReadPid, ReadLock, Goto, TypeOK, files, history
<1>8. CASE Decide(p)
  BY <1>4, <1>8, MarkersApart DEF Decide, Goto, TypeOK, files, history
<1>9. CASE Spawn(p)
  <2>1. CASE Exit(p)
    BY <1>4, <1>9, <2>1 DEF Spawn, files, history
  <2>2. CASE ~Exit(p)
    BY <1>9, <2>2, MarkersApart DEF Spawn, TypeOK, files, history
  <2>. QED BY <2>1, <2>2
<1>10. CASE WritePid(p) \/ WriteLock(p) \/ Remove(p)
  BY <1>10, MarkersApart DEF WritePid, WriteLock, Remove, RemovePid, RemoveLock, Goto,
     TypeOK, history
<1>11. CASE OpenState(p)
  <2>1. state' \notin Pids /\ UNCHANGED lastRun
    BY <1>11, MlhdAssumption DEF OpenState
  <2>2. "lastRun" \in cut' <=> "lastRun" \in cut
    BY <1>11 DEF OpenState
  <2>3. \A q \in Pids : stage[q] \in Begun => stage'[q] \in Begun
    BY <1>11 DEF OpenState, Goto, TypeOK
  <2>. QED BY <2>1, <2>2, <2>3 DEF ActiveMarkersAreTrue
<1>12. CASE FillState(p)
  <2>1. "lastRun" \in cut' <=> "lastRun" \in cut
    BY <1>12 DEF FillState
  <2>2. CASE stage[p] # "fillActive"
    <3>1. state' \notin Pids /\ UNCHANGED lastRun /\ Exit(p)
      BY <1>12, <2>2, MlhdAssumption DEF FillState
    <3>2. \A q \in Pids : stage[q] \in Begun => stage'[q] = stage[q]
      BY <1>12, <2>2, <3>1, ExitLemma DEF FillState
    <3>. QED BY <2>1, <3>1, <3>2 DEF ActiveMarkersAreTrue
  <2>3. CASE stage[p] = "fillActive"
    <3>1. state' = p /\ UNCHANGED lastRun /\ Goto(p, "refresh")
      BY <1>12, <2>3 DEF FillState
    <3>2. stage'[p] = "refresh" /\ \A q \in Pids \ {p} : stage'[q] = stage[q]
      BY <3>1 DEF Goto, TypeOK
    <3>. QED BY <2>1, <3>1, <3>2 DEF ActiveMarkersAreTrue
  <2>. QED BY <2>2, <2>3
<1>13. CASE ReadState(p)
  BY <1>13, MarkersApart DEF ReadState, Goto, TypeOK, files, history
<1>14. CASE Guard(p)
  <2>1. CASE Exit(p)
    BY <1>4, <1>14, <2>1 DEF Guard, files, history
  <2>2. CASE ~Exit(p)
    BY <1>14, <2>2, MarkersApart DEF Guard, Goto, TypeOK, files, history
  <2>. QED BY <2>1, <2>2
<1>15. CASE OpenLastRun(p)
  <2>1. lastRun' \notin Pids /\ UNCHANGED state
    BY <1>15, MlhdAssumption DEF OpenLastRun
  <2>2. "state" \in cut' <=> "state" \in cut
    BY <1>15 DEF OpenLastRun
  <2>3. \A q \in Pids : stage[q] \in Active => stage'[q] \in Active
    BY <1>15 DEF OpenLastRun, Goto, TypeOK
  <2>. QED BY <2>1, <2>2, <2>3 DEF ActiveMarkersAreTrue
<1>16. CASE FillLastRun(p)
  <2>1. UNCHANGED state /\ ("state" \in cut' <=> "state" \in cut)
    BY <1>16 DEF FillLastRun
  <2>2. \A q \in Pids : stage[q] \in Active => stage'[q] \in Active
    BY <1>16 DEF FillLastRun, Goto, TypeOK
  <2>3. lastRun' \in Pids => lastRun' = p /\ stage'[p] = "openActive"
    BY <1>16, MlhdAssumption DEF FillLastRun, Goto, TypeOK
  <2>. QED BY <2>1, <2>2, <2>3 DEF ActiveMarkersAreTrue
<1>17. CASE LookForMarkers(p)
  BY <1>17, MarkersApart DEF LookForMarkers, Goto, TypeOK, files, history
<1>18. CASE LookAgain(p)
  BY <1>4, <1>18, MarkersApart DEF LookAgain, Goto, TypeOK, files, history
<1>19. CASE Tick(p)
  <2>1. CASE Exit(p)
    BY <1>4, <1>19, <2>1 DEF Tick, files, history
  <2>2. CASE ~Exit(p)
    BY <1>19, <2>2, MarkersApart DEF Tick, TypeOK, files, history
  <2>. QED BY <2>1, <2>2
<1>20. CASE Reap(p)
  BY <1>20, MarkersApart DEF Reap, TypeOK, files, history
<1>21. CASE Timeout(p)
  <2> DEFINE c == known[p]
  <2>1. stage[p] = "ticking" /\ c \in Pids
    BY <1>21 DEF Timeout, Family, Parent
  <2>2. \A q \in Pids \ {p, c} : stage'[q] = stage[q]
    BY <1>21 DEF Timeout, TypeOK
  <2>3. cut' = cut \union LeftBy(c) /\ UNCHANGED <<state, lastRun>>
    BY <1>21 DEF Timeout, files
  <2>4. lastRun = c => "lastRun" \in cut'
    BY <2>3 DEF LeftBy
  <2>5. state = c => "state" \in cut'
    BY <2>3 DEF LeftBy
  <2>. QED BY <2>1, <2>2, <2>3, <2>4, <2>5, MarkersKept
<1>. QED BY <1>1, <1>2, <1>3, <1>5, <1>6, <1>7, <1>8, <1>9, <1>10, <1>11, <1>12,
            <1>13, <1>14, <1>15, <1>16, <1>17, <1>18, <1>19, <1>20, <1>21
         DEF Step, Start, WriteState, RunOnce, Work

-----------------------------------------------------------------------------
(* The theorems.                                                           *)

LEMMA InductiveStep == IInv /\ [Next]_vars => IInv'
BY TypeStep, FamilyStep, MarkersStep DEF IInv

\* The inductive invariant, for any pids, commands and kills.
THEOREM Invariance == Spec => []IInv
<1>1. Init => IInv
  BY InitEstablishes
<1>2. IInv /\ [Next]_vars => IInv'
  BY InductiveStep
<1>. QED BY <1>1, <1>2, PTL DEF Spec

\* Every value is of its type (daemon.py 70-105 and 888-1042).
THEOREM TypeCorrect == Spec => []TypeOK
<1>1. IInv => TypeOK
  BY DEF IInv
<1>. QED BY <1>1, Invariance, PTL

\* A marker of a run-once at work is true, or was left by a process that was
\* killed (daemon.py 1013-1041).
THEOREM MarkersAreTrue == Spec => []ActiveMarkersAreTrue
<1>1. IInv => ActiveMarkersAreTrue
  BY DEF IInv
<1>. QED BY <1>1, Invariance, PTL

\* A worker's timeout kills the run-once that the worker started and no other
\* process, however pids are used again (daemon.py 97-102).
TimeoutIsOwn ==
  \A w \in Pids : Timeout(w) =>
    /\ stage[known[w]] \in RunStages
    /\ \A q \in Pids \ {w} : Parent(q) => known[q] # known[w]

THEOREM TimeoutKillsItsOwn == Spec => [][TimeoutIsOwn]_vars
<1>1. IInv /\ [Next]_vars => [TimeoutIsOwn]_vars
  <2>. SUFFICES ASSUME IInv, NEW w \in Pids, Timeout(w)
                PROVE  /\ stage[known[w]] \in RunStages
                       /\ \A q \in Pids \ {w} : Parent(q) => known[q] # known[w]
    BY DEF TimeoutIsOwn
  <2>1. Parent(w) /\ stage[known[w]] # "zombie" /\ stage[w] = "ticking"
    BY DEF Timeout, Parent
  <2>. QED BY <2>1 DEF IInv, Family
<1>. QED BY <1>1, Invariance, PTL DEF Spec
=============================================================================
