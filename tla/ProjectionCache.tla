--------------------------- MODULE ProjectionCache ---------------------------
(***************************************************************************)
(* The generated cache of projection_artifacts.py and projection_index.py: *)
(* JSON artifacts and an SQLite index, both computed from the source files *)
(* of the repository.  A mutating command changes sources and then marks   *)
(* both targets dirty; a refresher compares a target with a projection of  *)
(* the sources and, if anything is wrong with it, builds it again between  *)
(* writing and removing an operation marker.  Nothing orders writers and   *)
(* refreshers, or two refreshers, and any of them may die at any point.    *)
(*                                                                         *)
(* A projection, an artifact and the index are abstracted to the versions  *)
(* of the sources they were computed from.  Quiet periods are abstracted   *)
(* to whether a dirty marker is still recent.                              *)
(***************************************************************************)
EXTENDS Naturals

CONSTANTS
  Sources,     \* the source files
  Cold,        \* those read at every projection, and not with the inventory
  Versions,    \* what a source may hold: its hash
  N,           \* the number of artifact files
  Procs,       \* processes that refresh, build or delete
  Worker,      \* the one of them that ticks for ever
  Writers,     \* processes that change sources
  Commands,    \* what is run: kind, targets, and whether with a quiet period
  Absent,      \* no such file
  None,        \* no dirty marker
  MaxChanges,  \* bound on the changes of the sources
  MaxCommands, \* bound on the commands of processes other than the worker
  MaxTrouble,  \* bound on the file system calls that fail
  MaxKilled    \* bound on the refreshers that are killed

Targets == {"artifacts", "index"}
Kinds == {"tick", "warm", "build", "delete"}
Content == [Sources -> Versions]
Inventory == [Sources \ Cold -> Versions]
Command == [kind : Kinds, targets : SUBSET Targets, quiet : BOOLEAN]
Marker == [paths : SUBSET Sources, recent : BOOLEAN]

ASSUME CacheAssumption ==
  /\ Cold \subseteq Sources /\ Versions # {}
  /\ N \in Nat \ {0}
  /\ Worker \in Procs
  /\ Commands \subseteq Command
  /\ Absent \notin Content /\ None \notin Marker
  /\ MaxChanges \in Nat /\ MaxCommands \in Nat
  /\ MaxTrouble \in Nat /\ MaxKilled \in Nat

VARIABLES
  sources,   \* the source files
  dir,       \* whether the generated directory exists
  artifacts, \* artifacts[k]: the sources the k-th artifact was computed from
  index,     \* the same of search-index.sqlite3
  dirty,     \* artifacts.dirty.json and index.dirty.json
  marked,    \* whether cache-operation.json exists
  litter,    \* whether temporary files of a dead process are left over
  pc,        \* what each refresher does next
  job,       \* what each refresher has in hand
  writing,   \* what each writer does next
  touched,   \* the sources each writer has changed
  abandoned, \* history: nobody is going to remove the operation marker
  changes, commands, trouble, killed \* counters, for the bounds

cache == <<dir, artifacts, index, dirty, marked, litter, abandoned>>
writers == <<sources, writing, touched, changes>>
counters == <<commands, trouble, killed>>
vars == <<writers, cache, pc, job, counters>>

\* Which version a source starts with makes no difference.
Original == [s \in Sources |-> CHOOSE v \in Versions : TRUE]

Live(c) == [s \in Sources \ Cold |-> c[s]]

Fresh(command, inventory) ==
  [cmd |-> command, inventory |-> inventory, view |-> Original,
   draft |-> Original, old |-> [k \in 1..N |-> Absent], at |-> 1,
   reason |-> "none", changed |-> {}, warned |-> FALSE]

NoJob == Fresh([kind |-> "build", targets |-> {}, quiet |-> FALSE], Live(Original))

Init ==
  /\ sources = Original
  /\ dir = FALSE
  /\ artifacts = [k \in 1..N |-> Absent] /\ index = Absent
  /\ dirty = [t \in Targets |-> None]
  /\ marked = FALSE /\ litter = FALSE /\ abandoned = FALSE
  /\ pc = [p \in Procs |-> "idle"] /\ job = [p \in Procs |-> NoJob]
  /\ writing = [w \in Writers |-> "idle"]
  /\ touched = [w \in Writers |-> {}]
  /\ changes = 0 /\ commands = 0 /\ trouble = 0 /\ killed = 0

-----------------------------------------------------------------------------
(* Writers: mutating commands.                                             *)

Change(w) ==
  /\ writing[w] = "idle" /\ changes < MaxChanges
  /\ \E c \in Content \ {sources} :
       /\ sources' = c
       /\ touched' = [touched EXCEPT ![w] = {s \in Sources : c[s] # sources[s]}]
  /\ writing' = [writing EXCEPT ![w] = "artifacts"]
  /\ changes' = changes + 1
  /\ UNCHANGED <<cache, pc, job, counters>>

Trouble ==
  /\ trouble < MaxTrouble /\ trouble' = trouble + 1
  /\ UNCHANGED <<commands, killed>>

Rest(w) ==
  /\ writing' = [writing EXCEPT ![w] = "idle"]
  /\ touched' = [touched EXCEPT ![w] = {}]

\* A new marker replaces the old one, and the paths the old one named.
MarkDirty(w) ==
  /\ writing[w] \in Targets
  /\ \/ /\ dirty' = [dirty EXCEPT ![writing[w]] =
                       IF dir THEN [paths |-> touched[w], recent |-> TRUE] ELSE @]
        /\ UNCHANGED counters
     \/ Trouble /\ UNCHANGED dirty
  /\ IF writing[w] = "artifacts" /\ dir
     THEN writing' = [writing EXCEPT ![w] = "index"] /\ UNCHANGED touched
     ELSE Rest(w)
  /\ UNCHANGED <<sources, changes, pc, job>>
  /\ UNCHANGED <<dir, artifacts, index, marked, litter, abandoned>>

\* The writer reports an error, or is killed, before it has marked anything.
ForgetToMark(w) ==
  /\ writing[w] \in Targets
  /\ Rest(w)
  /\ UNCHANGED <<sources, changes, cache, pc, job, counters>>

\* The dirty marker of t has become older than the quiet period.
Quieten(t) ==
  /\ dirty[t] # None /\ dirty[t].recent
  /\ dirty' = [dirty EXCEPT ![t].recent = FALSE]
  /\ UNCHANGED <<writers, pc, job, counters>>
  /\ UNCHANGED <<dir, artifacts, index, marked, litter, abandoned>>

-----------------------------------------------------------------------------
(* Refreshers: the way through a command.                                  *)

Inspects(c) == c.kind \in {"tick", "warm"}
ArtifactsStart(c) == IF Inspects(c) THEN "lookA" ELSE "beginA"
IndexStart(c) == IF Inspects(c) THEN "lookI" ELSE "beginI"
AfterArtifacts(c) == IF "index" \in c.targets THEN IndexStart(c) ELSE "idle"
Start(c) == IF "artifacts" \in c.targets THEN ArtifactsStart(c) ELSE AfterArtifacts(c)

\* p goes on at stage s with j in hand.
GoOn(p, s, j) ==
  /\ pc' = [pc EXCEPT ![p] = s]
  /\ job' = [job EXCEPT ![p] = IF s = "idle" THEN NoJob ELSE j]

Goto(p, s) == GoOn(p, s, job[p])

\* p goes on at stage s, and only the inventory and the warnings matter there.
Restart(p, s) ==
  GoOn(p, s, [Fresh(job[p].cmd, job[p].inventory) EXCEPT !.warned = job[p].warned])

LeaveArtifacts(p) ==
  GoOn(p, AfterArtifacts(job[p].cmd), Fresh(job[p].cmd, job[p].inventory))

\* The inventory holds the texts that are not cold, read once for the command.
Begin(p, c) ==
  /\ pc[p] = "idle"
  /\ GoOn(p, IF c.kind = "tick" THEN "pulse" ELSE Start(c), Fresh(c, Live(sources)))
  /\ UNCHANGED <<writers, cache, trouble, killed>>

Tick ==
  /\ \E c \in Commands : c.kind = "tick" /\ Begin(Worker, c)
  /\ UNCHANGED commands

Launch(p) ==
  /\ p # Worker /\ commands < MaxCommands
  /\ \E c \in Commands : Begin(p, c)
  /\ commands' = commands + 1

\* mlhd run-once does nothing at all while there is an operation marker.
Pulse(p) ==
  /\ pc[p] = "pulse"
  /\ Goto(p, IF marked THEN "idle" ELSE Start(job[p].cmd))
  /\ UNCHANGED <<writers, cache, counters>>

Projection(p) ==
  [s \in Sources |-> IF s \in Cold THEN sources[s] ELSE job[p].inventory[s]]

TempStages == {"copyA", "installA", "undoA", "clearA", "publishInc", "publishI"}
Operating ==
  {"projectA", "copyA", "installA", "undoA", "clearA", "endA", "unlinkA",
   "copyInc", "publishInc", "clearInc", "endInc", "fallInc",
   "draftI", "publishI", "clearI", "endI", "unlinkI"}
Stages ==
  {"idle", "pulse", "lookA", "readA", "beginA", "lookI", "readI", "beginInc",
   "beginI", "lookAgain"} \union Operating

Strays(p) == litter \/ \E q \in Procs \ {p} : pc[q] \in TempStages

\* Of what an inspection finds before it reads the target: the first.
Finding(p, t) ==
  IF ~dir THEN "missing"
  ELSE IF marked THEN "operation"
  ELSE IF t = "artifacts" /\ Strays(p) THEN "unexpected"
  ELSE IF dirty[t] # None THEN "dirty"
  ELSE "none"

Look(p) ==
  /\ \/ pc[p] = "lookA" /\ GoOn(p, "readA", [job[p] EXCEPT
            !.view = Projection(p), !.reason = Finding(p, "artifacts")])
     \/ pc[p] = "lookI" /\ GoOn(p, "readI", [job[p] EXCEPT
            !.view = Projection(p), !.reason = Finding(p, "index")])
  /\ UNCHANGED <<writers, cache, counters>>

\* The marker is read once more for its age.
Deferred(p, t) ==
  /\ job[p].reason = "dirty" /\ job[p].cmd.quiet
  /\ dirty[t] # None /\ dirty[t].recent

-----------------------------------------------------------------------------
(* The operation marker.                                                   *)

AfterBegin(p) ==
  LET deleting == job[p].cmd.kind = "delete" IN
  CASE pc[p] = "beginA"   -> IF deleting THEN "unlinkA" ELSE "projectA"
    [] pc[p] = "beginI"   -> IF deleting THEN "unlinkI" ELSE "draftI"
    [] OTHER             -> "copyInc"

\* It does not matter whose marker is there already.  Only a build makes the
\* directory: the deletion of an index writes its marker without, in vain.
BeginOperation(p) ==
  /\ pc[p] \in {"beginA", "beginI", "beginInc"}
  /\ pc[p] = "beginA" /\ job[p].cmd.kind = "delete" => dir
  /\ pc[p] = "beginInc" => index # Absent
  /\ dir' = (dir \/ job[p].cmd.kind # "delete")
  /\ \/ /\ dir' /\ marked' = TRUE
        /\ Goto(p, AfterBegin(p)) /\ UNCHANGED counters
     \/ /\ (dir' /\ Trouble) \/ (~dir' /\ UNCHANGED counters)
        /\ UNCHANGED marked
        /\ GoOn(p, AfterBegin(p), [job[p] EXCEPT !.warned = TRUE])
  /\ UNCHANGED <<writers, artifacts, index, dirty, litter, abandoned>>

\* The artifacts look for their directory first.
NothingToDelete(p) ==
  /\ pc[p] = "beginA" /\ job[p].cmd.kind = "delete" /\ ~dir
  /\ LeaveArtifacts(p)
  /\ UNCHANGED <<writers, cache, counters>>

\* The index was deleted after it was found stale: no incremental refresh.
SkipInc(p) ==
  /\ pc[p] = "beginInc" /\ index = Absent
  /\ GoOn(p, "beginI", [job[p] EXCEPT !.warned = TRUE])
  /\ UNCHANGED <<writers, cache, counters>>

\* Fault: a build that fails returns without the finally clause.
EndOperationIfBuilt(p) ==
  /\ \/ pc[p] = "endA" /\ LeaveArtifacts(p)
     \/ pc[p] = "fallInc" /\ Restart(p, "beginI")
     \/ pc[p] = "endInc" /\ Goto(p, "lookAgain")
     \/ pc[p] = "endI" /\ Goto(p, "idle")
  /\ marked' = (marked /\ (pc[p] = "fallInc" \/ job[p].warned)) /\ UNCHANGED counters
  /\ UNCHANGED <<writers, dir, artifacts, index, dirty, litter, abandoned>>

\* The finally clauses; a marker that cannot be unlinked stays.
EndOperation(p) ==
  /\ \/ pc[p] = "endA" /\ LeaveArtifacts(p)
     \/ pc[p] = "fallInc" /\ Restart(p, "beginI")
     \/ pc[p] = "endInc" /\ Goto(p, IF job[p].warned THEN "beginI" ELSE "lookAgain")
     \/ /\ pc[p] = "endI"
        /\ Goto(p, IF Inspects(job[p].cmd) /\ ~job[p].warned THEN "lookAgain" ELSE "idle")
  /\ \/ marked' = FALSE /\ abandoned' = FALSE /\ UNCHANGED counters
     \/ Trouble /\ marked /\ abandoned' = TRUE /\ UNCHANGED marked
  /\ UNCHANGED <<writers, dir, artifacts, index, dirty, litter>>

-----------------------------------------------------------------------------
(* Artifacts: one file transaction over all of them.                       *)

\* Fault: only the manifest is compared.
ReadAManifest(p) ==
  /\ pc[p] = "readA"
  /\ IF (job[p].reason = "none" /\ artifacts[1] = job[p].view)
        \/ Deferred(p, "artifacts")
     THEN LeaveArtifacts(p) ELSE Restart(p, "beginA")
  /\ UNCHANGED <<writers, cache, counters>>

ReadA(p) ==
  /\ pc[p] = "readA"
  /\ LET current == /\ job[p].reason = "none"
                    /\ \A k \in 1..N : artifacts[k] = job[p].view
     IN  IF current \/ Deferred(p, "artifacts")
         THEN LeaveArtifacts(p) ELSE Restart(p, "beginA")
  /\ UNCHANGED <<writers, cache, counters>>

\* The payloads are rendered, and written to temporary files.
ProjectA(p) ==
  /\ pc[p] = "projectA"
  /\ GoOn(p, "copyA", [job[p] EXCEPT !.view = Projection(p), !.at = 1])
  /\ UNCHANGED <<writers, cache, counters>>

CopyA(p) ==
  /\ pc[p] = "copyA"
  /\ GoOn(p, "installA", [job[p] EXCEPT !.old[job[p].at] = artifacts[job[p].at]])
  /\ UNCHANGED <<writers, cache, counters>>

InstallA(p) ==
  /\ pc[p] = "installA"
  /\ artifacts' = [artifacts EXCEPT ![job[p].at] = job[p].view]
  /\ IF job[p].at = N THEN Goto(p, "clearA")
     ELSE GoOn(p, "copyA", [job[p] EXCEPT !.at = @ + 1])
  /\ UNCHANGED <<writers, dir, index, dirty, marked, litter, abandoned, counters>>

\* Fault: the rollback does not stop at the first artifact.
UndoFromPastFirst(p, k) == GoOn(p, "undoA", [job[p] EXCEPT !.at = k])

UndoFrom(p, k) ==
  GoOn(p, IF k = 0 THEN "endA" ELSE "undoA", [job[p] EXCEPT !.at = IF k = 0 THEN 1 ELSE k])

\* A file system call of the transaction fails.
FailA(p) ==
  /\ \/ pc[p] = "projectA" /\ UndoFrom(p, 0)
     \/ pc[p] = "copyA" /\ UndoFrom(p, job[p].at - 1)
     \/ pc[p] = "installA" /\ UndoFrom(p, job[p].at)
  /\ Trouble
  /\ UNCHANGED <<writers, cache>>

\* One step of the rollback; if it fails, the backup stays where it is.
UndoA(p) ==
  /\ pc[p] = "undoA"
  /\ UndoFrom(p, job[p].at - 1)
  /\ \/ /\ artifacts' = [artifacts EXCEPT ![job[p].at] = job[p].old[job[p].at]]
        /\ UNCHANGED <<litter, counters>>
     \/ /\ Trouble /\ litter' = TRUE
        /\ \/ UNCHANGED artifacts
           \/ artifacts' = [artifacts EXCEPT ![job[p].at] = Absent]
  /\ UNCHANGED <<writers, dir, index, dirty, marked, abandoned>>

\* The dirty marker of t is unlinked, or cannot be.
Unmark(t) ==
  \/ dirty' = [dirty EXCEPT ![t] = None] /\ UNCHANGED counters
  \/ Trouble /\ UNCHANGED dirty

\* The transaction sweeps its backups first, and may leave one.
ClearA(p) ==
  /\ pc[p] = "clearA" /\ Restart(p, "endA")
  /\ \/ Unmark("artifacts") /\ UNCHANGED litter
     \/ Trouble /\ litter' = TRUE /\ dirty' = [dirty EXCEPT !["artifacts"] = None]
  /\ UNCHANGED <<writers, dir, artifacts, index, marked, abandoned>>

\* An error of unlink ends the command.
UnlinkA(p) ==
  /\ pc[p] = "unlinkA"
  /\ \/ /\ job[p].at <= N
        /\ artifacts' = [artifacts EXCEPT ![job[p].at] = Absent]
        /\ GoOn(p, "unlinkA", [job[p] EXCEPT !.at = @ + 1])
        /\ UNCHANGED <<dirty, counters>>
     \/ /\ job[p].at = N + 1 /\ Goto(p, "endA")
        /\ dirty' = [dirty EXCEPT !["artifacts"] = None]
        /\ UNCHANGED <<artifacts, counters>>
     \/ /\ GoOn(p, "endA", [job[p] EXCEPT !.cmd.targets = {}])
        /\ Trouble /\ UNCHANGED <<artifacts, dirty>>
  /\ UNCHANGED <<writers, dir, index, marked, litter, abandoned>>

-----------------------------------------------------------------------------
(* Index: a new database that replaces the old one in a single step.       *)

\* Fault: an index that no marker speaks against is current.
ReadITrusting(p) ==
  /\ pc[p] = "readI"
  /\ IF (job[p].reason = "none" /\ index # Absent) \/ Deferred(p, "index")
     THEN Goto(p, "idle") ELSE Restart(p, "beginI")
  /\ UNCHANGED <<writers, cache, counters>>

\* What the inspection found first decides whether single rows are replaced.
ReadI(p) ==
  /\ pc[p] = "readI"
  /\ LET j == job[p]
         paths == IF dirty["index"] = None THEN {} ELSE dirty["index"].paths
         reason == IF j.reason # "none" THEN j.reason
                   ELSE IF index = Absent THEN "missing" ELSE "stale"
         piecewise == /\ paths # {} /\ index # Absent
                      /\ reason \in {"dirty", "stale"}
         current == j.reason = "none" /\ index = j.view
     IN  IF current \/ Deferred(p, "index")
         THEN Goto(p, "idle")
         ELSE IF piecewise THEN GoOn(p, "beginInc", [j EXCEPT !.changed = paths])
         ELSE Restart(p, "beginI")
  /\ UNCHANGED <<writers, cache, counters>>

\* The rows of the changed paths, replaced in a copy of the index.
Patched(p) == [s \in Sources |-> IF s \in job[p].changed THEN job[p].view[s] ELSE index[s]]

\* Fault: the hashes are not compared.
CopyIncUnchecked(p) ==
  /\ pc[p] = "copyInc"
  /\ \/ /\ index # Absent
        /\ GoOn(p, "publishInc", [job[p] EXCEPT !.draft = Patched(p)])
        /\ UNCHANGED counters
     \/ index = Absent /\ Goto(p, "fallInc") /\ UNCHANGED counters
     \/ Trouble /\ Goto(p, "fallInc")
  /\ UNCHANGED <<writers, cache>>

Reconciled(p) == index # Absent /\ Patched(p) = job[p].view

\* The copy is used only if its hashes are those of the whole projection.
CopyInc(p) ==
  /\ pc[p] = "copyInc"
  /\ \/ /\ Reconciled(p)
        /\ GoOn(p, "publishInc", [job[p] EXCEPT !.draft = Patched(p)])
        /\ UNCHANGED counters
     \/ ~Reconciled(p) /\ Goto(p, "fallInc") /\ UNCHANGED counters
     \/ Trouble /\ Goto(p, "fallInc")
  /\ UNCHANGED <<writers, cache>>

DraftI(p) ==
  /\ pc[p] = "draftI"
  /\ \/ /\ GoOn(p, "publishI", [job[p] EXCEPT !.view = Projection(p), !.draft = Projection(p)])
        /\ UNCHANGED counters
     \/ Trouble /\ GoOn(p, "endI", [job[p] EXCEPT !.warned = TRUE])
  /\ UNCHANGED <<writers, cache>>

\* If the index cannot be replaced, the old one stays.
PublishI(p) ==
  /\ pc[p] \in {"publishI", "publishInc"}
  /\ LET whole == pc[p] = "publishI"
     IN  \/ /\ index' = job[p].draft /\ Goto(p, IF whole THEN "clearI" ELSE "clearInc")
            /\ UNCHANGED counters
         \/ /\ Trouble /\ UNCHANGED index
            /\ IF whole THEN GoOn(p, "endI", [job[p] EXCEPT !.warned = TRUE])
               ELSE Goto(p, "fallInc")
  /\ UNCHANGED <<writers, dir, artifacts, dirty, marked, litter, abandoned>>

ClearI(p) ==
  /\ \/ pc[p] = "clearI" /\ Restart(p, "endI")
     \/ pc[p] = "clearInc" /\ Restart(p, "endInc")
  /\ Unmark("index")
  /\ UNCHANGED <<writers, dir, artifacts, index, marked, litter, abandoned>>

\* Fault: the build that follows a refresh is a refresh itself.
LookAgainForever(p) ==
  /\ pc[p] = "lookAgain"
  /\ LET current == Finding(p, "index") = "none" /\ index = Projection(p)
     IN  Goto(p, IF current THEN "idle" ELSE "beginI")
  /\ UNCHANGED <<writers, cache, counters>>

\* A refresh is inspected, and followed by one plain build if that finds anything.
LookAgain(p) ==
  /\ pc[p] = "lookAgain"
  /\ LET current == Finding(p, "index") = "none" /\ index = Projection(p)
     IN  IF current THEN Goto(p, "idle")
         ELSE GoOn(p, "beginI", [job[p] EXCEPT !.cmd.kind = "build"])
  /\ UNCHANGED <<writers, cache, counters>>

\* The database goes first, its dirty marker last.
UnlinkI(p) ==
  /\ pc[p] = "unlinkI" /\ Goto(p, "endI")
  /\ \/ /\ index' = Absent /\ dirty' = [dirty EXCEPT !["index"] = None]
        /\ UNCHANGED counters
     \/ Trouble /\ index' \in {index, Absent} /\ UNCHANGED dirty
  /\ UNCHANGED <<writers, dir, artifacts, marked, litter, abandoned>>

-----------------------------------------------------------------------------

\* Killed: no finally clause runs.
Kill(p) ==
  /\ pc[p] # "idle" /\ killed < MaxKilled
  /\ killed' = killed + 1
  /\ Goto(p, "idle")
  /\ litter' = (litter \/ pc[p] \in TempStages)
  /\ abandoned' = (abandoned \/ (marked /\ pc[p] \in Operating))
  /\ UNCHANGED <<writers, dir, artifacts, index, dirty, marked, commands, trouble>>

Step(p) ==
  \/ Pulse(p) \/ Look(p) \/ ReadA(p) \/ ReadI(p)
  \/ BeginOperation(p) \/ NothingToDelete(p) \/ SkipInc(p) \/ EndOperation(p)
  \/ ProjectA(p) \/ CopyA(p) \/ InstallA(p) \/ UndoA(p) \/ ClearA(p) \/ UnlinkA(p)
  \/ CopyInc(p) \/ DraftI(p) \/ PublishI(p) \/ ClearI(p) \/ LookAgain(p) \/ UnlinkI(p)

Next ==
  \/ \E w \in Writers : Change(w) \/ MarkDirty(w) \/ ForgetToMark(w)
  \/ \E t \in Targets : Quieten(t)
  \/ Tick
  \/ \E p \in Procs : Launch(p) \/ Step(p) \/ FailA(p) \/ Kill(p)

\* A command runs on, the worker ticks for ever, and time passes.
Fairness ==
  /\ \A p \in Procs : WF_vars(Step(p))
  /\ WF_vars(Tick)
  /\ \A t \in Targets : WF_vars(Quieten(t))

Spec == Init /\ [][Next]_vars /\ Fairness

-----------------------------------------------------------------------------
(* Properties.                                                             *)

Job ==
  [cmd : Command, inventory : Inventory, view : Content, draft : Content,
   old : [1..N -> Content \union {Absent}], at : 1..(N + 1),
   reason : {"none", "missing", "operation", "unexpected", "dirty"},
   changed : SUBSET Sources, warned : BOOLEAN]

\* The type invariant.
TypeOK ==
  /\ sources \in Content
  /\ dir \in BOOLEAN /\ marked \in BOOLEAN
  /\ litter \in BOOLEAN /\ abandoned \in BOOLEAN
  /\ artifacts \in [1..N -> Content \union {Absent}]
  /\ index \in Content \union {Absent}
  /\ dirty \in [Targets -> Marker \union {None}]
  /\ pc \in [Procs -> Stages] /\ job \in [Procs -> Job]
  /\ writing \in [Writers -> Targets \union {"idle"}]
  /\ touched \in [Writers -> SUBSET Sources]
  /\ changes \in Nat /\ commands \in Nat /\ trouble \in Nat /\ killed \in Nat

\* Every way through a build, a fallback, a rollback or a delete removes the
\* operation marker in its finally clause: a marker with nobody at work is one
\* whose owner was killed, or could not unlink it.
MarkerIsOwned == marked => abandoned \/ \E p \in Procs : pc[p] \in Operating

\* What is about to be published is the whole projection it was checked against.
DraftIsProjection ==
  \A p \in Procs : pc[p] \in {"publishI", "publishInc"} => job[p].draft = job[p].view

\* A step of the transaction and of a rollback is at one of the artifacts.
InRange ==
  \A p \in Procs : pc[p] \in {"copyA", "installA", "undoA"} => job[p].at \in 1..N

IInv == TypeOK /\ MarkerIsOwned /\ DraftIsProjection /\ InRange

\* An index is published only if it is one projection of its refresher, although
\* an incremental refresh takes most rows from the old index and trusts a dirty
\* marker that may have replaced another one, with other paths.
IndexIsOneProjection ==
  [][index' # index =>
       index' = Absent \/ \E p \in Procs : index' = job[p].view]_vars

\* The most steps a process at stage s with job j may still take before it is
\* idle.  After its build a refresh looks again, and may build once more; the
\* loops are those over the artifacts.
StepsLeft(s, j) ==
  LET again == IF Inspects(j.cmd) THEN 6 ELSE 0
  IN  CASE s = "idle" -> 0
        [] s = "endI" -> again + 1
        [] s \in {"clearI", "unlinkI"} -> again + 2
        [] s = "publishI" -> again + 3
        [] s = "draftI" -> again + 4
        [] s = "beginI" -> again + 5
        [] s = "lookAgain" -> 6
        [] s \in {"endInc", "fallInc"} -> 12
        [] s = "clearInc" -> 13
        [] s = "publishInc" -> 14
        [] s = "copyInc" -> 15
        [] s = "beginInc" -> 16
        [] s = "readI" -> 17
        [] s = "lookI" -> 18
        [] s = "endA" -> 19
        [] s = "clearA" -> 20
        [] s = "undoA" -> 19 + j.at
        [] s = "unlinkA" -> 21 + N - j.at
        [] s = "installA" -> 21 + 3 * N - 2 * j.at
        [] s = "copyA" -> 22 + 3 * N - 2 * j.at
        [] s = "projectA" -> 21 + 3 * N
        [] s = "beginA" -> 22 + 3 * N
        [] s = "readA" -> 23 + 3 * N
        [] s = "lookA" -> 24 + 3 * N
        [] OTHER -> 25 + 3 * N

\* A command that others keep overtaking does not chase them: whatever writers
\* change and refreshers build or delete meanwhile, whatever fails or is killed,
\* it comes nearer to its end with each of its steps and is set back by nobody's.
CommandsDescend ==
  [][\A p \in Procs : pc[p] # "idle" =>
       \/ UNCHANGED <<pc[p], job[p]>>
       \/ StepsLeft(pc'[p], job'[p]) < StepsLeft(pc[p], job[p])]_vars

UpToDate ==
  /\ \A k \in 1..N : artifacts[k] = sources
  /\ index = sources
  /\ \A t \in Targets : dirty[t] = None

\* Whatever writers and refreshers did to each other - marks that were never
\* written, marks cleared by a refresh that had read the sources before them,
\* artifacts of two projections - the worker's ticks repair it, and it stays
\* repaired, unless an operation marker is left behind for good.
Settles == <>[](~abandoned) => <>[]UpToDate

\* The recovery that the cache's posture names, mlhd run-once, repairs it even
\* after a refresher was killed (projection_artifacts.py:51, 564, 629-635).
SelfHeals == <>[]UpToDate
=============================================================================
