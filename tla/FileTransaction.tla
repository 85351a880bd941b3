--------------------------- MODULE FileTransaction ---------------------------
(***************************************************************************)
(* One call of apply_file_transaction (atomic_files.py), the function      *)
(* every mutating route of the program publishes its files with.  A        *)
(* behaviour starts in an arbitrary file system (whatever earlier calls,   *)
(* failed or interrupted, have left there) and takes one step per file     *)
(* system call.  Every call may fail, the process may die between any two  *)
(* calls, and writing a file is two steps: it is first truncated (Torn)    *)
(* and then filled.                                                        *)
(***************************************************************************)
EXTENDS Naturals, Sequences

CONSTANTS
  Paths,     \* the files a call may name
  Dirs,      \* their directories
  DirOf,     \* the directory of each path
  Texts,     \* what a file may hold
  Absent,    \* the content of a file that does not exist
  Torn,      \* the content of a file whose writer stopped half-way
  Portable,  \* the dot-free name a sidecar path is given before use
  Rooted,    \* the paths that stay under the transaction root
  Plans,     \* the sequences of operations callers pass
  Found      \* the file systems a call may find

Contents == Texts \union {Absent, Torn}

Operations ==
  [kind : {"write", "delete"}, target : Paths, tmp : Paths, backup : Paths,
   text : Texts]

ASSUME ConstantsAssumption ==
  /\ DirOf \in [Paths -> Dirs]
  /\ Portable \in [Paths -> Paths]
  /\ Rooted \subseteq Paths
  /\ Absent # Torn /\ Absent \notin Texts /\ Torn \notin Texts
  /\ Plans \subseteq Seq(Operations) \ {<<>>}
  /\ Found \subseteq [Paths -> Contents]

VARIABLES
  fs,           \* the content of every path
  dirs,         \* the directories that exist
  before,       \* history: fs when the call was made
  ops,          \* the planned operations, sidecar paths made portable
  pc,           \* where the call is
  k,            \* the operation its current loop is at
  rolling,      \* TRUE in the except clause: the loop runs backwards
  applied,      \* the operations in the list applied ...
  existed,      \* ... and those of them with had_original
  writtenTmps,  \* the list written_tmps
  createdDirs,  \* the list created_dirs
  buffer,       \* the bytes _copy_path has read
  report        \* rollback or cleanup errors to be reported

shared == <<fs, dirs>>
locals == <<ops, pc, k, rolling, applied, existed, writtenTmps, createdDirs,
            buffer, report>>
vars == <<shared, before, locals>>

Indices == DOMAIN ops
Writes == {i \in Indices : ops[i].kind = "write"}
Targets == {ops[i].target : i \in Indices}
Backups == {ops[i].backup : i \in Indices}
Tmps == {ops[i].tmp : i \in Writes}
op == ops[k]

\* What the target of operation i holds once the operation is carried out.
After(i) == IF i \in Writes THEN ops[i].text ELSE Absent

Exists(x) == fs[x] # Absent
Put(x, content) == fs' = [fs EXCEPT ![x] = content]

PortableOperation(o) ==
  [o EXCEPT !.tmp = Portable[@], !.backup = Portable[@]]

Ended == {"refused", "committed", "failed", "crashed", "crashedAfterCommit"}

Stages == Ended \union
  {"validate", "prepare", "openTmp", "fillTmp", "look", "openBackup",
   "fillBackup", "move", "openCopy", "fillCopy", "unlinkSource", "undoCopy",
   "undo", "sweepTmps", "sweepDirs", "sweepBackups"}

Init ==
  /\ fs \in Found
  /\ dirs = {DirOf[x] : x \in {y \in Paths : Exists(y)}}
  /\ before = fs
  /\ ops \in {[i \in DOMAIN plan |-> PortableOperation(plan[i])] : plan \in Plans}
  /\ pc = "validate" /\ k = 1 /\ rolling = FALSE
  /\ applied = {} /\ existed = {}
  /\ writtenTmps = {} /\ createdDirs = {}
  /\ buffer = Absent /\ report = FALSE

-----------------------------------------------------------------------------
(* Validation: no path serves twice, no sidecar exists, all stay in root.  *)

DistinctPaths ==
  /\ \A i, j \in Indices : i # j => /\ ops[i].target # ops[j].target
                                    /\ ops[i].backup # ops[j].backup
  /\ \A i, j \in Writes : i # j => ops[i].tmp # ops[j].tmp
  /\ Backups \intersect Targets = {}
  /\ Tmps \intersect (Targets \union Backups) = {}

UnderRoot == Targets \union Backups \union Tmps \subseteq Rooted

\* Fault: an existing sidecar is not noticed.
ValidPlanWithoutSidecarCheck == DistinctPaths /\ UnderRoot

ValidPlan ==
  /\ DistinctPaths
  /\ \A x \in Backups \union Tmps : ~Exists(x)
  /\ UnderRoot

Validate ==
  /\ pc = "validate"
  /\ pc' = IF ValidPlan THEN "prepare" ELSE "refused"
  /\ UNCHANGED <<shared, before, ops, k, rolling, applied, existed,
                 writtenTmps, createdDirs, buffer, report>>

-----------------------------------------------------------------------------
(* How the loops advance, and what an OSError does in each of them.        *)

NextPrepare ==
  IF k < Len(ops) THEN k' = k + 1 /\ pc' = "prepare"
                  ELSE k' = 1 /\ pc' = "look"

\* Faults: the install loop runs past its last operation, or stops before it.
NextInstallRunsOn ==
  k' = k + 1 /\ pc' = IF k < Len(ops) THEN "look" ELSE "sweepBackups"
NextInstallStopsEarly ==
  IF k + 1 < Len(ops) THEN k' = k + 1 /\ pc' = "look"
                      ELSE k' = k /\ pc' = "sweepBackups"

NextInstall ==
  IF k < Len(ops) THEN k' = k + 1 /\ pc' = "look"
                  ELSE k' = k /\ pc' = "sweepBackups"

RollBackFrom(m) ==
  IF m = 0 THEN k' = 0 /\ pc' = "sweepTmps" ELSE k' = m /\ pc' = "undo"

\* Faults: the operation at hand is always, or never, rolled back.
RaiseForwardUndoesToo ==
  /\ rolling' = TRUE /\ RollBackFrom(k)
  /\ UNCHANGED report
RaiseForwardForgetsLast ==
  /\ rolling' = TRUE /\ RollBackFrom(IF applied = {} THEN 0 ELSE k - 1)
  /\ UNCHANGED report

\* The operation whose backup could not be made is not in applied.
RaiseForward ==
  /\ rolling' = TRUE
  /\ RollBackFrom(IF applied = {} THEN 0 ELSE IF k \in applied THEN k ELSE k - 1)
  /\ UNCHANGED report

\* Faults: an error of the rollback is not reported, or is retried.
RaiseInRollbackQuietly ==
  RollBackFrom(k - 1) /\ UNCHANGED <<report, rolling>>
RaiseInRollbackRetries ==
  RollBackFrom(k) /\ report' = TRUE /\ UNCHANGED rolling

RaiseInRollback ==
  /\ RollBackFrom(k - 1)
  /\ report' = TRUE
  /\ UNCHANGED rolling

Raise == IF rolling THEN RaiseInRollback ELSE RaiseForward

Fallible ==
  \/ pc \in {"openTmp", "fillTmp", "openBackup", "fillBackup", "openCopy", "fillCopy"}
  \/ pc = "move" /\ (rolling \/ k \in Writes \/ k \in existed)
  \/ pc = "undo" /\ k \in Writes /\ Exists(op.target)

Fail ==
  /\ Fallible
  /\ Raise
  /\ UNCHANGED <<shared, before, ops, applied, existed, writtenTmps,
                 createdDirs, buffer>>

-----------------------------------------------------------------------------
(* First loop: every new text goes to its temporary file.                  *)

SkipDelete ==
  /\ pc = "prepare" /\ k \notin Writes
  /\ NextPrepare
  /\ UNCHANGED <<shared, before, ops, rolling, applied, existed, writtenTmps,
                 createdDirs, buffer, report>>

\* Fault: the missing directories are looked for after mkdir.
MakeParentsUnrecorded ==
  /\ pc = "prepare" /\ k \in Writes
  /\ \/ dirs' = dirs \union {DirOf[op.tmp]} /\ pc' = "openTmp"
        /\ UNCHANGED <<k, rolling, report>>
     \/ DirOf[op.tmp] \notin dirs /\ RaiseForward /\ UNCHANGED dirs
  /\ UNCHANGED <<fs, before, ops, applied, existed, writtenTmps, createdDirs,
                 buffer>>

\* The missing directories are recorded before mkdir is tried.
MakeParents ==
  /\ pc = "prepare" /\ k \in Writes
  /\ createdDirs' = createdDirs \union ({DirOf[op.tmp]} \ dirs)
  /\ \/ dirs' = dirs \union {DirOf[op.tmp]} /\ pc' = "openTmp"
        /\ UNCHANGED <<k, rolling, report>>
     \/ DirOf[op.tmp] \notin dirs /\ RaiseForward /\ UNCHANGED dirs
  /\ UNCHANGED <<fs, before, ops, applied, existed, writtenTmps, buffer>>

OpenTmp ==
  /\ pc = "openTmp" /\ DirOf[op.tmp] \in dirs
  /\ Put(op.tmp, Torn)
  /\ pc' = "fillTmp"
  /\ UNCHANGED <<dirs, before, ops, k, rolling, applied, existed, writtenTmps,
                 createdDirs, buffer, report>>

\* Fault: the finished temporary file is not noted in written_tmps.
FillTmpUnrecorded ==
  /\ pc = "fillTmp"
  /\ Put(op.tmp, op.text)
  /\ NextPrepare
  /\ UNCHANGED <<dirs, before, ops, rolling, applied, existed, writtenTmps,
                 createdDirs, buffer, report>>

FillTmp ==
  /\ pc = "fillTmp"
  /\ Put(op.tmp, op.text)
  /\ writtenTmps' = writtenTmps \union {op.tmp}
  /\ NextPrepare
  /\ UNCHANGED <<dirs, before, ops, rolling, applied, existed, createdDirs,
                 buffer, report>>

-----------------------------------------------------------------------------
(* Second loop: save each target, then install or delete it.               *)

Look ==
  /\ pc = "look"
  /\ IF Exists(op.target) THEN pc' = "openBackup" /\ UNCHANGED applied
                          ELSE pc' = "move" /\ applied' = applied \union {k}
  /\ UNCHANGED <<shared, before, ops, k, rolling, existed, writtenTmps,
                 createdDirs, buffer, report>>

OpenBackup ==
  /\ pc = "openBackup" /\ Exists(op.target) /\ DirOf[op.backup] \in dirs
  /\ buffer' = fs[op.target]
  /\ Put(op.backup, Torn)
  /\ pc' = "fillBackup"
  /\ UNCHANGED <<dirs, before, ops, k, rolling, applied, existed, writtenTmps,
                 createdDirs, report>>

FillBackup ==
  /\ pc = "fillBackup"
  /\ Put(op.backup, buffer)
  /\ applied' = applied \union {k} /\ existed' = existed \union {k}
  /\ pc' = "move"
  /\ UNCHANGED <<dirs, before, ops, k, rolling, writtenTmps, createdDirs,
                 buffer, report>>

DeleteTarget ==
  /\ pc = "move" /\ ~rolling /\ k \notin Writes
  /\ IF k \in existed THEN Exists(op.target) /\ Put(op.target, Absent)
                      ELSE UNCHANGED fs
  /\ NextInstall
  /\ UNCHANGED <<dirs, before, ops, rolling, applied, existed, writtenTmps,
                 createdDirs, buffer, report>>

-----------------------------------------------------------------------------
(* _replace_path, used forwards (temporary file to target) and, in the     *)
(* except clause, backwards (backup to target): a rename, or, when the     *)
(* retries are used up, a copy followed by an unlink of the source.        *)

source == IF rolling THEN op.backup ELSE op.tmp
Moving == pc = "move" /\ (rolling \/ k \in Writes)

Moved ==
  IF rolling
  THEN RollBackFrom(k - 1) /\ UNCHANGED writtenTmps
  ELSE NextInstall /\ writtenTmps' = writtenTmps \ {op.tmp}

Replace ==
  /\ Moving /\ Exists(source) /\ DirOf[op.target] \in dirs
  /\ fs' = [fs EXCEPT ![op.target] = fs[source], ![source] = Absent]
  /\ Moved
  /\ UNCHANGED <<dirs, before, ops, rolling, applied, existed, createdDirs,
                 buffer, report>>

FallBack ==
  /\ Moving
  /\ pc' = "openCopy"
  /\ UNCHANGED <<shared, before, ops, k, rolling, applied, existed,
                 writtenTmps, createdDirs, buffer, report>>

OpenCopy ==
  /\ pc = "openCopy" /\ Exists(source) /\ DirOf[op.target] \in dirs
  /\ buffer' = fs[source]
  /\ Put(op.target, Torn)
  /\ pc' = "fillCopy"
  /\ UNCHANGED <<dirs, before, ops, k, rolling, applied, existed, writtenTmps,
                 createdDirs, report>>

FillCopy ==
  /\ pc = "fillCopy"
  /\ Put(op.target, buffer)
  /\ pc' = "unlinkSource"
  /\ UNCHANGED <<dirs, before, ops, k, rolling, applied, existed, writtenTmps,
                 createdDirs, buffer, report>>

UnlinkSource ==
  /\ pc = "unlinkSource"
  /\ \/ Put(source, Absent) /\ Moved
     \/ pc' = "undoCopy" /\ UNCHANGED <<fs, k, writtenTmps>>
  /\ UNCHANGED <<dirs, before, ops, rolling, applied, existed, createdDirs,
                 buffer, report>>

\* The copy is unlinked again, which may fail too; the error is raised.
UndoCopy ==
  /\ pc = "undoCopy"
  /\ Put(op.target, Absent) \/ UNCHANGED fs
  /\ Raise
  /\ UNCHANGED <<dirs, before, ops, applied, existed, writtenTmps,
                 createdDirs, buffer>>

-----------------------------------------------------------------------------
(* The except clause, and the cleanup of a call that succeeded.            *)

Undo ==
  /\ pc = "undo"
  /\ IF k \in Writes THEN Put(op.target, Absent) ELSE UNCHANGED fs
  /\ IF k \in existed /\ Exists(op.backup)
     THEN pc' = "move" /\ UNCHANGED k
     ELSE RollBackFrom(k - 1)
  /\ UNCHANGED <<dirs, before, ops, rolling, applied, existed, writtenTmps,
                 createdDirs, buffer, report>>

\* Unlink the files of a set that exist, all but those that resist.
Unlink(files, stuck) ==
  fs' = [x \in Paths |-> IF x \in files \ stuck THEN Absent ELSE fs[x]]

\* Fault: a failed call cleans up its backups like a successful one.
SweepTmpsAndBackups ==
  /\ pc = "sweepTmps"
  /\ Unlink(writtenTmps \union Backups, {})
  /\ writtenTmps' = {}
  /\ pc' = "sweepDirs"
  /\ UNCHANGED <<dirs, before, ops, k, rolling, applied, existed, createdDirs,
                 buffer, report>>

SweepTmps ==
  /\ pc = "sweepTmps"
  /\ \E stuck \in SUBSET {x \in writtenTmps : Exists(x)} :
       /\ Unlink(writtenTmps, stuck)
       /\ report' = (report \/ stuck # {})
  /\ writtenTmps' = {}
  /\ pc' = "sweepDirs"
  /\ UNCHANGED <<dirs, before, ops, k, rolling, applied, existed, createdDirs,
                 buffer>>

Occupied == {DirOf[x] : x \in {y \in Paths : Exists(y)}}

SweepDirs ==
  /\ pc = "sweepDirs"
  /\ \E stuck \in SUBSET (createdDirs \intersect dirs) :
       /\ createdDirs \intersect Occupied \subseteq stuck
       /\ dirs' = (dirs \ createdDirs) \union stuck
       /\ report' = (report \/ stuck # {})
  /\ createdDirs' = {}
  /\ pc' = "failed"
  /\ UNCHANGED <<fs, before, ops, k, rolling, applied, existed, writtenTmps,
                 buffer>>

\* Fault: a backup that cannot be removed is passed over in silence.
SweepBackupsQuietly ==
  /\ pc = "sweepBackups"
  /\ \E stuck \in SUBSET {x \in Backups : Exists(x)} : Unlink(Backups, stuck)
  /\ pc' = "committed"
  /\ UNCHANGED <<dirs, before, ops, k, rolling, applied, existed, writtenTmps,
                 createdDirs, buffer, report>>

SweepBackups ==
  /\ pc = "sweepBackups"
  /\ \E stuck \in SUBSET {x \in Backups : Exists(x)} :
       /\ Unlink(Backups, stuck)
       /\ report' = (stuck # {})
  /\ pc' = "committed"
  /\ UNCHANGED <<dirs, before, ops, k, rolling, applied, existed, writtenTmps,
                 createdDirs, buffer>>

-----------------------------------------------------------------------------
\* The process dies: nothing of the call survives but the files.
Crash ==
  /\ pc \notin Ended
  /\ pc' = IF pc = "sweepBackups" THEN "crashedAfterCommit" ELSE "crashed"
  /\ UNCHANGED <<shared, before, ops, k, rolling, applied, existed,
                 writtenTmps, createdDirs, buffer, report>>

Forwards ==
  \/ Validate
  \/ SkipDelete \/ MakeParents \/ OpenTmp \/ FillTmp
  \/ Look \/ OpenBackup \/ FillBackup \/ DeleteTarget
Moves == Replace \/ FallBack \/ OpenCopy \/ FillCopy \/ UnlinkSource \/ UndoCopy
Cleanups == Undo \/ SweepTmps \/ SweepDirs \/ SweepBackups
Step == Forwards \/ Moves \/ Cleanups \/ Fail

Next == Step \/ Crash

\* The call runs on without waiting for anything, unless the process dies.
Spec == Init /\ [][Next]_vars /\ WF_vars(Step)

-----------------------------------------------------------------------------
(* What a call guarantees.                                                 *)

\* Type correctness of the file system and of the locals of the call.
TypeOK ==
  /\ fs \in [Paths -> Contents] /\ before \in [Paths -> Contents]
  /\ dirs \subseteq Dirs /\ createdDirs \subseteq Dirs
  /\ ops \in Seq(Operations) \ {<<>>}
  /\ pc \in Stages
  /\ k \in 0 .. Len(ops)
  /\ rolling \in BOOLEAN /\ report \in BOOLEAN
  /\ existed \subseteq applied /\ applied \subseteq Indices
  /\ writtenTmps \subseteq Paths
  /\ buffer \in Contents

Committed == pc \in {"sweepBackups", "committed", "crashedAfterCommit"}

Installed == \A i \in Indices : fs[ops[i].target] = After(i)

\* At every moment, a crash and every failure of the rollback included,
\* either all targets hold what the call was to write, or the text of each
\* file that existed is still in the file or in its backup.
OriginalSurvives ==
  \/ Installed
  \/ \A i \in Indices :
       before[ops[i].target] \in
         {Absent, fs[ops[i].target], fs[ops[i].backup]}

\* A call that returns has carried out every operation: no loop ends early.
CommitIsComplete == Committed => Installed

\* The message "rolled back completed target writes" (no recovery errors) is
\* true: every target, the one whose step failed included, is as before.
CleanFailureRestores ==
  pc = "failed" /\ ~report =>
    \A x \in Targets : fs[x] = before[x]

\* Cut short anywhere, and in a rollback that has met no error, the call
\* leaves its targets as some of the first operations make them and the rest
\* as they were; only one in between may be torn or away.
CutInOrder ==
  ~report \/ Committed =>
    \E m \in Indices :
      /\ fs[ops[m].target] \in {before[ops[m].target], After(m), Absent, Torn}
      /\ \A i \in Indices :
           /\ i < m => fs[ops[i].target] = After(i)
           /\ i > m => fs[ops[i].target] = before[ops[i].target]

\* A file that is no target is never overwritten or removed: an existing
\* sidecar (somebody's only backup, perhaps) stops the call instead.
OtherFilesUntouched ==
  \A x \in Paths \ Targets :
    \/ fs[x] = before[x]
    \/ before[x] = Absent /\ x \in Tmps \union Backups

\* A call that returns without a warning leaves no sidecar behind, so the
\* next call on the same files is not refused for one.
QuietCommitLeavesNoSidecar ==
  pc = "committed" /\ ~report => \A x \in Paths \ Targets : fs[x] = before[x]

\* A failure reported as clean can leave one sidecar, the one that was being
\* written when the error came, and its text is torn.
CleanFailureLeavesAtMostOneSidecar ==
  pc = "failed" /\ ~report =>
    /\ \A x \in Paths \ Targets : fs[x] \in {before[x], Torn}
    /\ \A x, y \in Paths \ Targets :
         fs[x] # before[x] /\ fs[y] # before[y] => x = y

\* Directories made for temporary files are gone after a clean failure.
CleanFailureRemovesDirs ==
  pc = "failed" /\ ~report => dirs = {DirOf[x] : x \in {y \in Paths : before[y] # Absent}}

\* The two facts a user of the transactions builds on: a file of the call is
\* always seen, and finally left, as TransactionContract says, and a sidecar
\* that was there before the call stops it before it touches any file.
Contract == INSTANCE TransactionContract

Sidecars(i) == {ops[i].backup} \union (IF i \in Writes THEN {ops[i].tmp} ELSE {})

Outcome ==
  IF Committed THEN "updated"
  ELSE IF pc = "refused" \/ (pc = "failed" /\ ~report) THEN "unchanged"
  ELSE IF pc \in Ended THEN "interrupted" ELSE "open"

KeepsContract ==
  \A i \in Indices :
    LET x == ops[i].target
        end == [text |-> fs[x], sidecar |-> \E y \in Sidecars(i) : Exists(y)]
    IN
    /\ fs[x] \in Contract!Visible(before[x], After(i))
    /\ pc \in Ended => end \in Contract!Endings(Outcome, before[x], After(i))
    /\ (\E y \in Sidecars(i) : before[y] # Absent) => fs = before /\ ~Committed

\* The call always ends: no loop of it, backwards or forwards, runs forever.
Terminates == <>(pc \in Ended)

-----------------------------------------------------------------------------
(* The inductive invariant behind these guarantees.                        *)

PrepareStages == {"prepare", "openTmp", "fillTmp"}
SaveStages == {"look", "openBackup", "fillBackup"}
MoveStages == {"move", "openCopy", "fillCopy", "unlinkSource", "undoCopy"}
FailedStages == {"sweepTmps", "sweepDirs", "failed"}

\* Nothing is touched before the plan is found valid; the files found then
\* under the names of sidecars are none.
InvChecked ==
  \/ fs = before /\ applied = {} /\ pc \in {"validate", "refused", "crashed"}
  \/ /\ DistinctPaths
     /\ \A x \in Backups \union Tmps : before[x] = Absent
     /\ pc \notin {"validate", "refused"}

\* Where the loops are, and how far the list applied has grown.
InvPosition ==
  /\ pc = "validate" => k = 1
  /\ pc \in PrepareStages \union {"validate"} => applied = {} /\ ~rolling /\ k \in Indices
  /\ pc \in {"openTmp", "fillTmp"} => k \in Writes
  /\ pc \in SaveStages => applied = 1 .. (k - 1) /\ ~rolling /\ k \in Indices
  /\ pc \in MoveStages /\ ~rolling => applied = 1 .. k /\ k \in Indices
  /\ pc \in MoveStages \ {"move"} /\ ~rolling => k \in Writes
  /\ pc \in MoveStages /\ rolling => k \in existed
  /\ pc = "undo" => rolling /\ k \in applied
  /\ pc \in FailedStages => rolling /\ k = 0
  /\ Committed => applied = Indices /\ ~rolling /\ k = Len(ops)
  /\ ~rolling /\ ~Committed => ~report
  /\ \A i \in applied : 1 .. i \subseteq applied

\* applied knows which targets were there; the targets of the others, and of
\* a deletion that had nothing to delete, are as they were.
InvApplied ==
  /\ \A i \in applied : i \in existed <=> before[ops[i].target] # Absent
  /\ \A i \in Indices : i \notin applied \/ i \notin Writes \union existed =>
       fs[ops[i].target] = before[ops[i].target]

\* The backup of every operation that may still be rolled back is complete.
InvSaved ==
  \A i \in existed :
    (~rolling \/ i <= k) /\ pc # "committed" =>
      fs[ops[i].backup] = before[ops[i].target]

\* An operation the rollback has passed is undone, or its backup is kept and
\* an error reported.
InvUndone ==
  \A i \in applied :
    rolling /\ i > k =>
      /\ fs[ops[i].target] # before[ops[i].target] => report
      /\ i \in existed =>
           \/ fs[ops[i].backup] = before[ops[i].target]
           \/ fs[ops[i].backup] = Absent /\ fs[ops[i].target] = before[ops[i].target]

\* Going forwards, temporary files wait complete ...
InvTmps ==
  \A i \in Writes :
    ~rolling /\ (\/ pc \in PrepareStages /\ i < k
                 \/ pc \in SaveStages \union MoveStages /\ i >= k)
      => fs[ops[i].tmp] = ops[i].text

\* ... and the targets the loop has passed are installed.
InvInstalled ==
  \A i \in applied :
    ~rolling /\ (i < k \/ Committed) => fs[ops[i].target] = After(i)

\* What the copy of _replace_path, forwards or backwards, has in hand.
Incoming == IF rolling THEN before[op.target] ELSE op.text
InvCopy ==
  /\ pc = "fillBackup" => buffer = before[op.target] /\ before[op.target] # Absent
  /\ pc \in {"move", "openCopy"} /\ ~rolling => fs[op.target] = before[op.target]
  /\ pc = "fillCopy" => buffer = Incoming
  /\ pc = "unlinkSource" => fs[op.target] = Incoming

\* Only the files of the plan are touched, or will be by the cleanup.
InvOthers ==
  /\ writtenTmps \subseteq Tmps
  /\ \A x \in Paths \ (Targets \union Backups \union Tmps) : fs[x] = before[x]

IInv ==
  /\ TypeOK /\ InvChecked /\ InvPosition /\ InvApplied /\ InvSaved
  /\ InvUndone /\ InvTmps /\ InvInstalled /\ InvCopy /\ InvOthers

-----------------------------------------------------------------------------
(* Why the call ends.                                                      *)

\* The turns the loops still have to take at most: the first one over every
\* operation, then the second, then the one backwards, ...
TurnsLeft ==
  CASE pc = "validate" -> 3 * Len(ops) + 1
    [] pc \in PrepareStages -> 3 * Len(ops) - k + 1
    [] pc \in SaveStages \union MoveStages /\ ~rolling -> 2 * Len(ops) - k + 1
    [] pc \in MoveStages \union {"undo"} /\ rolling -> k
    [] OTHER -> 0

\* ... and the steps left of the turn, or of the cleanup.
StepsOfTurn ==
  CASE pc \in {"validate", "fillTmp", "undoCopy", "sweepDirs", "sweepBackups"} -> 1
    [] pc \in {"openTmp", "unlinkSource", "sweepTmps"} -> 2
    [] pc \in {"prepare", "fillCopy"} -> 3
    [] pc = "openCopy" -> 4
    [] pc = "move" -> 5
    [] pc \in {"fillBackup", "undo"} -> 6
    [] pc = "openBackup" -> 7
    [] pc = "look" -> 8
    [] OTHER -> 0

Rank == 10 * TurnsLeft + StepsOfTurn

\* Every step, one that fails included, brings the call nearer to its end: an
\* error neither restarts a loop nor repeats a turn of the rollback.
EveryStepDescends == [][Rank' < Rank]_vars

-----------------------------------------------------------------------------
(* The refinement of AtomicUpdate.                                         *)

IndexOf(x) == CHOOSE i \in Indices : ops[i].target = x

\* The content of a target that the files as they are still give back.
Recoverable(x) ==
  LET i == IndexOf(x) IN
  IF Committed \/ i \notin applied THEN fs[x]
  ELSE IF i \notin existed THEN Absent
  ELSE IF Exists(ops[i].backup) THEN fs[ops[i].backup] ELSE fs[x]

\* A file that is no target counts as unchanged: OtherFilesUntouched is what
\* a call guarantees of those.
Abstract == INSTANCE AtomicUpdate WITH
  Files   <- Paths,
  Values  <- Contents,
  held    <- [x \in Paths |-> IF x \in Targets THEN Recoverable(x) ELSE before[x]],
  shown   <- [x \in Paths |-> IF x \in Targets THEN fs[x] ELSE before[x]],
  wanted  <- [x \in Paths |-> IF x \in Targets THEN After(IndexOf(x)) ELSE before[x]],
  outcome <- Outcome

\* Seen through Recoverable, the call is one atomic update.
IsAtomicUpdate == Abstract!AbsSpec
=============================================================================
