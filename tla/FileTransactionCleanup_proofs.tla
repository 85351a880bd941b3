------------------ MODULE FileTransactionCleanup_proofs ------------------
(***************************************************************************)
(* What a call of apply_file_transaction leaves behind, for every plan and *)
(* every file system: a second inductive invariant, on top of IInv, about  *)
(* the order of the targets, the sidecars and the directories.             *)
(***************************************************************************)
EXTENDS FileTransaction_proofs

USE DEF shared, Stages, Ended, PrepareStages, SaveStages, MoveStages,
        FailedStages, Committed, op, Exists, Put, Contents, AtOperation

-----------------------------------------------------------------------------
(* The invariant.                                                          *)

\* The operations before the one at hand are done, in the rollback too, and
\* the list applied ends there; no target holds anything unheard of.
InvOrder ==
  /\ rolling => k = 0 \/ k \in applied
  /\ ~rolling =>
       \/ applied = {}
       \/ 1 .. (k - 1) \subseteq applied /\ applied \subseteq 1 .. k
  /\ \A i \in applied : rolling /\ i < k => fs[ops[i].target] = After(i)
  /\ \A i \in Indices :
       fs[ops[i].target] \in {before[ops[i].target], After(i), Absent, Torn}

\* The directories of the files found; those made since are in createdDirs.
OldDirs == {DirOf[x] : x \in {y \in Paths : before[y] # Absent}}
InvDirs ==
  /\ pc # "failed" => dirs \ createdDirs = OldDirs
  /\ pc = "failed" /\ ~report => dirs = OldDirs

Loops == PrepareStages \union SaveStages \union MoveStages

\* Going forwards, the lists know every sidecar but the one being written;
\* the temporary files of the operations passed are gone.
InvHeld ==
  /\ ~rolling /\ pc \in Loops =>
       /\ \A i \in Writes :
            \/ fs[ops[i].tmp] = Absent \/ ops[i].tmp \in writtenTmps
            \/ i = k /\ pc = "fillTmp" /\ fs[ops[i].tmp] = Torn
       /\ \A i \in Indices :
            \/ fs[ops[i].backup] = Absent \/ i \in existed
            \/ i = k /\ pc = "fillBackup" /\ fs[ops[i].backup] = Torn
  /\ \A i \in Writes :
       ~rolling /\ ((pc \in SaveStages \union MoveStages /\ i < k) \/ Committed)
         => fs[ops[i].tmp] = Absent
  /\ pc = "committed" /\ ~report => \A x \in Backups : fs[x] = Absent

\* All sidecars but t are temporary files on the list or backups of
\* operations to be rolled back; t is torn.
Stray(t) ==
  /\ t \notin Targets => fs[t] \in {Absent, Torn}
  /\ \A i \in Writes :
       ops[i].tmp # t /\ ops[i].tmp \notin writtenTmps => fs[ops[i].tmp] = Absent
  /\ \A i \in Indices :
       ops[i].backup # t =>
         fs[ops[i].backup] = Absent \/ (i \in existed /\ i <= k)

\* In a rollback without errors at most one sidecar is unaccounted for.
InvLeft ==
  /\ pc \in {"sweepDirs", "failed"} => writtenTmps = {}
  /\ rolling /\ ~report => \E t \in Paths : Stray(t)

CleanupInv == InvOrder /\ InvDirs /\ InvHeld /\ InvLeft

\* The plan is checked.
LEMMA ValidateCleans ==
  ASSUME IInv, CleanupInv, Validate
  PROVE  CleanupInv'
<1>1. InvOrder'
  BY SamePlan DEF CleanupInv, InvOrder, Validate
<1>2. InvDirs'
  BY DEF CleanupInv, InvDirs, OldDirs, Validate
<1>3. InvHeld'
  BY SamePlan, MemberFacts DEF InvHeld, Loops, Validate, ValidPlan
<1>4. InvLeft'
  BY SamePlan DEF CleanupInv, InvLeft, Stray, Validate
<1>5. QED
  BY <1>1, <1>2, <1>3, <1>4 DEF CleanupInv

\* A deletion has no temporary file.
LEMMA SkipDeleteCleans ==
  ASSUME IInv, CleanupInv, SkipDelete
  PROVE  CleanupInv'
<1>a. UNCHANGED <<ops, before, dirs, createdDirs>> /\ pc' # "failed"
  BY DEF SkipDelete, NextPrepare
<1>1. InvOrder'
  BY SamePlan DEF IInv, InvOrder, InvPosition, InvApplied, SkipDelete
<1>2. InvDirs'
  BY <1>a DEF CleanupInv, InvDirs, OldDirs, SkipDelete
<1>3. InvHeld'
  BY SamePlan, PlanFacts
  DEF IInv, CleanupInv, InvHeld, Loops, SkipDelete, NextPrepare
<1>4. InvLeft'
  BY DEF IInv, InvLeft, InvPosition, SkipDelete, NextPrepare
<1>5. QED
  BY <1>1, <1>2, <1>3, <1>4 DEF CleanupInv

\* A temporary file is truncated, and not on the list yet ...
LEMMA OpenTmpCleans ==
  ASSUME IInv, CleanupInv, OpenTmp
  PROVE  CleanupInv'
<1>b. DistinctPaths /\ AtOperation
  BY Running, Here DEF OpenTmp, Moving
<1>1. InvOrder'
  BY SamePlan DEF IInv, InvOrder, InvPosition, InvApplied, OpenTmp
<1>2. InvDirs'
  BY DEF CleanupInv, InvDirs, OldDirs, OpenTmp
<1>3. InvHeld'
  BY <1>b, SamePlan, PathFacts, PlanFacts
  DEF IInv, CleanupInv, InvHeld, Loops, InvPosition, OpenTmp
<1>4. InvLeft'
  BY DEF IInv, InvLeft, InvPosition, OpenTmp
<1>5. QED
  BY <1>1, <1>2, <1>3, <1>4 DEF CleanupInv

\* ... and on it once it is complete.
LEMMA FillTmpCleans ==
  ASSUME IInv, CleanupInv, FillTmp
  PROVE  CleanupInv'
<1>a. UNCHANGED <<ops, before, dirs, createdDirs>> /\ pc' # "failed"
  BY DEF FillTmp, NextPrepare
<1>b. DistinctPaths /\ AtOperation
  BY Running, Here DEF FillTmp, Moving
<1>d. /\ \A x \in Paths \ {op.tmp} : fs'[x] = fs[x]
      /\ fs' \in [Paths -> Contents]
  BY <1>b DEF IInv, TypeOK, FillTmp
<1>1. InvOrder'
  BY <1>b, SamePlan, PathFacts, PlanFacts
  DEF IInv, InvOrder, InvPosition, InvApplied, FillTmp
<1>2. InvDirs'
  BY <1>a DEF CleanupInv, InvDirs, OldDirs, FillTmp
<1>3. InvHeld'
  BY <1>a, <1>b, <1>d, SamePlan, PathFacts, PlanFacts, MemberFacts, AfterFacts
  DEF IInv, CleanupInv, InvHeld, Loops, InvPosition, InvChecked, InvOthers,
      TypeOK, FillTmp, NextPrepare
<1>4. InvLeft'
  BY DEF IInv, InvLeft, InvPosition, FillTmp, NextPrepare
<1>5. QED
  BY <1>1, <1>2, <1>3, <1>4 DEF CleanupInv

\* The target is there, or it has nothing to save.
LEMMA LookCleans ==
  ASSUME IInv, CleanupInv, Look
  PROVE  CleanupInv'
<1>1. InvOrder'
  BY SamePlan, PlanFacts
  DEF IInv, InvOrder, InvPosition, InvApplied, InvInstalled, Look
<1>2. InvDirs'
  BY DEF CleanupInv, InvDirs, OldDirs, Look
<1>3. InvHeld'
  BY SamePlan DEF CleanupInv, InvHeld, Loops, Look
<1>4. InvLeft'
  BY DEF IInv, InvLeft, InvPosition, Look
<1>5. QED
  BY <1>1, <1>2, <1>3, <1>4 DEF CleanupInv

\* A backup is truncated, and its operation not in applied yet ...
LEMMA OpenBackupCleans ==
  ASSUME IInv, CleanupInv, OpenBackup
  PROVE  CleanupInv'
<1>b. DistinctPaths /\ AtOperation
  BY Running, Here DEF OpenBackup, Moving
<1>1. InvOrder'
  BY SamePlan, PlanFacts
  DEF IInv, InvOrder, InvPosition, InvApplied, InvInstalled, OpenBackup
<1>2. InvDirs'
  BY DEF CleanupInv, InvDirs, OldDirs, OpenBackup
<1>3. InvHeld'
  BY <1>b, SamePlan, PathFacts, PlanFacts
  DEF IInv, CleanupInv, InvHeld, Loops, OpenBackup
<1>4. InvLeft'
  BY DEF IInv, InvLeft, InvPosition, OpenBackup
<1>5. QED
  BY <1>1, <1>2, <1>3, <1>4 DEF CleanupInv

\* ... and in it once it is complete.
LEMMA FillBackupCleans ==
  ASSUME IInv, CleanupInv, FillBackup
  PROVE  CleanupInv'
<1>b. DistinctPaths /\ AtOperation
  BY Running, Here DEF FillBackup, Moving
<1>1. InvOrder'
  BY <1>b, SamePlan, PathFacts, PlanFacts
  DEF IInv, InvOrder, InvPosition, InvApplied, InvInstalled, FillBackup
<1>2. InvDirs'
  BY DEF CleanupInv, InvDirs, OldDirs, FillBackup
<1>3. InvHeld'
  BY <1>b, SamePlan, PathFacts, PlanFacts
  DEF IInv, CleanupInv, InvHeld, Loops, FillBackup
<1>4. InvLeft'
  BY DEF IInv, InvLeft, InvPosition, FillBackup
<1>5. QED
  BY <1>1, <1>2, <1>3, <1>4 DEF CleanupInv

\* A target is deleted.
LEMMA DeleteTargetCleans ==
  ASSUME IInv, CleanupInv, DeleteTarget
  PROVE  CleanupInv'
<1>a. UNCHANGED <<ops, before, dirs, createdDirs>> /\ pc' # "failed"
  BY DEF DeleteTarget, NextInstall
<1>b. DistinctPaths /\ AtOperation
  BY Running, Here DEF DeleteTarget, Moving
<1>d. /\ \A x \in Paths \ {op.target} : fs'[x] = fs[x]
      /\ fs' \in [Paths -> Contents]
  BY DEF IInv, TypeOK, DeleteTarget
<1>1. InvOrder'
  BY <1>d, SamePlan, PlanFacts
  DEF IInv, InvOrder, InvPosition, InvApplied, InvInstalled, DeleteTarget,
      NextInstall
<1>2. InvDirs'
  BY <1>a DEF CleanupInv, InvDirs, OldDirs, DeleteTarget
<1>3. InvHeld'
  BY <1>b, <1>d, SamePlan, PlanFacts
  DEF IInv, CleanupInv, InvHeld, Loops, DeleteTarget, NextInstall
<1>4. InvLeft'
  BY DEF InvLeft, DeleteTarget, NextInstall
<1>5. QED
  BY <1>1, <1>2, <1>3, <1>4 DEF CleanupInv

\* A rename that is denied becomes a copy.
LEMMA FallBackCleans ==
  ASSUME IInv, CleanupInv, FallBack
  PROVE  CleanupInv'
<1>1. InvOrder'
  BY SamePlan DEF CleanupInv, InvOrder, FallBack
<1>2. InvDirs'
  BY DEF CleanupInv, InvDirs, OldDirs, FallBack, Moving
<1>3. InvHeld'
  BY SamePlan DEF CleanupInv, InvHeld, Loops, FallBack, Moving
<1>4. InvLeft'
  BY SamePlan DEF IInv, CleanupInv, InvLeft, Stray, FallBack
<1>5. QED
  BY <1>1, <1>2, <1>3, <1>4 DEF CleanupInv

\* The copy begins: the target is torn.
LEMMA OpenCopyCleans ==
  ASSUME IInv, CleanupInv, OpenCopy
  PROVE  CleanupInv'
<1>b. DistinctPaths /\ AtOperation
  BY Running, Here DEF OpenCopy, Moving
<1>1. InvOrder'
  BY <1>b, SamePlan, PathFacts, PlanFacts
  DEF IInv, CleanupInv, InvOrder, TypeOK, OpenCopy
<1>2. InvDirs'
  BY DEF CleanupInv, InvDirs, OldDirs, OpenCopy
<1>3. InvHeld'
  BY <1>b, SamePlan, PathFacts, PlanFacts
  DEF IInv, CleanupInv, InvHeld, Loops, OpenCopy
<1>4. InvLeft'
  BY <1>b, SamePlan, PathFacts, PlanFacts
  DEF IInv, CleanupInv, InvLeft, Stray, OpenCopy
<1>5. QED
  BY <1>1, <1>2, <1>3, <1>4 DEF CleanupInv

\* The copy is complete.
LEMMA FillCopyCleans ==
  ASSUME IInv, CleanupInv, FillCopy
  PROVE  CleanupInv'
<1>b. DistinctPaths /\ AtOperation
  BY Running, Here DEF FillCopy, Moving
<1>1. InvOrder'
  BY <1>b, SamePlan, PathFacts, PlanFacts, AfterFacts
  DEF IInv, CleanupInv, InvOrder, InvPosition, InvCopy, Incoming, TypeOK,
      FillCopy
<1>2. InvDirs'
  BY DEF CleanupInv, InvDirs, OldDirs, FillCopy
<1>3. InvHeld'
  BY <1>b, SamePlan, PathFacts, PlanFacts
  DEF IInv, CleanupInv, InvHeld, Loops, FillCopy
<1>4. InvLeft'
  BY <1>b, SamePlan, PathFacts, PlanFacts
  DEF IInv, CleanupInv, InvLeft, Stray, FillCopy
<1>5. QED
  BY <1>1, <1>2, <1>3, <1>4 DEF CleanupInv

\* An error in any loop, with or without a target that is unlinked.
LEMMA RaiseCleans ==
  ASSUME IInv, CleanupInv, Raise,
         UNCHANGED <<before, ops, applied, existed, writtenTmps>>,
         pc \in Loops \union {"undo"},
         dirs' \ createdDirs' = dirs \ createdDirs,
         \/ fs' = fs
         \/ k \in applied /\ fs' = [fs EXCEPT ![op.target] = Absent]
  PROVE  CleanupInv'
<1>a. UNCHANGED <<ops, before>> /\ DistinctPaths /\ AtOperation
  BY Running, Here DEF Loops
<1>b. /\ k' \in Nat /\ rolling'
      /\ \/ pc' = "sweepTmps" /\ k' = 0
         \/ pc' = "undo" /\ k' \in applied
      /\ ~rolling => applied = 1 .. k' /\ report' = report
      /\ rolling => k' = k - 1 /\ report' = TRUE
  BY RaiseFacts DEF Loops
<1>c. \A x \in Paths \ {op.target} : fs'[x] = fs[x]
  BY <1>a DEF IInv, TypeOK
<1>d. \A i \in Indices : fs'[ops[i].target] \in {fs[ops[i].target], Absent}
  BY <1>a, <1>c, PlanFacts DEF IInv, TypeOK
<1>e. \A i \in Indices : i # k => fs'[ops[i].target] = fs[ops[i].target]
  BY <1>a, <1>c, PlanFacts, PathFacts DEF IInv
<1>f. /\ applied \subseteq Indices /\ existed \subseteq applied
      /\ Indices \subseteq Nat
  BY PlanFacts DEF IInv, TypeOK
<1>1. InvOrder'
  <2>1. \A i \in applied : i < k' => i < k /\ i # k
    <3>0. k \in Nat
      BY DEF IInv, TypeOK
    <3>1. CASE rolling
      BY <1>b, <1>f, <3>0, <3>1
    <3>2. CASE ~rolling
      <4>1. k' <= k
        BY <1>a, <1>b, <1>f, <3>2 DEF IInv, InvPosition, Loops
      <4>2. QED
        BY <1>a, <1>b, <1>f, <4>1
    <3>3. QED
      BY <3>1, <3>2
  <2>2. \A i \in applied : i < k' => fs[ops[i].target] = After(i)
    BY <2>1 DEF IInv, CleanupInv, InvOrder, InvInstalled
  <2>3. QED
    BY <1>a, <1>b, <1>d, <1>e, <1>f, <2>1, <2>2, SamePlan
    DEF CleanupInv, InvOrder
<1>2. InvDirs'
  BY <1>b DEF CleanupInv, InvDirs, OldDirs, Loops
<1>3. InvHeld'
  BY <1>b DEF InvHeld
<1>4. InvLeft'
  <2>1. SUFFICES ASSUME ~report' PROVE \E t \in Paths : Stray(t)'
    BY <1>b DEF InvLeft
  <2>2. ~rolling /\ pc \in Loops /\ k' \in Nat /\ applied = 1 .. k'
    BY <1>b, <2>1 DEF IInv, InvPosition
  <2>3. \A i \in Indices : fs'[ops[i].backup] = fs[ops[i].backup]
    BY <1>a, <1>c, PlanFacts, PathFacts DEF IInv
  <2>4. \A i \in Writes : fs'[ops[i].tmp] = fs[ops[i].tmp]
    BY <1>a, <1>c, PlanFacts, PathFacts DEF IInv
  <2>5. ASSUME NEW t \in Paths,
               t \notin Targets => fs[t] \in {Absent, Torn},
               pc = "fillTmp" => t = op.tmp \/ op.tmp \in writtenTmps,
               pc = "fillBackup" => t = op.backup
        PROVE  \E u \in Paths : Stray(u)'
    <3>1. t \notin Targets => fs'[t] \in {Absent, Torn}
      BY <1>a, <1>c, <2>5, MemberFacts DEF IInv
    <3>2. \A i \in Writes :
            ops[i].tmp # t /\ ops[i].tmp \notin writtenTmps => fs'[ops[i].tmp] = Absent
      BY <2>2, <2>4, <2>5 DEF CleanupInv, InvHeld
    <3>3. \A i \in Indices : ops[i].backup # t =>
            fs'[ops[i].backup] = Absent \/ (i \in existed /\ i <= k')
      BY <1>f, <2>2, <2>3, <2>5 DEF CleanupInv, InvHeld
    <3>4. Stray(t)'
      BY <3>1, <3>2, <3>3, SamePlan DEF Stray
    <3>5. QED
      BY <3>4
  <2>6. CASE pc = "fillTmp" /\ op.tmp \notin writtenTmps
    <3>1. op.tmp \in Paths /\ k \in Writes
      BY <1>a, <2>6 DEF IInv, InvPosition
    <3>2. fs[op.tmp] \in {Absent, Torn}
      BY <2>2, <2>6, <3>1 DEF CleanupInv, InvHeld
    <3>3. QED
      BY <2>5, <2>6, <3>1, <3>2
  <2>7. CASE pc = "fillBackup"
    <3>1. op.backup \in Paths /\ k \in Indices /\ k \notin existed
      BY <1>a, <1>f, <2>2, <2>7 DEF IInv, InvPosition
    <3>2. fs[op.backup] \in {Absent, Torn}
      BY <2>2, <2>7, <3>1 DEF CleanupInv, InvHeld
    <3>3. QED
      BY <2>5, <2>7, <3>1, <3>2
  <2>8. CASE pc # "fillBackup" /\ (pc = "fillTmp" => op.tmp \in writtenTmps)
    <3>1. op.target \in Paths /\ op.target \in Targets
      BY <1>a, MemberFacts DEF IInv
    <3>2. QED
      BY <2>5, <2>8, <3>1
  <2>9. QED
    BY <2>6, <2>7, <2>8
<1>5. QED
  BY <1>1, <1>2, <1>3, <1>4 DEF CleanupInv

\* Directories are noted before they are made.
LEMMA MakeParentsCleans ==
  ASSUME IInv, CleanupInv, MakeParents
  PROVE  CleanupInv'
<1>1. /\ k \in Writes /\ ~rolling /\ applied = {}
      /\ UNCHANGED <<fs, before, ops, applied, existed, writtenTmps, buffer>>
  BY Here DEF MakeParents, IInv, InvPosition
<1>2. dirs' \ createdDirs' = dirs \ createdDirs
  BY DEF MakeParents
<1>3. CASE RaiseForward
  BY <1>1, <1>2, <1>3, RaiseCleans DEF MakeParents, Raise, Loops
<1>4. CASE pc' = "openTmp" /\ UNCHANGED <<k, rolling, report>>
  <2>1. InvOrder' /\ InvDirs' /\ InvLeft'
    BY <1>1, <1>4, SamePlan
    DEF CleanupInv, InvOrder, InvDirs, OldDirs, InvLeft, MakeParents
  <2>2. InvHeld'
    BY <1>4, SamePlan DEF CleanupInv, InvHeld, Loops, MakeParents
  <2>3. QED
    BY <2>1, <2>2 DEF CleanupInv
<1>5. QED
  BY <1>3, <1>4 DEF MakeParents

\* The rename of _replace_path, in both directions.
LEMMA ReplaceCleans ==
  ASSUME IInv, CleanupInv, Replace
  PROVE  CleanupInv'
<1>a. /\ UNCHANGED <<ops, before, dirs, createdDirs, applied, existed, rolling,
                      report>>
      /\ pc' # "failed" /\ pc # "failed"
  BY DEF Replace, Moving, NextInstall, RollBackFrom, Moved
<1>b. DistinctPaths /\ AtOperation
  BY Running, Here DEF Replace, Moving
<1>d. /\ \A x \in Paths \ {op.target, source} : fs'[x] = fs[x]
      /\ fs' \in [Paths -> Contents]
  BY <1>b DEF IInv, TypeOK, Replace, source
<1>1. InvOrder'
  BY <1>a, <1>b, <1>d, SamePlan, PathFacts, PlanFacts, MemberFacts, AfterFacts
  DEF IInv, CleanupInv, InvOrder, InvPosition, InvApplied, InvSaved, InvTmps,
      InvCopy, InvInstalled, Incoming, TypeOK,
      Replace, Moving, source, NextInstall, RollBackFrom, Moved
<1>2. InvDirs'
  BY <1>a DEF CleanupInv, InvDirs, OldDirs
<1>3. InvHeld'
  <2>1. CASE rolling
    BY <1>a, <2>1
    DEF IInv, InvPosition, InvHeld, Replace, Moving, Moved, RollBackFrom
  <2>2. CASE ~rolling
    <3>1. source = op.tmp /\ k \in Writes
      BY <2>2 DEF source, Replace, Moving
    <3>2. /\ \A i \in Writes : i # k => fs'[ops[i].tmp] = fs[ops[i].tmp]
          /\ fs'[op.tmp] = Absent
          /\ \A i \in Indices : fs'[ops[i].backup] = fs[ops[i].backup]
      BY <1>b, <1>d, <3>1, PathFacts, PlanFacts DEF IInv, TypeOK, Replace
    <3>3. /\ writtenTmps' = writtenTmps \ {op.tmp}
          /\ \/ k < Len(ops) /\ k' = k + 1 /\ pc' = "look"
             \/ k = Len(ops) /\ k' = k /\ pc' = "sweepBackups"
      BY <1>b, <2>2 DEF Replace, Moved, NextInstall, IInv, TypeOK
    <3>4. \A i \in Writes : i \in Nat /\ i <= Len(ops) /\ Len(ops) \in Nat
      BY PlanFacts DEF IInv
    <3>5. \A i \in Writes : fs'[ops[i].tmp] = Absent \/ ops[i].tmp \in writtenTmps'
      BY <1>b, <2>2, <3>1, <3>2, <3>3, PathFacts
      DEF CleanupInv, InvHeld, Loops, Replace, Moving
    <3>6. \A i \in Writes : i <= k => fs'[ops[i].tmp] = Absent
      <4>1. \A i \in Writes : i < k => fs[ops[i].tmp] = Absent
        BY <2>2 DEF CleanupInv, InvHeld, Replace, Moving
      <4>2. \A i \in Writes : i <= k => i < k \/ i = k
        BY <1>b, <3>4
      <4>3. QED
        BY <1>b, <3>2, <3>4, <4>1, <4>2
    <3>7. \A i \in Indices : fs'[ops[i].backup] = Absent \/ i \in existed
      BY <2>2, <3>2 DEF CleanupInv, InvHeld, Loops, Replace, Moving
    <3>8. QED
      <4>1. Committed' => pc' = "sweepBackups"
        BY <3>3
      <4>2. \A i \in Writes : (i < k' \/ Committed') => i <= k
        BY <1>b, <3>3, <3>4, <4>1
      <4>3. QED
        BY <1>a, <3>3, <3>5, <3>6, <3>7, <4>2, SamePlan DEF InvHeld
  <2>3. QED
    BY <2>1, <2>2
<1>4. InvLeft'
  BY <1>a, <1>b, <1>d, SamePlan, PathFacts, PlanFacts, MemberFacts
  DEF IInv, CleanupInv, InvLeft, Stray, InvPosition, TypeOK,
      Replace, Moving, source, NextInstall, RollBackFrom, Moved
<1>5. QED
  BY <1>1, <1>2, <1>3, <1>4 DEF CleanupInv

\* The source of a copy is unlinked.
LEMMA UnlinkSourceCleans ==
  ASSUME IInv, CleanupInv, UnlinkSource
  PROVE  CleanupInv'
<1>a. /\ UNCHANGED <<ops, before, dirs, createdDirs, applied, existed, rolling,
                      report>>
      /\ pc' # "failed" /\ pc # "failed"
  BY DEF UnlinkSource, NextInstall, RollBackFrom, Moved
<1>b. DistinctPaths /\ AtOperation
  BY Running, Here DEF UnlinkSource, Moving
<1>d. /\ \A x \in Paths \ {source} : fs'[x] = fs[x]
      /\ fs' \in [Paths -> Contents]
  BY DEF IInv, TypeOK, UnlinkSource
<1>1. InvOrder'
  BY <1>a, <1>b, <1>d, SamePlan, PathFacts, PlanFacts, MemberFacts, AfterFacts
  DEF IInv, CleanupInv, InvOrder, InvPosition, InvApplied, InvSaved, InvTmps,
      InvCopy, InvInstalled, Incoming, TypeOK,
      UnlinkSource, Moving, source, NextInstall, RollBackFrom, Moved
<1>2. InvDirs'
  BY <1>a DEF CleanupInv, InvDirs, OldDirs
<1>3. InvHeld'
  BY <1>a, <1>b, <1>d, SamePlan, PathFacts, PlanFacts, MemberFacts
  DEF IInv, CleanupInv, InvHeld, Loops, InvPosition, TypeOK,
      UnlinkSource, Moving, source, NextInstall, RollBackFrom, Moved
<1>4. InvLeft'
  BY <1>a, SamePlan, PathFacts, PlanFacts
  DEF IInv, CleanupInv, InvLeft, Stray, TypeOK, UnlinkSource, source,
      NextInstall, RollBackFrom, Moved
<1>5. QED
  BY <1>1, <1>2, <1>3, <1>4 DEF CleanupInv

\* The copy is undone, and the error raised.
LEMMA UndoCopyCleans ==
  ASSUME IInv, CleanupInv, UndoCopy
  PROVE  CleanupInv'
<1>1. /\ UNCHANGED <<before, ops, applied, existed, writtenTmps, dirs, createdDirs>>
      /\ pc \in Loops /\ Raise
  BY DEF UndoCopy, Loops
<1>2. k \in applied
  BY Here DEF IInv, InvPosition, UndoCopy, TypeOK
<1>3. fs' = fs \/ fs' = [fs EXCEPT ![op.target] = Absent]
  BY DEF UndoCopy
<1>4. QED
  BY <1>1, <1>2, <1>3, RaiseCleans

\* A failing file system call.
LEMMA FailCleans ==
  ASSUME IInv, CleanupInv, Fail
  PROVE  CleanupInv'
BY RaiseCleans DEF Fail, Fallible, Loops

\* An operation is undone.
LEMMA UndoCleans ==
  ASSUME IInv, CleanupInv, Undo
  PROVE  CleanupInv'
<1>a. /\ UNCHANGED <<ops, before, dirs, createdDirs, applied, existed,
                      writtenTmps, rolling, report>>
      /\ pc' # "failed" /\ pc # "failed"
  BY DEF Undo, RollBackFrom
<1>b. DistinctPaths /\ AtOperation
  BY Running, Here DEF Undo
<1>d. /\ \A x \in Paths \ {op.target} : fs'[x] = fs[x]
      /\ fs' \in [Paths -> Contents]
  BY <1>b DEF IInv, TypeOK, Undo
<1>1. InvOrder'
  BY <1>b, SamePlan, PathFacts, PlanFacts
  DEF IInv, CleanupInv, InvOrder, InvPosition, InvApplied, TypeOK, Undo,
      RollBackFrom
<1>2. InvDirs'
  BY <1>a DEF CleanupInv, InvDirs, OldDirs
<1>3. InvHeld'
  BY DEF IInv, InvPosition, InvHeld, Undo, RollBackFrom
<1>4. InvLeft'
  BY <1>a, <1>b, <1>d, SamePlan, PlanFacts
  DEF IInv, CleanupInv, InvLeft, Stray, InvPosition, Undo, RollBackFrom
<1>5. QED
  BY <1>1, <1>2, <1>3, <1>4 DEF CleanupInv

\* The temporary files are unlinked.
LEMMA SweepTmpsCleans ==
  ASSUME IInv, CleanupInv, SweepTmps
  PROVE  CleanupInv'
<1>a. UNCHANGED <<ops, before, dirs, createdDirs, applied, existed, rolling, k>>
      /\ pc' = "sweepDirs" /\ writtenTmps' = {} /\ rolling /\ k = 0
  BY DEF SweepTmps, IInv, InvPosition
<1>b. DistinctPaths
  BY Running DEF SweepTmps
<1>c. PICK stuck \in SUBSET {x \in writtenTmps : Exists(x)} :
        Unlink(writtenTmps, stuck) /\ report' = (report \/ stuck # {})
  BY DEF SweepTmps
<1>d. \A x \in Paths : fs'[x] = fs[x] \/ (x \in writtenTmps /\ fs'[x] = Absent)
  BY <1>c DEF Unlink
<1>1. InvOrder'
  <2>1. \A i \in Indices : fs'[ops[i].target] = fs[ops[i].target]
    BY <1>b, <1>d, PlanFacts, MemberFacts DEF IInv, InvOthers, DistinctPaths
  <2>2. applied \subseteq Indices
    BY DEF IInv, TypeOK
  <2>3. QED
    BY <1>a, <2>1, <2>2, SamePlan DEF CleanupInv, InvOrder
<1>2. InvDirs'
  BY DEF CleanupInv, InvDirs, OldDirs, SweepTmps
<1>3. InvHeld'
  BY <1>a DEF InvHeld
<1>4. InvLeft'
  <2>1. SUFFICES ASSUME ~report' PROVE \E t \in Paths : Stray(t)'
    BY <1>a DEF InvLeft
  <2>2. ~report /\ stuck = {}
    BY <1>c, <2>1 DEF IInv, TypeOK
  <2>3. PICK t \in Paths : Stray(t)
    BY <1>a, <2>2 DEF CleanupInv, InvLeft
  <2>4. \A x \in Paths : fs'[x] = IF x \in writtenTmps THEN Absent ELSE fs[x]
    BY <1>c, <2>2 DEF Unlink
  <2>5. Stray(t)'
    BY <1>a, <2>3, <2>4, PlanFacts, SamePlan DEF Stray, IInv
  <2>6. QED
    BY <2>5
<1>5. QED
  BY <1>1, <1>2, <1>3, <1>4 DEF CleanupInv

\* The directories are removed.
LEMMA SweepDirsCleans ==
  ASSUME IInv, CleanupInv, SweepDirs
  PROVE  CleanupInv'
<1>a. UNCHANGED <<ops, before, fs, applied, existed, rolling, k, writtenTmps>>
      /\ pc = "sweepDirs" /\ pc' = "failed" /\ rolling
  BY DEF SweepDirs, IInv, InvPosition
<1>b. PICK stuck \in SUBSET (createdDirs \intersect dirs) :
        /\ dirs' = (dirs \ createdDirs) \union stuck
        /\ report' = (report \/ stuck # {})
  BY DEF SweepDirs
<1>1. InvOrder'
  BY <1>a, SamePlan DEF CleanupInv, InvOrder
<1>2. InvDirs'
  <2>1. ASSUME ~report' PROVE stuck = {}
    BY <1>b, <2>1 DEF IInv, TypeOK
  <2>2. QED
    BY <1>a, <1>b, <2>1 DEF CleanupInv, InvDirs, OldDirs
<1>3. InvHeld'
  BY <1>a DEF InvHeld
<1>4. InvLeft'
  <2>1. report' \/ ~report
    BY <1>b DEF IInv, TypeOK
  <2>2. QED
    BY <1>a, <2>1, SamePlan DEF CleanupInv, InvLeft, Stray
<1>5. QED
  BY <1>1, <1>2, <1>3, <1>4 DEF CleanupInv

\* The backups of a call that succeeded are unlinked.
LEMMA SweepBackupsCleans ==
  ASSUME IInv, CleanupInv, SweepBackups
  PROVE  CleanupInv'
<1>a. /\ UNCHANGED <<ops, before, dirs, createdDirs, applied, existed, rolling,
                      k, writtenTmps>>
      /\ pc = "sweepBackups" /\ pc' = "committed" /\ ~rolling
  BY DEF SweepBackups, IInv, InvPosition
<1>b. DistinctPaths
  BY Running DEF SweepBackups
<1>c. PICK stuck \in SUBSET {x \in Backups : Exists(x)} :
        Unlink(Backups, stuck) /\ report' = (stuck # {})
  BY DEF SweepBackups
<1>d. \A x \in Paths : fs'[x] = fs[x] \/ (x \in Backups /\ fs'[x] = Absent)
  BY <1>c DEF Unlink
<1>1. InvOrder'
  <2>1. \A i \in Indices : fs'[ops[i].target] = fs[ops[i].target]
    BY <1>b, <1>d, PlanFacts, MemberFacts DEF IInv, DistinctPaths
  <2>2. QED
    BY <1>a, <2>1, SamePlan DEF CleanupInv, InvOrder
<1>2. InvDirs'
  BY <1>a DEF CleanupInv, InvDirs, OldDirs
<1>3. InvHeld'
  <2>1. \A i \in Writes : fs'[ops[i].tmp] = fs[ops[i].tmp]
    BY <1>b, <1>d, PlanFacts, MemberFacts DEF IInv, DistinctPaths
  <2>2. ~report' => \A x \in Backups : fs'[x] = Absent
    <3>1. Backups \subseteq Paths
      BY PlanFacts DEF Backups, IInv
    <3>2. QED
      BY <1>c, <3>1 DEF Unlink
  <2>3. QED
    BY <1>a, <2>1, <2>2, SamePlan DEF CleanupInv, InvHeld, Loops
<1>4. InvLeft'
  BY <1>a DEF InvLeft
<1>5. QED
  BY <1>1, <1>2, <1>3, <1>4 DEF CleanupInv

\* The process dies.
LEMMA CrashCleans ==
  ASSUME IInv, CleanupInv, Crash
  PROVE  CleanupInv'
<1>a. UNCHANGED <<fs, dirs, before, ops, k, rolling, applied, existed, writtenTmps,
                  createdDirs, report>>
      /\ pc \notin Ended
      /\ pc' = IF pc = "sweepBackups" THEN "crashedAfterCommit" ELSE "crashed"
  BY DEF Crash
<1>1. InvOrder' /\ InvDirs'
  BY <1>a, SamePlan DEF CleanupInv, InvOrder, InvDirs, OldDirs
<1>2. InvHeld'
  BY <1>a, SamePlan DEF CleanupInv, InvHeld, Loops
<1>3. InvLeft'
  BY <1>a, SamePlan DEF CleanupInv, InvLeft, Stray
<1>4. QED
  BY <1>1, <1>2, <1>3 DEF CleanupInv

\* A call has left nothing yet.
LEMMA InitCleans == Init => CleanupInv
<1> SUFFICES ASSUME Init PROVE CleanupInv
  OBVIOUS
<1>1. InvOrder /\ InvLeft
  BY DEF Init, InvOrder, InvLeft
<1>2. InvDirs
  BY DEF Init, InvDirs, OldDirs
<1>3. InvHeld
  BY DEF Init, InvHeld, Loops
<1>4. QED
  BY <1>1, <1>2, <1>3 DEF CleanupInv

\* The second invariant, next to IInv.
THEOREM CleanupInvariance == Spec => []CleanupInv
<1>1. IInv /\ CleanupInv /\ [Next]_vars => CleanupInv'
  <2> SUFFICES ASSUME IInv, CleanupInv, [Next]_vars PROVE CleanupInv'
    OBVIOUS
  <2>1. CASE Forwards
    BY <2>1, ValidateCleans, SkipDeleteCleans, MakeParentsCleans, OpenTmpCleans,
       FillTmpCleans, LookCleans, OpenBackupCleans, FillBackupCleans,
       DeleteTargetCleans DEF Forwards
  <2>2. CASE Moves
    BY <2>2, ReplaceCleans, FallBackCleans, OpenCopyCleans, FillCopyCleans,
       UnlinkSourceCleans, UndoCopyCleans DEF Moves
  <2>3. CASE Cleanups
    BY <2>3, UndoCleans, SweepTmpsCleans, SweepDirsCleans, SweepBackupsCleans
    DEF Cleanups
  <2>4. CASE Fail
    BY <2>4, FailCleans
  <2>5. CASE Crash
    BY <2>5, CrashCleans
  <2>6. CASE UNCHANGED vars
    <3>1. UNCHANGED <<fs, dirs, before, ops, pc, k, rolling, applied, existed,
                      writtenTmps, createdDirs, buffer, report>>
      BY <2>6 DEF vars, locals
    <3>2. InvOrder' /\ InvDirs'
      BY <3>1, SamePlan DEF CleanupInv, InvOrder, InvDirs, OldDirs
    <3>3. InvHeld' /\ InvLeft'
      BY <3>1, SamePlan DEF CleanupInv, InvHeld, Loops, InvLeft, Stray
    <3>4. QED
      BY <3>2, <3>3 DEF CleanupInv
  <2>7. QED
    BY <2>1, <2>2, <2>3, <2>4, <2>5, <2>6 DEF Next, Step
<1>2. QED
  BY InitCleans, Invariance, <1>1, PTL DEF Spec

-----------------------------------------------------------------------------
(* The guarantees.                                                         *)

\* The types of the files and of the locals of a call.
THEOREM TypeCorrect == Spec => []TypeOK
<1>1. IInv => TypeOK
  BY DEF IInv
<1>2. QED
  BY Invariance, <1>1, PTL

\* The targets are always those of the first operations done, the one at
\* hand aside, unless the rollback has met an error.
THEOREM InOrder == Spec => []CutInOrder
<1>1. IInv /\ CleanupInv => CutInOrder
  <2>1. SUFFICES ASSUME IInv, CleanupInv, ~report \/ Committed
                 PROVE  \E m \in Indices : \A i \in Indices :
                          /\ i < m => fs[ops[i].target] = After(i)
                          /\ i > m => fs[ops[i].target] = before[ops[i].target]
    BY DEF CutInOrder, CleanupInv, InvOrder
  <2>2. /\ Len(ops) \in Nat /\ Indices = 1 .. Len(ops) /\ 1 \in Indices
        /\ applied \subseteq Indices /\ existed \subseteq applied
    BY <2>1, PlanFacts DEF IInv, TypeOK
  <2>3. \A i \in Indices \ applied : fs[ops[i].target] = before[ops[i].target]
    BY <2>1 DEF IInv, InvApplied
  <2>4. CASE ~rolling /\ applied = {}
    <3>1. \A i \in Indices : fs[ops[i].target] = before[ops[i].target] /\ ~(i < 1)
      BY <2>2, <2>3, <2>4
    <3>2. QED
      BY <2>2, <3>1
  <2>5. CASE ~rolling /\ applied # {}
    <3>1. /\ 1 .. (k - 1) \subseteq applied /\ applied \subseteq 1 .. k
          /\ k \in 0 .. Len(ops)
      BY <2>1, <2>5 DEF CleanupInv, InvOrder, IInv, TypeOK
    <3>2. k \in Indices
      <4>1. PICK i \in applied : i \in 1 .. k
        BY <2>5, <3>1
      <4>2. QED
        BY <2>2, <3>1, <4>1
    <3>3. \A i \in Indices : i < k => fs[ops[i].target] = After(i)
      BY <2>1, <2>2, <2>5, <3>1, <3>2 DEF IInv, InvInstalled
    <3>4. \A i \in Indices : i > k => i \notin applied
      BY <2>2, <3>1, <3>2
    <3>5. QED
      BY <2>3, <3>2, <3>3, <3>4
  <2>6. CASE rolling
    <3>1. /\ k \in 0 .. Len(ops) /\ (k = 0 \/ k \in applied) /\ ~Committed
          /\ \A i \in applied : 1 .. i \subseteq applied
      BY <2>1, <2>6 DEF CleanupInv, InvOrder, IInv, InvPosition, TypeOK
    <3>2. \A i \in Indices : i > k => fs[ops[i].target] = before[ops[i].target]
      BY <2>1, <2>3, <2>6, <3>1 DEF IInv, InvUndone
    <3>3. CASE k = 0
      <4>1. \A i \in Indices : i > k /\ ~(i < 1)
        BY <2>2, <3>3
      <4>2. QED
        BY <2>2, <3>2, <4>1
    <3>4. CASE k \in applied
      <4>1. \A i \in Indices : i < k => i \in applied
        BY <2>2, <3>1, <3>4
      <4>2. \A i \in Indices : i < k => fs[ops[i].target] = After(i)
        BY <2>1, <2>6, <4>1 DEF CleanupInv, InvOrder
      <4>3. QED
        BY <2>2, <3>2, <3>4, <4>2
    <3>5. QED
      BY <3>1, <3>3, <3>4
  <2>7. QED
    BY <2>4, <2>5, <2>6
<1>2. QED
  BY Invariance, CleanupInvariance, <1>1, PTL

\* Where the files that are no targets come from.
LEMMA Sidecar ==
  ASSUME IInv, NEW x \in Paths \ Targets
  PROVE  \/ fs[x] = before[x]
         \/ \E i \in Writes : x = ops[i].tmp /\ before[x] = Absent
         \/ \E i \in Indices : x = ops[i].backup /\ before[x] = Absent
<1>1. x \notin Tmps \union Backups => fs[x] = before[x]
  BY DEF IInv, InvOthers
<1>2. fs # before => before[x] = Absent \/ x \notin Tmps \union Backups
  BY DEF IInv, InvChecked
<1>3. QED
  BY <1>1, <1>2 DEF Tmps, Backups

\* A call that returns without a warning leaves no sidecar.
THEOREM QuietCommit == Spec => []QuietCommitLeavesNoSidecar
<1>1. IInv /\ CleanupInv => QuietCommitLeavesNoSidecar
  <2>1. SUFFICES ASSUME IInv, CleanupInv, pc = "committed", ~report,
                        NEW x \in Paths \ Targets
                 PROVE  fs[x] = before[x]
    BY DEF QuietCommitLeavesNoSidecar
  <2>2. ~rolling
    BY <2>1 DEF IInv, InvPosition
  <2>3. /\ \A i \in Writes : fs[ops[i].tmp] = Absent
        /\ \A y \in Backups : fs[y] = Absent
    BY <2>1, <2>2 DEF CleanupInv, InvHeld
  <2>4. QED
    BY <2>1, <2>3, Sidecar, MemberFacts
<1>2. QED
  BY Invariance, CleanupInvariance, <1>1, PTL

\* A failure reported as clean leaves at most one sidecar, a torn one.
THEOREM OneStraySidecar == Spec => []CleanFailureLeavesAtMostOneSidecar
<1>1. IInv /\ CleanupInv => CleanFailureLeavesAtMostOneSidecar
  <2>1. SUFFICES ASSUME IInv, CleanupInv, pc = "failed", ~report
                 PROVE  \E t \in Paths : \A x \in Paths \ Targets :
                          fs[x] = before[x] \/ (x = t /\ fs[x] = Torn)
    BY DEF CleanFailureLeavesAtMostOneSidecar
  <2>2. rolling /\ k = 0 /\ writtenTmps = {}
    BY <2>1 DEF IInv, InvPosition, CleanupInv, InvLeft
  <2>3. PICK t \in Paths : Stray(t)
    BY <2>1, <2>2 DEF CleanupInv, InvLeft
  <2>4. \A i \in existed : ~(i <= k)
    BY <2>1, <2>2, PlanFacts DEF IInv, TypeOK
  <2>5. ASSUME NEW x \in Paths \ Targets
        PROVE  fs[x] = before[x] \/ (x = t /\ fs[x] = Torn)
    <3>1. CASE x = t
      <4>1. fs[x] \in {Absent, Torn}
        BY <2>3, <3>1 DEF Stray
      <4>2. QED
        BY <2>1, <3>1, <4>1, Sidecar
    <3>2. CASE x # t
      BY <2>1, <2>2, <2>3, <2>4, <3>2, Sidecar DEF Stray
    <3>3. QED
      BY <3>1, <3>2
  <2>6. QED
    BY <2>5
<1>2. QED
  BY Invariance, CleanupInvariance, <1>1, PTL

\* A failure reported as clean leaves the directories as they were.
THEOREM DirsRemoved == Spec => []CleanFailureRemovesDirs
<1>1. CleanupInv => CleanFailureRemovesDirs
  BY DEF CleanupInv, InvDirs, OldDirs, CleanFailureRemovesDirs
<1>2. QED
  BY CleanupInvariance, <1>1, PTL

-----------------------------------------------------------------------------
(* What other modules build on.                                            *)

\* Each file of a call is seen and left as TransactionContract says, and a
\* sidecar that was there before keeps the call from touching any file.
THEOREM ContractKept == Spec => []KeepsContract
<1>1. IInv /\ CleanupInv => KeepsContract
  <2>1. SUFFICES ASSUME IInv, CleanupInv, NEW i \in Indices, NEW x, NEW end,
                        x = ops[i].target,
                        end = [text |-> fs[x],
                               sidecar |-> \E y \in Sidecars(i) : Exists(y)]
                 PROVE  /\ fs[x] \in Contract!Visible(before[x], After(i))
                        /\ pc \in Ended =>
                             end \in Contract!Endings(Outcome, before[x], After(i))
                        /\ (\E y \in Sidecars(i) : before[y] # Absent) =>
                             fs = before /\ ~Committed
    BY DEF KeepsContract
  <2>2. fs[x] \in Contract!Visible(before[x], After(i))
    BY <2>1 DEF CleanupInv, InvOrder, Contract!Visible
  <2>3. end.text = fs[x] /\ end.sidecar \in BOOLEAN
    BY <2>1
  <2>4. ASSUME pc \in Ended
        PROVE  end \in Contract!Endings(Outcome, before[x], After(i))
    <3>1. CASE Committed
      <4>1. fs[x] = After(i)
        BY <2>1, <3>1, CompleteWhenCommitted DEF CommitIsComplete, Installed
      <4>2. QED
        BY <2>1, <2>3, <3>1, <4>1 DEF Outcome, Contract!Endings
    <3>2. CASE pc = "refused" \/ (pc = "failed" /\ ~report)
      <4>1. fs[x] = before[x]
        BY <2>1, <3>2, MemberFacts, RestoredWhenClean
        DEF CleanFailureRestores, IInv, InvChecked
      <4>2. Outcome = "unchanged"
        BY <3>2 DEF Outcome
      <4>3. QED
        BY <2>1, <2>3, <4>1, <4>2 DEF Contract!Endings
    <3>3. CASE ~Committed /\ ~(pc = "refused" \/ (pc = "failed" /\ ~report))
      <4>1. before[x] \in {Absent, fs[x], fs[ops[i].backup]}
        BY <2>1, <3>3, OriginalKept
      <4>2. fs[x] = before[x] \/ before[x] = Absent \/ end.sidecar
        BY <2>1, <4>1 DEF Sidecars
      <4>3. Outcome = "interrupted"
        BY <2>4, <3>3 DEF Outcome
      <4>4. QED
        BY <2>1, <2>2, <2>3, <4>2, <4>3 DEF Contract!Endings
    <3>4. QED
      BY <3>1, <3>2, <3>3
  <2>5. ASSUME NEW y \in Sidecars(i), before[y] # Absent
        PROVE  fs = before /\ ~Committed
    <3>1. y \in Backups \union Tmps
      BY <2>1, <2>5, MemberFacts DEF Sidecars
    <3>2. QED
      BY <2>1, <2>5, <3>1 DEF IInv, InvChecked
  <2>6. QED
    BY <2>2, <2>4, <2>5
<1>2. QED
  BY Invariance, CleanupInvariance, <1>1, PTL
=============================================================================
