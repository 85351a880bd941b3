------------------------ MODULE FileTransaction_proofs ------------------------
(***************************************************************************)
(* Proofs about FileTransaction, for every set of paths, every plan and    *)
(* every file system that a call may find.  IInv is inductive: one lemma   *)
(* per action shows that the action preserves it, with one step for each   *)
(* of its conjuncts.  An error raised inside a loop is treated once, in    *)
(* RaisePreserves.  The guarantees and the refinement follow from IInv.    *)
(***************************************************************************)
EXTENDS FileTransaction, TLAPS

USE DEF shared, Stages, Ended, PrepareStages, SaveStages, MoveStages,
        FailedStages, Committed, op, Exists, Put, Contents

-----------------------------------------------------------------------------
(* The plan, and where the call is in it.                                  *)

\* The types of the operations.
LEMMA PlanFacts ==
  ASSUME TypeOK
  PROVE  /\ Len(ops) \in Nat /\ Indices = 1 .. Len(ops) /\ Len(ops) # 0
         /\ Writes \subseteq Indices
         /\ \A i \in Indices : /\ ops[i].target \in Paths /\ ops[i].tmp \in Paths
                               /\ ops[i].backup \in Paths /\ ops[i].text \in Texts
<1>1. Len(ops) \in Nat /\ Indices = 1 .. Len(ops) /\ Len(ops) # 0
  BY DEF TypeOK, Indices
<1>2. \A i \in Indices : ops[i] \in Operations
  BY <1>1 DEF TypeOK
<1>3. QED
  BY <1>1, <1>2 DEF Operations, Writes

\* A valid plan uses no path for two purposes.
LEMMA PathFacts ==
  ASSUME DistinctPaths
  PROVE  /\ \A i, j \in Indices :
              /\ ops[i].target # ops[j].backup
              /\ i # j => /\ ops[i].target # ops[j].target
                          /\ ops[i].backup # ops[j].backup
         /\ \A i \in Writes : \A j \in Indices :
              ops[i].tmp # ops[j].target /\ ops[i].tmp # ops[j].backup
         /\ \A i, j \in Writes : i # j => ops[i].tmp # ops[j].tmp
  BY DEF DistinctPaths, Targets, Backups, Tmps

\* Every path of an operation is in the set of its kind.
LEMMA MemberFacts ==
  /\ \A i \in Indices : ops[i].target \in Targets /\ ops[i].backup \in Backups
  /\ \A i \in Writes : ops[i].tmp \in Tmps
  BY DEF Targets, Backups, Tmps

\* What After is.
LEMMA AfterFacts ==
  /\ \A i \in Writes : After(i) = ops[i].text
  /\ \A i \in Indices \ Writes : After(i) = Absent
  BY DEF After

\* What depends on the plan alone does not change while the plan does not.
LEMMA SamePlan ==
  ASSUME UNCHANGED ops
  PROVE  /\ Indices' = Indices /\ Writes' = Writes
         /\ Targets' = Targets /\ Backups' = Backups /\ Tmps' = Tmps
         /\ DistinctPaths' = DistinctPaths
         /\ \A i : After(i)' = After(i)
  BY DEF Indices, Writes, Targets, Backups, Tmps, DistinctPaths, After

\* Past the check the plan is valid.
LEMMA Running ==
  ASSUME IInv, pc \notin {"validate", "refused", "crashed"}
  PROVE  DistinctPaths
  BY DEF IInv, InvChecked

\* The intervals that applied runs through.
LEMMA Interval ==
  /\ 1 .. 0 = {}
  /\ \A n \in Nat \ {0} : 1 .. n = (1 .. (n - 1)) \union {n}
  OBVIOUS

\* The operation that the loops are at.
AtOperation ==
  /\ k \in Indices /\ k \in Nat /\ 1 <= k /\ k <= Len(ops)
  /\ op.target \in Paths \intersect Targets
  /\ op.backup \in Paths \intersect Backups
  /\ k \in Writes => op.tmp \in Paths \intersect Tmps
  /\ op.text \in Texts /\ op.tmp \in Paths
USE DEF AtOperation

\* The loops are at an operation of the plan.
LEMMA Here ==
  ASSUME IInv, pc \in PrepareStages \union SaveStages \union MoveStages \union {"undo"}
  PROVE  AtOperation
<1>1. k \in Indices /\ Len(ops) \in Nat /\ Indices = 1 .. Len(ops)
  BY PlanFacts DEF IInv, InvPosition, TypeOK
<1>2. QED
  BY <1>1, PlanFacts, MemberFacts DEF IInv

\* Where the rollback goes on.
LEMMA RollBackFacts ==
  ASSUME TypeOK, NEW m \in Nat, m = 0 \/ m \in applied, RollBackFrom(m)
  PROVE  /\ k' = m
         /\ \/ pc' = "sweepTmps" /\ k' = 0
            \/ pc' = "undo" /\ k' \in applied
  BY DEF RollBackFrom, TypeOK

\* Where an error leads, from either direction.
LEMMA RaiseFacts ==
  ASSUME IInv, Raise,
         pc \in PrepareStages \union SaveStages \union MoveStages \union {"undo"}
  PROVE  /\ k' \in Nat /\ rolling'
         /\ \/ pc' = "sweepTmps" /\ k' = 0
            \/ pc' = "undo" /\ k' \in applied
         /\ ~rolling => applied = 1 .. k' /\ report' = report
         /\ rolling => k' = k - 1 /\ report' = TRUE
<1>0. k \in Indices /\ k \in Nat /\ 1 <= k
  BY Here
<1>1. CASE rolling
  <2>1. k - 1 \in Nat /\ (k - 1 = 0 \/ k - 1 \in applied)
    BY <1>0, <1>1 DEF IInv, InvPosition, TypeOK
  <2>2. RollBackFrom(k - 1) /\ rolling' = rolling /\ report' = TRUE
    BY <1>1 DEF Raise, RaiseInRollback
  <2>3. QED
    BY <1>1, <2>1, <2>2, RollBackFacts DEF IInv
<1>2. CASE ~rolling
  <2> DEFINE m == IF applied = {} THEN 0 ELSE IF k \in applied THEN k ELSE k - 1
  <2>1. m \in Nat /\ applied = 1 .. m
    <3>1. CASE pc \in PrepareStages
      BY <1>0, <3>1, Interval DEF IInv, InvPosition
    <3>2. CASE pc \in SaveStages
      <4>1. applied = 1 .. (k - 1) /\ k \notin applied
        BY <1>0, <3>2 DEF IInv, InvPosition
      <4>2. CASE k = 1
        BY <4>1, <4>2, Interval
      <4>3. CASE k # 1
        <5>1. k - 1 \in Nat /\ k - 1 \in applied
          BY <1>0, <4>1, <4>3
        <5>2. QED
          BY <4>1, <5>1
      <4>4. QED
        BY <4>2, <4>3
    <3>3. CASE pc \in MoveStages
      <4>1. applied = 1 .. k /\ k \in applied
        BY <1>0, <1>2, <3>3 DEF IInv, InvPosition
      <4>2. QED
        BY <1>0, <4>1
    <3>4. QED
      BY <1>2, <3>1, <3>2, <3>3 DEF IInv, InvPosition
  <2>2. RollBackFrom(m) /\ rolling' = TRUE /\ report' = report
    BY <1>2 DEF Raise, RaiseForward
  <2>3. m = 0 \/ m \in applied
    BY <2>1
  <2> HIDE DEF m
  <2>4. QED
    BY <1>2, <2>1, <2>2, <2>3, RollBackFacts DEF IInv
<1>3. QED
  BY <1>1, <1>2

\* An error, with at most the target of the operation at hand unlinked.
LEMMA RaisePreserves ==
  ASSUME IInv, Raise, UNCHANGED <<before, ops, applied, existed>>,
         pc \in PrepareStages \union SaveStages \union MoveStages \union {"undo"},
         \/ fs' = fs
         \/ /\ k \in applied /\ k \in Writes \union existed
            /\ fs' = [fs EXCEPT ![op.target] = Absent],
         dirs' \subseteq Dirs, createdDirs' \subseteq Dirs,
         UNCHANGED <<writtenTmps, buffer>>
  PROVE  IInv'
<1>0. /\ \A x \in Paths \ {op.target} : fs'[x] = fs[x]
      /\ k \in Nat /\ k \in Indices /\ op.target \in Paths
  BY Here DEF IInv, TypeOK
<1>a. /\ k' \in Nat /\ rolling'
      /\ \/ pc' = "sweepTmps" /\ k' = 0
         \/ pc' = "undo" /\ k' \in applied
      /\ ~rolling => applied = 1 .. k' /\ report' = report
      /\ rolling => k' = k - 1 /\ report' = TRUE
  BY RaiseFacts
<1>b. DistinctPaths
  BY Running
<1>c. applied \subseteq Indices /\ existed \subseteq applied /\ Indices \subseteq Nat
  BY PlanFacts DEF IInv, TypeOK
<1> USE SamePlan
<1>1. TypeOK'
  <2>1. fs' \in [Paths -> Contents]
    BY <1>0 DEF IInv, TypeOK
  <2>2. k' \in 0 .. Len(ops)
    <3>1. applied \subseteq 1 .. Len(ops) /\ Len(ops) \in Nat
      BY PlanFacts DEF IInv, TypeOK
    <3>2. QED
      BY <1>a, <3>1
  <2>3. report' \in BOOLEAN /\ rolling' \in BOOLEAN
    BY DEF IInv, TypeOK, Raise, RaiseForward, RaiseInRollback
  <2>4. pc' \in Stages
    BY <1>a
  <2>5. QED
    BY <2>1, <2>2, <2>3, <2>4 DEF IInv, TypeOK
<1>2. InvChecked'
  BY <1>a, <1>b DEF IInv, InvChecked
<1>3. InvPosition'
  BY <1>a DEF IInv, InvPosition
<1>4. InvApplied'
  <2>1. \A i \in Indices : i \notin applied \/ i \notin Writes \union existed =>
          fs'[ops[i].target] = fs[ops[i].target]
    BY <1>0, <1>b, PathFacts, PlanFacts DEF IInv
  <2>2. QED
    BY <2>1 DEF IInv, InvApplied
<1>5. InvSaved'
  <2>1. \A i \in Indices : fs'[ops[i].backup] = fs[ops[i].backup]
    BY <1>0, <1>b, PathFacts, PlanFacts DEF IInv
  <2>2. \A i \in existed : rolling' /\ i <= k' => ~rolling \/ i <= k
    <3>1. CASE rolling
      BY <1>0, <1>a, <1>c, <3>1
    <3>2. QED
      BY <3>1
  <2>3. QED
    BY <1>a, <1>c, <2>1, <2>2 DEF IInv, InvSaved
<1>6. InvUndone'
  <2> SUFFICES ASSUME NEW i \in applied, i > k'
               PROVE  /\ fs'[ops[i].target] # before[ops[i].target] => report'
                      /\ i \in existed =>
                           \/ fs'[ops[i].backup] = before[ops[i].target]
                           \/ /\ fs'[ops[i].backup] = Absent
                              /\ fs'[ops[i].target] = before[ops[i].target]
    BY <1>a DEF InvUndone
  <2>1. rolling /\ k' = k - 1 /\ report' = TRUE
    <3>1. applied # 1 .. k'
      BY <1>a, <1>c
    <3>2. QED
      BY <1>a, <3>1
  <2>2. i \in Indices /\ fs'[ops[i].backup] = fs[ops[i].backup]
    BY <1>0, <1>b, <1>c, PathFacts, PlanFacts DEF IInv
  <2>3. CASE i = k
    BY <1>0, <1>c, <2>1, <2>2, <2>3 DEF IInv, InvSaved
  <2>4. CASE i # k
    <3>1. fs'[ops[i].target] = fs[ops[i].target] /\ i > k
      BY <1>0, <1>b, <1>c, <2>1, <2>2, <2>4, PathFacts, PlanFacts DEF IInv
    <3>2. QED
      BY <2>1, <2>2, <3>1 DEF IInv, InvUndone
  <2>5. QED
    BY <2>3, <2>4
<1>7. InvTmps' /\ InvInstalled'
  BY <1>a DEF InvTmps, InvInstalled
<1>8. InvCopy'
  BY <1>a DEF InvCopy
<1>9. InvOthers'
  BY <1>0, MemberFacts DEF IInv, InvOthers
<1>10. QED
  BY <1>1, <1>2, <1>3, <1>4, <1>5, <1>6, <1>7, <1>8, <1>9 DEF IInv

-----------------------------------------------------------------------------
(* One lemma for each action.                                              *)

\* The check of the plan.
LEMMA ValidatePreserves ==
  ASSUME IInv, Validate
  PROVE  IInv'
<1>a. UNCHANGED <<ops, before>>
  BY DEF Validate
<1>1. TypeOK'
  BY <1>a, SamePlan DEF IInv, TypeOK, Validate
<1>2. InvChecked'
  BY <1>a, SamePlan DEF IInv, InvChecked, Validate, ValidPlan
<1>3. InvPosition'
  BY <1>a, SamePlan DEF IInv, InvPosition, Validate
<1>4. InvApplied'
  BY <1>a, SamePlan DEF IInv, InvApplied, Validate
<1>5. InvSaved'
  BY <1>a, SamePlan DEF IInv, InvSaved, Validate
<1>6. InvUndone'
  BY <1>a, SamePlan DEF IInv, InvUndone, Validate
<1>7. InvTmps'
  BY <1>a, SamePlan, PathFacts, PlanFacts, MemberFacts
  DEF IInv, InvTmps, Validate, ValidPlan, InvPosition, TypeOK
<1>8. InvInstalled'
  BY <1>a, SamePlan DEF IInv, InvInstalled, Validate
<1>9. InvCopy'
  BY <1>a, SamePlan DEF IInv, InvCopy, Validate
<1>10. InvOthers'
  BY <1>a, SamePlan DEF IInv, InvOthers, Validate
<1>11. QED
  BY <1>1, <1>2, <1>3, <1>4, <1>5, <1>6, <1>7, <1>8, <1>9, <1>10 DEF IInv

\* A deletion has no temporary file.
LEMMA SkipDeletePreserves ==
  ASSUME IInv, SkipDelete
  PROVE  IInv'
<1>a. UNCHANGED <<ops, before>>
  BY DEF SkipDelete
<1>b. DistinctPaths
  BY Running DEF SkipDelete, Moving
<1>c. AtOperation
  BY Here DEF SkipDelete, Moving
<1>1. TypeOK'
  BY <1>a, <1>c, SamePlan DEF IInv, TypeOK, SkipDelete, NextPrepare
<1>2. InvChecked'
  BY <1>a, <1>c, SamePlan DEF IInv, InvChecked, SkipDelete, NextPrepare
<1>3. InvPosition'
  <2>1. CASE k < Len(ops)
    BY <1>a, <1>b, <1>c, <2>1, PlanFacts, SamePlan
    DEF IInv, InvPosition, TypeOK, SkipDelete, NextPrepare
  <2>2. CASE ~(k < Len(ops))
    <3>1. k' = 1 /\ pc' = "look" /\ applied' = {} /\ ~rolling'
      BY <1>c, <2>2 DEF IInv, InvPosition, SkipDelete, NextPrepare
    <3>2. applied' = 1 .. (k' - 1)
      BY <3>1, Interval
    <3>3. 1 \in Indices'
      BY <1>a, <1>c, PlanFacts, SamePlan DEF IInv
    <3>4. QED
      BY <3>1, <3>2, <3>3 DEF IInv, InvPosition, SkipDelete
  <2>3. QED
    BY <2>1, <2>2
<1>4. InvApplied'
  BY <1>a, SamePlan DEF IInv, InvApplied, SkipDelete
<1>5. InvSaved'
  BY <1>a, <1>c, SamePlan, <1>b, PathFacts, PlanFacts, MemberFacts
  DEF IInv, InvSaved, SkipDelete, NextPrepare, InvPosition, TypeOK
<1>6. InvUndone'
  BY <1>a, <1>c, SamePlan, <1>b, PathFacts, PlanFacts, MemberFacts
  DEF IInv, InvUndone, SkipDelete, NextPrepare, InvPosition, TypeOK
<1>7. InvTmps'
  BY <1>a, <1>c, SamePlan, <1>b, PathFacts, PlanFacts, MemberFacts
  DEF IInv, InvTmps, SkipDelete, NextPrepare
<1>8. InvInstalled'
  BY <1>a, <1>c, SamePlan, <1>b, PathFacts, PlanFacts, MemberFacts
  DEF IInv, InvInstalled, SkipDelete, NextPrepare, InvPosition, TypeOK
<1>9. InvCopy'
  BY <1>a, <1>c, SamePlan DEF IInv, InvCopy, SkipDelete, Incoming, NextPrepare
<1>10. InvOthers'
  BY <1>a, SamePlan DEF IInv, InvOthers, SkipDelete
<1>11. QED
  BY <1>1, <1>2, <1>3, <1>4, <1>5, <1>6, <1>7, <1>8, <1>9, <1>10 DEF IInv

\* The directory of a temporary file.
LEMMA MakeParentsPreserves ==
  ASSUME IInv, MakeParents
  PROVE  IInv'
<1>1. /\ k \in Writes /\ op.tmp \in Paths /\ ~rolling /\ applied = {}
      /\ UNCHANGED <<fs, before, ops, applied, existed, writtenTmps, buffer>>
  BY Here DEF MakeParents, IInv, InvPosition
<1>2. DirOf[op.tmp] \in Dirs /\ dirs' \subseteq Dirs /\ createdDirs' \subseteq Dirs
  BY <1>1, ConstantsAssumption DEF MakeParents, IInv, TypeOK
<1>3. CASE RaiseForward
  BY <1>1, <1>2, <1>3, RaisePreserves DEF MakeParents, Raise
<1>4. CASE pc' = "openTmp" /\ UNCHANGED <<k, rolling, report>>
  <2>1. TypeOK'
    BY <1>1, <1>2, <1>4, SamePlan DEF IInv, TypeOK
  <2>2. InvChecked' /\ InvOthers'
    BY <1>1, <1>4, SamePlan DEF IInv, InvChecked, InvOthers, MakeParents
  <2>3. InvPosition' /\ InvApplied'
    BY <1>1, <1>4, SamePlan DEF IInv, InvPosition, InvApplied, MakeParents
  <2>4. InvTmps'
    BY <1>1, <1>4, SamePlan DEF IInv, InvTmps, MakeParents
  <2>5. InvSaved' /\ InvUndone' /\ InvInstalled' /\ InvCopy'
    BY <1>1, <1>4, SamePlan
    DEF IInv, TypeOK, InvSaved, InvUndone, InvInstalled, InvCopy, MakeParents
  <2>6. QED
    BY <2>1, <2>2, <2>3, <2>4, <2>5 DEF IInv
<1>5. QED
  BY <1>3, <1>4 DEF MakeParents

\* A temporary file is truncated ...
LEMMA OpenTmpPreserves ==
  ASSUME IInv, OpenTmp
  PROVE  IInv'
<1>a. UNCHANGED <<ops, before>>
  BY DEF OpenTmp
<1>b. DistinctPaths
  BY Running DEF OpenTmp, Moving
<1>c. AtOperation
  BY Here DEF OpenTmp, Moving
<1>d. \A x \in Paths \ {op.tmp} : fs'[x] = fs[x]
  BY <1>c DEF IInv, TypeOK, OpenTmp, source
<1>1. TypeOK'
  BY <1>a, <1>c, <1>d, SamePlan DEF IInv, TypeOK, OpenTmp
<1>2. InvChecked'
  BY <1>a, SamePlan DEF IInv, InvChecked, OpenTmp
<1>3. InvPosition'
  BY <1>a, SamePlan DEF IInv, InvPosition, OpenTmp
<1>4. InvApplied'
  BY <1>a, <1>c, <1>d, SamePlan, <1>b, PathFacts, PlanFacts, MemberFacts
  DEF IInv, InvApplied, OpenTmp, InvPosition, TypeOK
<1>5. InvSaved'
  BY <1>a, <1>c, <1>d, SamePlan, <1>b, PathFacts, PlanFacts, MemberFacts
  DEF IInv, InvSaved, OpenTmp, InvPosition, TypeOK
<1>6. InvUndone'
  BY <1>a, <1>c, <1>d, SamePlan, <1>b, PathFacts, PlanFacts, MemberFacts
  DEF IInv, InvUndone, OpenTmp, InvPosition, TypeOK
<1>7. InvTmps'
  BY <1>a, <1>c, <1>d, SamePlan, <1>b, PathFacts, PlanFacts, MemberFacts
  DEF IInv, InvTmps, OpenTmp, InvPosition, TypeOK
<1>8. InvInstalled'
  BY <1>a, <1>c, <1>d, SamePlan, <1>b, PathFacts, PlanFacts, MemberFacts
  DEF IInv, InvInstalled, OpenTmp, InvPosition, TypeOK
<1>9. InvCopy'
  BY <1>a, SamePlan DEF IInv, InvCopy, OpenTmp
<1>10. InvOthers'
  BY <1>a, <1>c, <1>d, SamePlan, <1>b, PathFacts, PlanFacts, MemberFacts
  DEF IInv, InvOthers, OpenTmp, InvPosition, TypeOK
<1>11. QED
  BY <1>1, <1>2, <1>3, <1>4, <1>5, <1>6, <1>7, <1>8, <1>9, <1>10 DEF IInv

\* ... and filled.
LEMMA FillTmpPreserves ==
  ASSUME IInv, FillTmp
  PROVE  IInv'
<1>a. UNCHANGED <<ops, before>>
  BY DEF FillTmp
<1>b. DistinctPaths
  BY Running DEF FillTmp, Moving
<1>c. AtOperation
  BY Here DEF FillTmp, Moving
<1>d. \A x \in Paths \ {op.tmp} : fs'[x] = fs[x]
  BY <1>c DEF IInv, TypeOK, FillTmp, source
<1>1. TypeOK'
  BY <1>a, <1>c, <1>d, SamePlan DEF IInv, TypeOK, FillTmp, NextPrepare
<1>2. InvChecked'
  BY <1>a, <1>c, <1>d, SamePlan DEF IInv, InvChecked, FillTmp, NextPrepare
<1>3. InvPosition'
  <2>1. CASE k < Len(ops)
    BY <1>a, <1>b, <1>c, <2>1, PlanFacts, SamePlan
    DEF IInv, InvPosition, TypeOK, FillTmp, NextPrepare
  <2>2. CASE ~(k < Len(ops))
    <3>1. k' = 1 /\ pc' = "look" /\ applied' = {} /\ ~rolling'
      BY <1>c, <2>2 DEF IInv, InvPosition, FillTmp, NextPrepare
    <3>2. applied' = 1 .. (k' - 1)
      BY <3>1, Interval
    <3>3. 1 \in Indices'
      BY <1>a, <1>c, PlanFacts, SamePlan DEF IInv
    <3>4. QED
      BY <3>1, <3>2, <3>3 DEF IInv, InvPosition, FillTmp
  <2>3. QED
    BY <2>1, <2>2
<1>4. InvApplied'
  BY <1>a, <1>c, <1>d, SamePlan, <1>b, PathFacts, PlanFacts, MemberFacts
  DEF IInv, InvApplied, FillTmp, NextPrepare, InvPosition, TypeOK
<1>5. InvSaved'
  BY <1>a, <1>c, <1>d, SamePlan, <1>b, PathFacts, PlanFacts, MemberFacts
  DEF IInv, InvSaved, FillTmp, NextPrepare, InvPosition, TypeOK
<1>6. InvUndone'
  BY <1>a, <1>c, <1>d, SamePlan, <1>b, PathFacts, PlanFacts, MemberFacts
  DEF IInv, InvUndone, FillTmp, NextPrepare, InvPosition, TypeOK
<1>7. InvTmps'
  BY <1>a, <1>c, <1>d, SamePlan, <1>b, PathFacts, PlanFacts, MemberFacts
  DEF IInv, InvTmps, FillTmp, NextPrepare, InvPosition, TypeOK
<1>8. InvInstalled'
  BY <1>a, <1>c, <1>d, SamePlan, <1>b, PathFacts, PlanFacts, MemberFacts
  DEF IInv, InvInstalled, FillTmp, NextPrepare, InvPosition, TypeOK
<1>9. InvCopy'
  BY <1>a, <1>c, <1>d, SamePlan
  DEF IInv, InvCopy, FillTmp, Incoming, NextPrepare
<1>10. InvOthers'
  BY <1>a, <1>c, <1>d, SamePlan, <1>b, PathFacts, PlanFacts, MemberFacts
  DEF IInv, InvOthers, FillTmp, NextPrepare, InvPosition, TypeOK
<1>11. QED
  BY <1>1, <1>2, <1>3, <1>4, <1>5, <1>6, <1>7, <1>8, <1>9, <1>10 DEF IInv

\* Does the target exist?
LEMMA LookPreserves ==
  ASSUME IInv, Look
  PROVE  IInv'
<1>a. UNCHANGED <<ops, before>>
  BY DEF Look
<1>b. DistinctPaths
  BY Running DEF Look, Moving
<1>c. AtOperation
  BY Here DEF Look, Moving
<1>1. TypeOK'
  BY <1>a, <1>c, SamePlan DEF IInv, TypeOK, Look
<1>2. InvChecked'
  BY <1>a, SamePlan DEF IInv, InvChecked, Look
<1>3. InvPosition'
  <2>1. CASE Exists(op.target)
    BY <1>a, <1>c, <2>1, SamePlan DEF IInv, InvPosition, Look
  <2>2. CASE ~Exists(op.target)
    <3>1. applied' = 1 .. k
      <4>1. applied = 1 .. (k - 1) /\ applied' = applied \union {k}
        BY <2>2 DEF IInv, InvPosition, Look
      <4>2. QED
        BY <1>c, <4>1, Interval
    <3>2. pc' = "move" /\ k' = k /\ ~rolling' /\ report' = report
      BY <2>2 DEF IInv, InvPosition, Look
    <3>3. ~report'
      BY <3>2 DEF IInv, InvPosition, Look
    <3>4. \A i \in applied' : 1 .. i \subseteq applied'
      BY <1>c, <3>1
    <3>5. QED
      BY <1>a, <1>c, <3>1, <3>2, <3>3, <3>4, SamePlan DEF InvPosition
  <2>3. QED
    BY <2>1, <2>2
<1>4. InvApplied'
  <2>1. /\ existed' = existed /\ fs' = fs /\ applied \subseteq applied'
        /\ applied' \subseteq applied \union {k}
        /\ k \in applied' => k \in applied \/ fs[op.target] = Absent
    BY DEF Look
  <2>2. k \notin applied
    BY <1>c DEF IInv, InvPosition, Look
  <2>3. fs[op.target] = before[op.target] /\ k \notin existed
    BY <1>c, <2>2 DEF IInv, InvApplied, TypeOK
  <2>4. QED
    BY <1>a, <2>1, <2>2, <2>3, SamePlan DEF IInv, InvApplied
<1>5. InvSaved'
  BY <1>a, SamePlan DEF IInv, InvSaved, Look
<1>6. InvUndone'
  BY <1>a, <1>c, SamePlan DEF IInv, InvUndone, Look
<1>7. InvTmps'
  BY <1>a, SamePlan DEF IInv, InvTmps, Look
<1>8. InvInstalled'
  BY <1>a, <1>c, SamePlan DEF IInv, InvInstalled, Look
<1>9. InvCopy'
  BY <1>a, <1>c, SamePlan, <1>b, PathFacts, PlanFacts, MemberFacts, AfterFacts,
     Interval
  DEF IInv, InvCopy, Look, Incoming, InvPosition, TypeOK, InvTmps, InvApplied
<1>10. InvOthers'
  BY <1>a, SamePlan DEF IInv, InvOthers, Look
<1>11. QED
  BY <1>1, <1>2, <1>3, <1>4, <1>5, <1>6, <1>7, <1>8, <1>9, <1>10 DEF IInv

\* A backup is opened ...
LEMMA OpenBackupPreserves ==
  ASSUME IInv, OpenBackup
  PROVE  IInv'
<1>a. UNCHANGED <<ops, before>>
  BY DEF OpenBackup
<1>b. DistinctPaths
  BY Running DEF OpenBackup, Moving
<1>c. AtOperation
  BY Here DEF OpenBackup, Moving
<1>d. \A x \in Paths \ {op.backup} : fs'[x] = fs[x]
  BY <1>c DEF IInv, TypeOK, OpenBackup, source
<1>1. TypeOK'
  BY <1>a, <1>c, <1>d, SamePlan DEF IInv, TypeOK, OpenBackup
<1>2. InvChecked'
  BY <1>a, SamePlan DEF IInv, InvChecked, OpenBackup
<1>3. InvPosition'
  BY <1>a, SamePlan DEF IInv, InvPosition, OpenBackup
<1>4. InvApplied'
  <2>1. \A i \in Indices : fs'[ops[i].target] = fs[ops[i].target]
    BY <1>b, <1>c, <1>d, PathFacts, PlanFacts DEF IInv
  <2>2. UNCHANGED <<applied, existed>>
    BY DEF OpenBackup
  <2>3. QED
    BY <1>a, <2>1, <2>2, SamePlan DEF IInv, InvApplied
<1>5. InvSaved'
  BY <1>a, <1>c, <1>d, SamePlan, <1>b, PathFacts, PlanFacts, MemberFacts
  DEF IInv, InvSaved, OpenBackup, InvPosition, TypeOK
<1>6. InvUndone'
  BY <1>a, <1>c, <1>d, SamePlan, <1>b, PathFacts, PlanFacts, MemberFacts
  DEF IInv, InvUndone, OpenBackup, InvPosition, TypeOK
<1>7. InvTmps'
  BY <1>a, <1>c, <1>d, SamePlan, <1>b, PathFacts, PlanFacts, MemberFacts
  DEF IInv, InvTmps, OpenBackup
<1>8. InvInstalled'
  <2>1. \A i \in Indices : fs'[ops[i].target] = fs[ops[i].target]
    BY <1>b, <1>c, <1>d, PathFacts, PlanFacts DEF IInv
  <2>2. applied \subseteq Indices /\ k' = k
    BY DEF IInv, TypeOK, OpenBackup
  <2>3. \A i \in applied' : ~(i < k) \/ i \in applied
    BY <1>c, <2>2 DEF OpenBackup
  <2>4. QED
    BY <1>a, <1>c, <2>1, <2>2, <2>3, SamePlan DEF IInv, InvInstalled, OpenBackup
<1>9. InvCopy'
  BY <1>a, <1>c, <1>d, SamePlan, <1>b, PathFacts, PlanFacts, MemberFacts,
     AfterFacts, Interval
  DEF IInv, InvCopy, OpenBackup, Incoming, InvPosition, TypeOK, InvTmps,
      InvApplied
<1>10. InvOthers'
  BY <1>a, <1>c, <1>d, SamePlan DEF IInv, InvOthers, OpenBackup
<1>11. QED
  BY <1>1, <1>2, <1>3, <1>4, <1>5, <1>6, <1>7, <1>8, <1>9, <1>10 DEF IInv

\* ... and filled, from which point on the operation is in applied.
LEMMA FillBackupPreserves ==
  ASSUME IInv, FillBackup
  PROVE  IInv'
<1>a. UNCHANGED <<ops, before>>
  BY DEF FillBackup
<1>b. DistinctPaths
  BY Running DEF FillBackup, Moving
<1>c. AtOperation
  BY Here DEF FillBackup, Moving
<1>d. \A x \in Paths \ {op.backup} : fs'[x] = fs[x]
  BY <1>c DEF IInv, TypeOK, FillBackup, source
<1>1. TypeOK'
  BY <1>a, <1>c, <1>d, SamePlan DEF IInv, TypeOK, FillBackup
<1>2. InvChecked'
  BY <1>a, SamePlan DEF IInv, InvChecked, FillBackup
<1>3. InvPosition'
  BY <1>a, <1>c, <1>d, SamePlan DEF IInv, InvPosition, FillBackup
<1>4. InvApplied'
  <2>1. \A i \in Indices : fs'[ops[i].target] = fs[ops[i].target]
    BY <1>b, <1>c, <1>d, PathFacts, PlanFacts DEF IInv
  <2>2. /\ applied' = applied \union {k} /\ existed' = existed \union {k}
        /\ before[ops[k].target] # Absent
    BY DEF FillBackup, IInv, InvCopy
  <2>3. QED
    BY <1>a, <2>1, <2>2, SamePlan DEF IInv, InvApplied
<1>5. InvSaved'
  BY <1>a, <1>c, <1>d, SamePlan, <1>b, PathFacts, PlanFacts, MemberFacts,
     AfterFacts, Interval
  DEF IInv, InvSaved, FillBackup, InvPosition, TypeOK, InvCopy, InvTmps,
      InvApplied
<1>6. InvUndone'
  BY <1>a, <1>c, <1>d, SamePlan, <1>b, PathFacts, PlanFacts, MemberFacts
  DEF IInv, InvUndone, FillBackup, InvPosition, TypeOK
<1>7. InvTmps'
  BY <1>a, <1>c, <1>d, SamePlan, <1>b, PathFacts, PlanFacts, MemberFacts
  DEF IInv, InvTmps, FillBackup
<1>8. InvInstalled'
  <2>1. \A i \in Indices : fs'[ops[i].target] = fs[ops[i].target]
    BY <1>b, <1>c, <1>d, PathFacts, PlanFacts DEF IInv
  <2>2. applied \subseteq Indices /\ k' = k
    BY DEF IInv, TypeOK, FillBackup
  <2>3. \A i \in applied' : ~(i < k) \/ i \in applied
    BY <1>c, <2>2 DEF FillBackup
  <2>4. QED
    BY <1>a, <1>c, <2>1, <2>2, <2>3, SamePlan DEF IInv, InvInstalled, FillBackup
<1>9. InvCopy'
  BY <1>a, <1>c, <1>d, SamePlan, <1>b, PathFacts, PlanFacts, MemberFacts,
     AfterFacts, Interval
  DEF IInv, InvCopy, FillBackup, Incoming, InvPosition, TypeOK, InvTmps,
      InvApplied
<1>10. InvOthers'
  BY <1>a, <1>c, <1>d, SamePlan DEF IInv, InvOthers, FillBackup
<1>11. QED
  BY <1>1, <1>2, <1>3, <1>4, <1>5, <1>6, <1>7, <1>8, <1>9, <1>10 DEF IInv

\* A target is deleted.
LEMMA DeleteTargetPreserves ==
  ASSUME IInv, DeleteTarget
  PROVE  IInv'
<1>a. UNCHANGED <<ops, before>>
  BY DEF DeleteTarget
<1>b. DistinctPaths
  BY Running DEF DeleteTarget, Moving
<1>c. AtOperation
  BY Here DEF DeleteTarget, Moving
<1>d. \A x \in Paths \ {op.target} : fs'[x] = fs[x]
  BY <1>c DEF IInv, TypeOK, DeleteTarget, source
<1>1. TypeOK'
  BY <1>a, <1>c, <1>d, SamePlan DEF IInv, TypeOK, DeleteTarget, NextInstall
<1>2. InvChecked'
  BY <1>a, <1>c, <1>d, SamePlan DEF IInv, InvChecked, DeleteTarget, NextInstall
<1>3. InvPosition'
  BY <1>a, <1>c, <1>d, SamePlan, <1>b, PathFacts, PlanFacts, MemberFacts
  DEF IInv, InvPosition, DeleteTarget, NextInstall
<1>4. InvApplied'
  BY <1>a, <1>c, <1>d, SamePlan, <1>b, PathFacts, PlanFacts, MemberFacts
  DEF IInv, InvApplied, DeleteTarget, NextInstall, InvPosition, TypeOK
<1>5. InvSaved'
  BY <1>a, <1>c, <1>d, SamePlan, <1>b, PathFacts, PlanFacts, MemberFacts
  DEF IInv, InvSaved, DeleteTarget, NextInstall, InvPosition, TypeOK
<1>6. InvUndone'
  BY <1>a, SamePlan DEF IInv, InvUndone, DeleteTarget
<1>7. InvTmps'
  BY <1>a, <1>c, <1>d, SamePlan, <1>b, PathFacts, PlanFacts, MemberFacts
  DEF IInv, InvTmps, DeleteTarget, NextInstall
<1>8. InvInstalled'
  BY <1>a, <1>c, <1>d, SamePlan, <1>b, PathFacts, PlanFacts, MemberFacts,
     AfterFacts, Interval
  DEF IInv, InvInstalled, DeleteTarget, NextInstall, InvPosition, TypeOK,
      InvCopy, InvTmps, InvApplied
<1>9. InvCopy'
  BY <1>a, <1>c, <1>d, SamePlan
  DEF IInv, InvCopy, DeleteTarget, Incoming, NextInstall
<1>10. InvOthers'
  BY <1>a, <1>c, <1>d, SamePlan DEF IInv, InvOthers, DeleteTarget, NextInstall
<1>11. QED
  BY <1>1, <1>2, <1>3, <1>4, <1>5, <1>6, <1>7, <1>8, <1>9, <1>10 DEF IInv

\* The rename of _replace_path, in both directions.
LEMMA ReplacePreserves ==
  ASSUME IInv, Replace
  PROVE  IInv'
<1>a. UNCHANGED <<ops, before>>
  BY DEF Replace
<1>b. DistinctPaths
  BY Running DEF Replace, Moving
<1>c. AtOperation
  BY Here DEF Replace, Moving
<1>d. /\ \A x \in Paths \ {op.target, source} : fs'[x] = fs[x]
      /\ fs'[op.target] = fs[source] /\ fs'[source] = Absent
      /\ fs' \in [Paths -> Contents]
  BY <1>c DEF IInv, TypeOK, Replace, source
<1>1. TypeOK'
  BY <1>a, <1>c, <1>d, SamePlan
  DEF IInv, TypeOK, Replace, source, NextInstall, RollBackFrom, Moved, Moving
<1>2. InvChecked'
  BY <1>a, <1>c, <1>d, SamePlan
  DEF IInv, InvChecked, Replace, source, NextInstall, RollBackFrom, Moved,
      Moving
<1>3. InvPosition'
  BY <1>a, <1>c, <1>d, SamePlan, <1>b, PathFacts, PlanFacts, MemberFacts
  DEF IInv, InvPosition, Replace, source, NextInstall, RollBackFrom, Moved,
      Moving, TypeOK
<1>4. InvApplied'
  <2>1. k \in applied /\ k \in Writes \union existed
    BY <1>c DEF IInv, InvPosition, TypeOK, Replace, Moving
  <2>2. applied' = applied /\ existed' = existed
    BY DEF Replace
  <2>3. \A i \in Indices : i \notin applied \/ i \notin Writes \union existed =>
          fs'[ops[i].target] = fs[ops[i].target]
    BY <1>b, <1>c, <1>d, <2>1, PathFacts, PlanFacts
    DEF IInv, InvPosition, source, Replace, Moving
  <2>4. QED
    BY <1>a, <2>2, <2>3, SamePlan DEF IInv, InvApplied
<1>5. InvSaved'
  BY <1>a, <1>c, <1>d, SamePlan, <1>b, PathFacts, PlanFacts, MemberFacts
  DEF IInv, InvSaved, Replace, source, NextInstall, RollBackFrom, Moved,
      Moving, InvPosition, TypeOK
<1>6. InvUndone'
  BY <1>a, <1>b, <1>c, <1>d, PlanFacts, PathFacts, MemberFacts, SamePlan,
     AfterFacts, Interval, ConstantsAssumption
  DEF IInv, InvChecked, InvPosition, InvApplied, InvSaved, InvUndone, InvTmps,
      InvInstalled, InvCopy, TypeOK, Replace, source, Incoming, NextInstall,
      RollBackFrom, Moved, Moving
<1>7. InvTmps'
  BY <1>a, <1>c, <1>d, SamePlan, <1>b, PathFacts, PlanFacts, MemberFacts
  DEF IInv, InvTmps, Replace, source, NextInstall, RollBackFrom, Moved, Moving
<1>8. InvInstalled'
  <2>1. CASE rolling
    BY <2>1 DEF InvInstalled, Replace
  <2>2. CASE ~rolling
    <3>1. k \in Writes /\ fs[op.tmp] = op.text /\ source = op.tmp
      BY <1>c, <2>2, PlanFacts DEF IInv, InvTmps, Replace, Moving, source
    <3>2. fs'[op.target] = After(k)
      BY <1>d, <3>1, AfterFacts
    <3>3. \A i \in Indices \ {k} : fs'[ops[i].target] = fs[ops[i].target]
      BY <1>b, <1>c, <1>d, <3>1, PathFacts, PlanFacts DEF IInv
    <3>4. applied = 1 .. k /\ applied' = applied /\ applied \subseteq Indices
      BY <2>2 DEF IInv, InvPosition, TypeOK, Replace, Moving
    <3>5. \A i \in applied \ {k} : i < k
      BY <1>c, <3>4
    <3>6. \A i \in applied \ {k} : fs[ops[i].target] = After(i)
      BY <2>2, <3>5 DEF IInv, InvInstalled
    <3>7. QED
      BY <1>a, <3>2, <3>3, <3>4, <3>6, SamePlan DEF InvInstalled
  <2>3. QED
    BY <2>1, <2>2
<1>9. InvCopy'
  BY <1>a, <1>c, <1>d, SamePlan
  DEF IInv, InvCopy, Replace, source, Incoming, NextInstall, RollBackFrom,
      Moved, Moving
<1>10. InvOthers'
  BY <1>a, <1>c, <1>d, SamePlan
  DEF IInv, InvOthers, Replace, source, NextInstall, RollBackFrom, Moved,
      Moving
<1>11. QED
  BY <1>1, <1>2, <1>3, <1>4, <1>5, <1>6, <1>7, <1>8, <1>9, <1>10 DEF IInv

\* The rename is given up for a copy.
LEMMA FallBackPreserves ==
  ASSUME IInv, FallBack
  PROVE  IInv'
<1>a. UNCHANGED <<ops, before>>
  BY DEF FallBack
<1>b. DistinctPaths
  BY Running DEF FallBack, Moving
<1>c. AtOperation
  BY Here DEF FallBack, Moving
<1>1. TypeOK'
  BY <1>a, SamePlan DEF IInv, TypeOK, FallBack
<1>2. InvChecked'
  BY <1>a, <1>c, SamePlan DEF IInv, InvChecked, FallBack, Moving
<1>3. InvPosition'
  BY <1>a, <1>c, SamePlan DEF IInv, InvPosition, FallBack, Moving
<1>4. InvApplied'
  BY <1>a, SamePlan DEF IInv, InvApplied, FallBack
<1>5. InvSaved'
  BY <1>a, <1>c, SamePlan DEF IInv, InvSaved, FallBack, Moving
<1>6. InvUndone'
  BY <1>a, SamePlan DEF IInv, InvUndone, FallBack
<1>7. InvTmps'
  BY <1>a, <1>c, SamePlan DEF IInv, InvTmps, FallBack, Moving
<1>8. InvInstalled'
  BY <1>a, SamePlan DEF IInv, InvInstalled, FallBack
<1>9. InvCopy'
  BY <1>a, <1>c, SamePlan DEF IInv, InvCopy, FallBack, Incoming, Moving
<1>10. InvOthers'
  BY <1>a, SamePlan DEF IInv, InvOthers, FallBack
<1>11. QED
  BY <1>1, <1>2, <1>3, <1>4, <1>5, <1>6, <1>7, <1>8, <1>9, <1>10 DEF IInv

\* The copy truncates its target, whose text is saved elsewhere ...
LEMMA OpenCopyPreserves ==
  ASSUME IInv, OpenCopy
  PROVE  IInv'
<1>a. UNCHANGED <<ops, before>>
  BY DEF OpenCopy
<1>b. DistinctPaths
  BY Running DEF OpenCopy, Moving
<1>c. AtOperation
  BY Here DEF OpenCopy, Moving
<1>d. \A x \in Paths \ {op.target} : fs'[x] = fs[x]
  BY <1>c DEF IInv, TypeOK, OpenCopy, source
<1>1. TypeOK'
  BY <1>a, <1>c, <1>d, SamePlan DEF IInv, TypeOK, OpenCopy, source
<1>2. InvChecked'
  BY <1>a, SamePlan DEF IInv, InvChecked, OpenCopy
<1>3. InvPosition'
  BY <1>a, SamePlan DEF IInv, InvPosition, OpenCopy
<1>4. InvApplied'
  <2>1. k \in applied /\ k \in Writes \union existed
    BY <1>c DEF IInv, InvPosition, TypeOK, OpenCopy, Moving
  <2>2. applied' = applied /\ existed' = existed
    BY DEF OpenCopy
  <2>3. \A i \in Indices : i \notin applied \/ i \notin Writes \union existed =>
          fs'[ops[i].target] = fs[ops[i].target]
    BY <1>b, <1>c, <1>d, <2>1, PathFacts, PlanFacts
    DEF IInv, InvPosition, source, OpenCopy, Moving
  <2>4. QED
    BY <1>a, <2>2, <2>3, SamePlan DEF IInv, InvApplied
<1>5. InvSaved'
  BY <1>a, <1>c, <1>d, SamePlan, <1>b, PathFacts, PlanFacts, MemberFacts
  DEF IInv, InvSaved, OpenCopy, source, InvPosition, TypeOK
<1>6. InvUndone'
  BY <1>a, <1>c, <1>d, SamePlan, <1>b, PathFacts, PlanFacts, MemberFacts
  DEF IInv, InvUndone, OpenCopy, source, InvPosition, TypeOK
<1>7. InvTmps'
  BY <1>a, <1>c, <1>d, SamePlan, <1>b, PathFacts, PlanFacts, MemberFacts
  DEF IInv, InvTmps, OpenCopy, source
<1>8. InvInstalled'
  <2>1. \A i \in Indices \ {k} : fs'[ops[i].target] = fs[ops[i].target]
    BY <1>b, <1>c, <1>d, PathFacts, PlanFacts DEF IInv
  <2>2. /\ applied \subseteq Indices /\ ~(k < k)
        /\ UNCHANGED <<k, rolling, applied>> /\ ~Committed'
    BY <1>c DEF IInv, TypeOK, OpenCopy
  <2>3. \A i \in applied : ~rolling /\ i < k => fs[ops[i].target] = After(i)
    BY DEF IInv, InvInstalled
  <2>4. QED
    BY <1>a, <2>1, <2>2, <2>3, SamePlan DEF InvInstalled
<1>9. InvCopy'
  BY <1>a, <1>b, <1>c, <1>d, PlanFacts, PathFacts, MemberFacts, SamePlan,
     AfterFacts, Interval, ConstantsAssumption
  DEF IInv, InvChecked, InvPosition, InvApplied, InvSaved, InvUndone, InvTmps,
      InvInstalled, InvCopy, TypeOK, OpenCopy, source, Incoming
<1>10. InvOthers'
  BY <1>a, <1>c, <1>d, SamePlan DEF IInv, InvOthers, OpenCopy, source
<1>11. QED
  BY <1>1, <1>2, <1>3, <1>4, <1>5, <1>6, <1>7, <1>8, <1>9, <1>10 DEF IInv

\* ... fills it ...
LEMMA FillCopyPreserves ==
  ASSUME IInv, FillCopy
  PROVE  IInv'
<1>a. UNCHANGED <<ops, before>>
  BY DEF FillCopy
<1>b. DistinctPaths
  BY Running DEF FillCopy, Moving
<1>c. AtOperation
  BY Here DEF FillCopy, Moving
<1>d. \A x \in Paths \ {op.target} : fs'[x] = fs[x]
      /\ fs'[op.target] = buffer
  BY <1>c DEF IInv, TypeOK, FillCopy, source
<1>1. TypeOK'
  BY <1>a, <1>c, <1>d, SamePlan DEF IInv, TypeOK, FillCopy
<1>2. InvChecked'
  BY <1>a, SamePlan DEF IInv, InvChecked, FillCopy
<1>3. InvPosition'
  BY <1>a, SamePlan DEF IInv, InvPosition, FillCopy
<1>4. InvApplied'
  <2>1. k \in applied /\ k \in Writes \union existed
    BY <1>c DEF IInv, InvPosition, TypeOK, FillCopy, Moving
  <2>2. applied' = applied /\ existed' = existed
    BY DEF FillCopy
  <2>3. \A i \in Indices : i \notin applied \/ i \notin Writes \union existed =>
          fs'[ops[i].target] = fs[ops[i].target]
    BY <1>b, <1>c, <1>d, <2>1, PathFacts, PlanFacts
    DEF IInv, InvPosition, source, FillCopy, Moving
  <2>4. QED
    BY <1>a, <2>2, <2>3, SamePlan DEF IInv, InvApplied
<1>5. InvSaved'
  <2>1. \A i \in Indices : fs'[ops[i].backup] = fs[ops[i].backup]
    BY <1>b, <1>c, <1>d, PathFacts, PlanFacts DEF IInv
  <2>2. existed \subseteq Indices
    BY DEF IInv, TypeOK
  <2>3. QED
    BY <1>a, <2>1, <2>2, SamePlan DEF IInv, InvSaved, FillCopy
<1>6. InvUndone'
  BY <1>a, <1>c, <1>d, SamePlan, <1>b, PathFacts, PlanFacts, MemberFacts
  DEF IInv, InvUndone, FillCopy, InvPosition, TypeOK
<1>7. InvTmps'
  BY <1>a, <1>c, <1>d, SamePlan, <1>b, PathFacts, PlanFacts, MemberFacts
  DEF IInv, InvTmps, FillCopy
<1>8. InvInstalled'
  <2>1. \A i \in Indices \ {k} : fs'[ops[i].target] = fs[ops[i].target]
    BY <1>b, <1>c, <1>d, PathFacts, PlanFacts DEF IInv
  <2>2. /\ applied \subseteq Indices /\ ~(k < k)
        /\ UNCHANGED <<k, rolling, applied>> /\ ~Committed'
    BY <1>c DEF IInv, TypeOK, FillCopy
  <2>3. \A i \in applied : ~rolling /\ i < k => fs[ops[i].target] = After(i)
    BY DEF IInv, InvInstalled
  <2>4. QED
    BY <1>a, <2>1, <2>2, <2>3, SamePlan DEF InvInstalled
<1>9. InvCopy'
  BY <1>a, <1>c, <1>d, SamePlan, <1>b, PathFacts, PlanFacts, MemberFacts
  DEF IInv, InvCopy, FillCopy, Incoming
<1>10. InvOthers'
  BY <1>a, <1>c, <1>d, SamePlan DEF IInv, InvOthers, FillCopy
<1>11. QED
  BY <1>1, <1>2, <1>3, <1>4, <1>5, <1>6, <1>7, <1>8, <1>9, <1>10 DEF IInv

\* ... and unlinks its source.
LEMMA UnlinkSourcePreserves ==
  ASSUME IInv, UnlinkSource
  PROVE  IInv'
<1>a. UNCHANGED <<ops, before>>
  BY DEF UnlinkSource
<1>b. DistinctPaths
  BY Running DEF UnlinkSource, Moving
<1>c. AtOperation
  BY Here DEF UnlinkSource, Moving
<1>d. \A x \in Paths \ {source} : fs'[x] = fs[x]
  BY <1>c DEF IInv, TypeOK, UnlinkSource, source
<1>1. TypeOK'
  <2>1. fs' \in [Paths -> Contents]
    BY DEF IInv, TypeOK, UnlinkSource
  <2>2. k' \in 0 .. Len(ops) /\ pc' \in Stages
    BY <1>c DEF IInv, TypeOK, UnlinkSource, Moved, NextInstall, RollBackFrom
  <2>3. writtenTmps' \subseteq Paths
    BY DEF IInv, TypeOK, UnlinkSource, Moved
  <2>4. QED
    BY <1>a, <2>1, <2>2, <2>3, SamePlan DEF IInv, TypeOK, UnlinkSource
<1>2. InvChecked'
  BY <1>a, <1>c, <1>d, SamePlan
  DEF IInv, InvChecked, UnlinkSource, source, NextInstall, RollBackFrom, Moved
<1>3. InvPosition'
  BY <1>a, <1>c, <1>d, SamePlan, <1>b, PathFacts, PlanFacts, MemberFacts
  DEF IInv, InvPosition, UnlinkSource, source, NextInstall, RollBackFrom,
      Moved, TypeOK
<1>4. InvApplied'
  <2>1. k \in applied /\ k \in Writes \union existed
    BY <1>c DEF IInv, InvPosition, TypeOK, UnlinkSource, Moving
  <2>2. applied' = applied /\ existed' = existed
    BY DEF UnlinkSource
  <2>3. \A i \in Indices : i \notin applied \/ i \notin Writes \union existed =>
          fs'[ops[i].target] = fs[ops[i].target]
    BY <1>b, <1>c, <1>d, <2>1, PathFacts, PlanFacts
    DEF IInv, InvPosition, source, UnlinkSource, Moving
  <2>4. QED
    BY <1>a, <2>2, <2>3, SamePlan DEF IInv, InvApplied
<1>5. InvSaved'
  BY <1>a, <1>c, <1>d, SamePlan, <1>b, PathFacts, PlanFacts, MemberFacts
  DEF IInv, InvSaved, UnlinkSource, source, NextInstall, RollBackFrom, Moved,
      InvPosition, TypeOK
<1>6. InvUndone'
  BY <1>a, <1>b, <1>c, <1>d, PlanFacts, PathFacts, MemberFacts, SamePlan,
     AfterFacts, Interval, ConstantsAssumption
  DEF IInv, InvChecked, InvPosition, InvApplied, InvSaved, InvUndone, InvTmps,
      InvInstalled, InvCopy, TypeOK, UnlinkSource, source, Incoming,
      NextInstall, RollBackFrom, Moved
<1>7. InvTmps'
  BY <1>a, <1>c, <1>d, SamePlan, <1>b, PathFacts, PlanFacts, MemberFacts
  DEF IInv, InvTmps, UnlinkSource, source, NextInstall, RollBackFrom, Moved,
      InvPosition, TypeOK
<1>8. InvInstalled'
  BY <1>a, <1>b, <1>c, <1>d, PlanFacts, PathFacts, MemberFacts, SamePlan,
     AfterFacts, Interval, ConstantsAssumption
  DEF IInv, InvChecked, InvPosition, InvApplied, InvSaved, InvUndone, InvTmps,
      InvInstalled, InvCopy, TypeOK, UnlinkSource, source, Incoming,
      NextInstall, RollBackFrom, Moved
<1>9. InvCopy'
  BY <1>a, <1>c, <1>d, SamePlan
  DEF IInv, InvCopy, UnlinkSource, source, Incoming, NextInstall, RollBackFrom,
      Moved
<1>10. InvOthers'
  BY <1>a, <1>c, <1>d, SamePlan, <1>b, PathFacts, PlanFacts, MemberFacts
  DEF IInv, InvOthers, UnlinkSource, source, NextInstall, RollBackFrom, Moved,
      InvPosition, TypeOK
<1>11. QED
  BY <1>1, <1>2, <1>3, <1>4, <1>5, <1>6, <1>7, <1>8, <1>9, <1>10 DEF IInv

\* The rollback of one operation.
LEMMA UndoPreserves ==
  ASSUME IInv, Undo
  PROVE  IInv'
<1>a. UNCHANGED <<ops, before>>
  BY DEF Undo
<1>b. DistinctPaths
  BY Running DEF Undo, Moving
<1>c. AtOperation
  BY Here DEF Undo, Moving
<1>d. \A x \in Paths \ {op.target} : fs'[x] = fs[x]
  BY <1>c DEF IInv, TypeOK, Undo, source
<1>1. TypeOK'
  BY <1>a, <1>c, <1>d, SamePlan DEF IInv, TypeOK, Undo, RollBackFrom
<1>2. InvChecked'
  BY <1>a, <1>c, <1>d, SamePlan DEF IInv, InvChecked, Undo, RollBackFrom
<1>3. InvPosition'
  BY <1>a, <1>c, <1>d, SamePlan DEF IInv, InvPosition, Undo, RollBackFrom
<1>4. InvApplied'
  BY <1>a, <1>c, <1>d, SamePlan, <1>b, PathFacts, PlanFacts, MemberFacts
  DEF IInv, InvApplied, Undo, RollBackFrom, InvPosition, TypeOK
<1>5. InvSaved'
  <2>1. \A i \in Indices : fs'[ops[i].backup] = fs[ops[i].backup]
    BY <1>b, <1>c, <1>d, PathFacts, PlanFacts DEF IInv
  <2>2. existed \subseteq Indices /\ Indices \subseteq Nat
    BY PlanFacts DEF IInv, TypeOK
  <2>3. rolling /\ k' \in Nat /\ k' <= k /\ existed' = existed
    BY <1>c DEF IInv, InvPosition, Undo, RollBackFrom
  <2>4. \A i \in existed : i <= k' => i <= k
    <3>1. k \in Nat /\ k' \in Nat /\ k' <= k
      BY <1>c, <2>3
    <3>2. \A i \in Nat : i <= k' => i <= k
      BY <3>1
    <3>3. existed \subseteq Nat
      BY <2>2
    <3>4. QED
      BY <3>2, <3>3
  <2>5. QED
    BY <1>a, <2>1, <2>2, <2>3, <2>4, SamePlan DEF IInv, InvSaved, Undo
<1>6. InvUndone'
  <2>1. k \in applied /\ applied \subseteq Indices /\ rolling /\ Indices \subseteq Nat
    BY PlanFacts DEF IInv, InvPosition, TypeOK, Undo
  <2>2. \A i \in Indices \ {k} : /\ fs'[ops[i].target] = fs[ops[i].target]
                                 /\ fs'[ops[i].backup] = fs[ops[i].backup]
    BY <1>b, <1>c, <1>d, PathFacts, PlanFacts DEF IInv
  <2>3. k' = k \/ (k' = k - 1 /\ k \notin existed)
    <3>1. k \in existed => Exists(op.backup)
      BY <1>c, <2>1 DEF IInv, InvSaved, InvApplied, Undo
    <3>2. CASE k \in existed
      BY <3>1, <3>2 DEF Undo
    <3>3. CASE k \notin existed
      BY <1>c, <3>3 DEF Undo, RollBackFrom
    <3>4. QED
      BY <3>2, <3>3
  <2>4. k \notin existed => fs'[op.target] = before[op.target]
    <3>1. CASE k \in Writes
      BY <1>c, <2>1, <3>1 DEF IInv, InvApplied, TypeOK, Undo
    <3>2. CASE k \notin Writes
      BY <1>c, <3>2 DEF IInv, InvApplied, Undo
    <3>3. QED
      BY <3>1, <3>2
  <2>5. \A i \in applied : i > k' => i > k \/ (i = k /\ k \notin existed)
    <3>1. \A i \in Nat : i > k' => i > k \/ (i = k /\ k \notin existed)
      <4>1. k \in Nat
        BY <1>c
      <4>2. QED
        BY <2>3, <4>1
    <3>2. QED
      BY <2>1, <3>1
  <2>6. ASSUME NEW i \in applied, i > k'
        PROVE  /\ fs'[ops[i].target] # before[ops[i].target] => report
               /\ i \in existed =>
                    \/ fs'[ops[i].backup] = before[ops[i].target]
                    \/ /\ fs'[ops[i].backup] = Absent
                       /\ fs'[ops[i].target] = before[ops[i].target]
    <3>1. CASE i > k
      <4>1. i \in Indices \ {k}
        BY <1>c, <2>1, <3>1
      <4>2. QED
        BY <2>1, <2>2, <3>1, <4>1 DEF IInv, InvUndone
    <3>2. CASE i = k /\ k \notin existed
      BY <2>4, <3>2
    <3>3. QED
      BY <2>5, <2>6, <3>1, <3>2
  <2>7. UNCHANGED <<rolling, applied, existed, report>>
    BY DEF Undo
  <2>8. QED
    BY <1>a, <2>6, <2>7, SamePlan DEF InvUndone
<1>7. InvTmps'
  BY <1>a, <1>c, <1>d, SamePlan, <1>b, PathFacts, PlanFacts, MemberFacts
  DEF IInv, InvTmps, Undo, RollBackFrom, InvPosition, TypeOK
<1>8. InvInstalled'
  BY <1>a, <1>c, <1>d, SamePlan, <1>b, PathFacts, PlanFacts, MemberFacts
  DEF IInv, InvInstalled, Undo, RollBackFrom, InvPosition, TypeOK
<1>9. InvCopy'
  BY <1>a, <1>c, <1>d, SamePlan, <1>b, PathFacts, PlanFacts, MemberFacts
  DEF IInv, InvCopy, Undo, Incoming, RollBackFrom, InvPosition, TypeOK
<1>10. InvOthers'
  BY <1>a, <1>c, <1>d, SamePlan DEF IInv, InvOthers, Undo, RollBackFrom
<1>11. QED
  BY <1>1, <1>2, <1>3, <1>4, <1>5, <1>6, <1>7, <1>8, <1>9, <1>10 DEF IInv

\* The unlinking of the temporary files.
LEMMA SweepTmpsPreserves ==
  ASSUME IInv, SweepTmps
  PROVE  IInv'
<1>a. UNCHANGED <<ops, before>>
  BY DEF SweepTmps
<1>b. DistinctPaths
  BY Running DEF SweepTmps, Moving
<1>d. /\ writtenTmps \subseteq Tmps
      /\ \A x \in Paths \ Tmps : fs'[x] = fs[x]
      /\ fs' \in [Paths -> Contents]
  BY DEF IInv, InvOthers, TypeOK, SweepTmps, Unlink
<1>1. TypeOK'
  BY <1>a, <1>d, SamePlan DEF IInv, TypeOK, SweepTmps, Unlink
<1>2. InvChecked'
  BY <1>a, SamePlan DEF IInv, InvChecked, SweepTmps
<1>3. InvPosition'
  BY <1>a, SamePlan DEF IInv, InvPosition, SweepTmps
<1>4. InvApplied'
  <2>1. \A i \in Indices : fs'[ops[i].target] = fs[ops[i].target]
    BY <1>b, <1>d, PathFacts, PlanFacts DEF IInv, Tmps
  <2>2. QED
    BY <1>a, <2>1, SamePlan DEF IInv, InvApplied, SweepTmps
<1>5. InvSaved'
  BY <1>a, <1>d, SamePlan, <1>b, PathFacts, PlanFacts, MemberFacts
  DEF IInv, InvSaved, SweepTmps, Unlink, InvPosition, TypeOK
<1>6. InvUndone'
  <2>1. \A i \in Indices : /\ fs'[ops[i].target] = fs[ops[i].target]
                            /\ fs'[ops[i].backup] = fs[ops[i].backup]
    BY <1>b, <1>d, PathFacts, PlanFacts DEF IInv, Tmps
  <2>2. applied \subseteq Indices /\ (report => report')
    BY DEF IInv, TypeOK, SweepTmps
  <2>3. QED
    BY <1>a, <2>1, <2>2, SamePlan DEF IInv, InvUndone, SweepTmps
<1>7. InvTmps'
  BY <1>a, SamePlan DEF IInv, InvTmps, SweepTmps
<1>8. InvInstalled'
  BY <1>a, <1>d, SamePlan, <1>b, PathFacts, PlanFacts, MemberFacts
  DEF IInv, InvInstalled, SweepTmps, Unlink, InvPosition, TypeOK
<1>9. InvCopy'
  BY <1>a, SamePlan DEF IInv, InvCopy, SweepTmps
<1>10. InvOthers'
  <2>1. writtenTmps' = {}
    BY DEF SweepTmps
  <2>2. QED
    BY <1>a, <1>d, <2>1, SamePlan DEF IInv, InvOthers
<1>11. QED
  BY <1>1, <1>2, <1>3, <1>4, <1>5, <1>6, <1>7, <1>8, <1>9, <1>10 DEF IInv

\* The removal of the directories.
LEMMA SweepDirsPreserves ==
  ASSUME IInv, SweepDirs
  PROVE  IInv'
<1>a. UNCHANGED <<ops, before>>
  BY DEF SweepDirs
<1>b. DistinctPaths
  BY Running DEF SweepDirs, Moving
<1>1. TypeOK'
  BY <1>a, SamePlan DEF IInv, TypeOK, SweepDirs
<1>2. InvChecked'
  BY <1>a, SamePlan DEF IInv, InvChecked, SweepDirs
<1>3. InvPosition'
  BY <1>a, SamePlan DEF IInv, InvPosition, SweepDirs
<1>4. InvApplied'
  BY <1>a, SamePlan DEF IInv, InvApplied, SweepDirs
<1>5. InvSaved'
  BY <1>a, SamePlan DEF IInv, InvSaved, SweepDirs
<1>6. InvUndone'
  BY <1>a, SamePlan DEF IInv, InvUndone, SweepDirs, Occupied
<1>7. InvTmps'
  BY <1>a, SamePlan DEF IInv, InvTmps, SweepDirs
<1>8. InvInstalled'
  BY <1>a, SamePlan DEF IInv, InvInstalled, SweepDirs
<1>9. InvCopy'
  BY <1>a, SamePlan DEF IInv, InvCopy, SweepDirs
<1>10. InvOthers'
  BY <1>a, SamePlan DEF IInv, InvOthers, SweepDirs
<1>11. QED
  BY <1>1, <1>2, <1>3, <1>4, <1>5, <1>6, <1>7, <1>8, <1>9, <1>10 DEF IInv

\* The unlinking of the backups, after the commit.
LEMMA SweepBackupsPreserves ==
  ASSUME IInv, SweepBackups
  PROVE  IInv'
<1>a. UNCHANGED <<ops, before>>
  BY DEF SweepBackups
<1>b. DistinctPaths
  BY Running DEF SweepBackups, Moving
<1>d. /\ \A x \in Paths \ Backups : fs'[x] = fs[x]
      /\ fs' \in [Paths -> Contents]
  BY DEF IInv, TypeOK, SweepBackups, Unlink
<1>1. TypeOK'
  BY <1>a, <1>d, SamePlan DEF IInv, TypeOK, SweepBackups, Unlink
<1>2. InvChecked'
  BY <1>a, SamePlan DEF IInv, InvChecked, SweepBackups
<1>3. InvPosition'
  BY <1>a, SamePlan DEF IInv, InvPosition, SweepBackups
<1>4. InvApplied'
  BY <1>a, <1>d, SamePlan, <1>b, PathFacts, PlanFacts, MemberFacts
  DEF IInv, InvApplied, SweepBackups, Unlink, InvPosition, TypeOK
<1>5. InvSaved'
  BY <1>a, SamePlan DEF IInv, InvSaved, SweepBackups
<1>6. InvUndone'
  BY <1>a, <1>d, SamePlan, <1>b, PathFacts, PlanFacts, MemberFacts
  DEF IInv, InvUndone, SweepBackups, Unlink, InvPosition, TypeOK
<1>7. InvTmps'
  BY <1>a, SamePlan DEF IInv, InvTmps, SweepBackups
<1>8. InvInstalled'
  <2>1. \A i \in Indices : fs'[ops[i].target] = fs[ops[i].target]
    BY <1>b, <1>d, PathFacts, PlanFacts DEF IInv, Backups
  <2>2. applied \subseteq Indices
    BY DEF IInv, TypeOK
  <2>3. QED
    BY <1>a, <2>1, <2>2, SamePlan DEF IInv, InvInstalled, SweepBackups
<1>9. InvCopy'
  BY <1>a, SamePlan DEF IInv, InvCopy, SweepBackups
<1>10. InvOthers'
  BY <1>a, <1>d, SamePlan DEF IInv, InvOthers, SweepBackups, Unlink
<1>11. QED
  BY <1>1, <1>2, <1>3, <1>4, <1>5, <1>6, <1>7, <1>8, <1>9, <1>10 DEF IInv

\* The death of the process.
LEMMA CrashPreserves ==
  ASSUME IInv, Crash
  PROVE  IInv'
<1>a. UNCHANGED <<ops, before>>
  BY DEF Crash
<1>1. TypeOK'
  BY <1>a, SamePlan DEF IInv, TypeOK, Crash
<1>2. InvChecked'
  BY <1>a, SamePlan DEF IInv, InvChecked, Crash
<1>3. InvPosition'
  BY <1>a, SamePlan DEF IInv, InvPosition, Crash
<1>4. InvApplied'
  BY <1>a, SamePlan DEF IInv, InvApplied, Crash
<1>5. InvSaved'
  BY <1>a, SamePlan DEF IInv, InvSaved, Crash
<1>6. InvUndone'
  BY <1>a, SamePlan DEF IInv, InvUndone, Crash
<1>7. InvTmps'
  BY <1>a, SamePlan DEF IInv, InvTmps, Crash
<1>8. InvInstalled'
  BY <1>a, SamePlan DEF IInv, InvInstalled, Crash
<1>9. InvCopy'
  BY <1>a, SamePlan DEF IInv, InvCopy, Crash
<1>10. InvOthers'
  BY <1>a, SamePlan DEF IInv, InvOthers, Crash
<1>11. QED
  BY <1>1, <1>2, <1>3, <1>4, <1>5, <1>6, <1>7, <1>8, <1>9, <1>10 DEF IInv

\* A copy that could not be completed is unlinked.
LEMMA UndoCopyPreserves ==
  ASSUME IInv, UndoCopy
  PROVE  IInv'
<1>1. k \in applied /\ k \in Writes \union existed
  <2>1. k \in Nat /\ 1 <= k
    BY Here DEF UndoCopy
  <2>2. CASE rolling
    BY <2>2 DEF IInv, InvPosition, TypeOK, UndoCopy
  <2>3. CASE ~rolling
    BY <2>1, <2>3 DEF IInv, InvPosition, UndoCopy
  <2>4. QED
    BY <2>2, <2>3
<1>2. dirs' \subseteq Dirs /\ createdDirs' \subseteq Dirs
  BY DEF IInv, TypeOK, UndoCopy
<1>3. QED
  BY <1>1, <1>2, RaisePreserves DEF UndoCopy

\* Any other file system call fails.
LEMMA FailPreserves ==
  ASSUME IInv, Fail
  PROVE  IInv'
<1>1. dirs' \subseteq Dirs /\ createdDirs' \subseteq Dirs
  BY DEF IInv, TypeOK, Fail
<1>2. pc \in PrepareStages \union SaveStages \union MoveStages \union {"undo"}
  BY DEF Fail, Fallible
<1>3. QED
  BY <1>1, <1>2, RaisePreserves DEF Fail

-----------------------------------------------------------------------------
\* A call begins in a state where IInv holds.
LEMMA InitEstablishes == Init => IInv
<1> SUFFICES ASSUME Init PROVE IInv
  OBVIOUS
<1>1. PICK plan \in Plans : ops = [i \in DOMAIN plan |-> PortableOperation(plan[i])]
  BY DEF Init
<1>2. plan \in Seq(Operations) /\ plan # <<>>
  BY <1>1, ConstantsAssumption
<1>3. \A o \in Operations : PortableOperation(o) \in Operations
  BY ConstantsAssumption DEF Operations, PortableOperation
<1>4. ops \in Seq(Operations) \ {<<>>}
  <2>1. /\ Len(plan) \in Nat /\ DOMAIN plan = 1 .. Len(plan) /\ Len(plan) # 0
        /\ \A i \in 1 .. Len(plan) : plan[i] \in Operations
    BY <1>2
  <2>2. \A i \in 1 .. Len(plan) : PortableOperation(plan[i]) \in Operations
    BY <1>3, <2>1
  <2> DEFINE f == [i \in 1 .. Len(plan) |-> PortableOperation(plan[i])]
  <2>3. f \in Seq(Operations) /\ Len(f) = Len(plan)
    BY <2>1, <2>2
  <2>4. QED
    BY <1>1, <2>1, <2>3
<1>5. TypeOK
  <2>1. dirs \subseteq Dirs
    BY ConstantsAssumption DEF Init
  <2>2. k \in 0 .. Len(ops) /\ k = 1
    BY <1>4 DEF Init
  <2>3. fs \in [Paths -> Contents] /\ before \in [Paths -> Contents]
    BY ConstantsAssumption DEF Init
  <2>4. QED
    BY <1>4, <2>1, <2>2, <2>3 DEF Init, TypeOK
<1>6. k \in Indices
  BY <1>5, PlanFacts DEF Init
<1>7. QED
  BY <1>5, <1>6 DEF Init, IInv, InvChecked, InvPosition, InvApplied, InvSaved,
                    InvUndone, InvTmps, InvInstalled, InvCopy, InvOthers

\* TypeOK, and everything the other theorems need, is invariant.
THEOREM Invariance == Spec => []IInv
<1>1. IInv /\ [Next]_vars => IInv'
  <2> SUFFICES ASSUME IInv, [Next]_vars PROVE IInv'
    OBVIOUS
  <2>1. CASE Forwards
    BY <2>1, ValidatePreserves, SkipDeletePreserves, MakeParentsPreserves,
       OpenTmpPreserves, FillTmpPreserves, LookPreserves, OpenBackupPreserves,
       FillBackupPreserves, DeleteTargetPreserves DEF Forwards
  <2>2. CASE Moves
    BY <2>2, ReplacePreserves, FallBackPreserves, OpenCopyPreserves,
       FillCopyPreserves, UnlinkSourcePreserves, UndoCopyPreserves DEF Moves
  <2>3. CASE Cleanups
    BY <2>3, UndoPreserves, SweepTmpsPreserves, SweepDirsPreserves,
       SweepBackupsPreserves DEF Cleanups
  <2>4. CASE Fail
    BY <2>4, FailPreserves
  <2>5. CASE Crash
    BY <2>5, CrashPreserves
  <2>6. CASE UNCHANGED vars
    <3>1. UNCHANGED <<fs, dirs, before, ops, pc, k, rolling, applied, existed,
                      writtenTmps, createdDirs, buffer, report>>
      BY <2>6 DEF vars, locals
    <3>2. TypeOK' /\ InvChecked' /\ InvPosition'
      BY <3>1, SamePlan DEF IInv, TypeOK, InvChecked, InvPosition
    <3>3. InvApplied' /\ InvSaved' /\ InvUndone'
      BY <3>1, SamePlan DEF IInv, InvApplied, InvSaved, InvUndone
    <3>4. InvTmps' /\ InvInstalled'
      BY <3>1, SamePlan DEF IInv, TypeOK, InvTmps, InvInstalled
    <3>5. InvCopy' /\ InvOthers'
      BY <3>1, SamePlan DEF IInv, InvCopy, Incoming, InvOthers
    <3>6. QED
      BY <3>2, <3>3, <3>4, <3>5 DEF IInv
  <2>7. QED
    BY <2>1, <2>2, <2>3, <2>4, <2>5, <2>6 DEF Next, Step
<1>2. QED
  BY InitEstablishes, <1>1, PTL DEF Spec

-----------------------------------------------------------------------------
\* From IInv: past the last operation all are installed.
LEMMA CompleteWhenCommitted == IInv => CommitIsComplete
<1> SUFFICES ASSUME IInv, Committed PROVE Installed
  BY DEF CommitIsComplete
<1>1. \A i \in Indices : fs[ops[i].target] = After(i)
  BY DEF IInv, InvPosition, InvInstalled
<1>2. QED
  BY <1>1 DEF Installed

\* Until the commit the text of a file that existed is in it or in its backup.
LEMMA OriginalKept ==
  ASSUME IInv, ~Committed, NEW i \in Indices
  PROVE  before[ops[i].target] \in
           {Absent, fs[ops[i].target], fs[ops[i].backup]}
<1>1. CASE i \notin applied
  BY <1>1 DEF IInv, InvApplied
<1>2. CASE i \in applied \ existed
  BY <1>2 DEF IInv, InvApplied
<1>3. CASE i \in existed /\ (~rolling \/ i <= k)
  BY <1>3 DEF IInv, InvSaved
<1>4. CASE i \in existed /\ rolling /\ ~(i <= k)
  <2>1. i \in applied /\ i > k
    BY <1>4, PlanFacts DEF IInv, TypeOK
  <2>2. QED
    BY <1>4, <2>1 DEF IInv, InvUndone
<1>5. QED
  BY <1>1, <1>2, <1>3, <1>4

\* However the call ends, dies or fails, no text of a target is lost.
THEOREM NothingLost == Spec => []OriginalSurvives
<1>1. IInv => OriginalSurvives
  BY CompleteWhenCommitted, OriginalKept DEF OriginalSurvives, CommitIsComplete
<1>2. QED
  BY Invariance, <1>1, PTL

\* A call that reports success has carried out all of its operations.
THEOREM AllInstalled == Spec => []CommitIsComplete
BY Invariance, CompleteWhenCommitted, PTL

\* From IInv: a rollback without an error restores every target.
LEMMA RestoredWhenClean == IInv => CleanFailureRestores
<1> SUFFICES ASSUME IInv, pc = "failed", ~report, NEW i \in Indices
             PROVE  fs[ops[i].target] = before[ops[i].target]
  BY DEF CleanFailureRestores, Targets
<1>1. rolling /\ i > k
  BY PlanFacts DEF IInv, InvPosition
<1>2. QED
  BY <1>1 DEF IInv, InvApplied, InvUndone

\* A call that reports a clean rollback has put every target back.
THEOREM AllRestored == Spec => []CleanFailureRestores
BY Invariance, RestoredWhenClean, PTL

\* No call overwrites or removes an existing file that is not its target.
THEOREM OthersKept == Spec => []OtherFilesUntouched
<1>1. IInv => OtherFilesUntouched
  BY DEF IInv, InvChecked, InvOthers, OtherFilesUntouched
<1>2. QED
  BY Invariance, <1>1, PTL

-----------------------------------------------------------------------------
(* The refinement of AtomicUpdate.                                         *)

\* IndexOf finds the operation of a target.
LEMMA IndexFacts ==
  ASSUME NEW x \in Targets
  PROVE  IndexOf(x) \in Indices /\ ops[IndexOf(x)].target = x
BY DEF Targets, IndexOf

\* Until the commit the old text can be recovered, then the new one is there.
LEMMA RecoverableFacts ==
  ASSUME IInv, NEW x \in Targets
  PROVE  /\ ~Committed => Recoverable(x) = before[x]
         /\ Committed => /\ Recoverable(x) = fs[x]
                         /\ fs[x] = After(IndexOf(x))
<1> DEFINE i == IndexOf(x)
<1>1. i \in Indices /\ ops[i].target = x
  BY IndexFacts
<1>2. /\ Committed \/ i \notin applied => Recoverable(x) = fs[x]
      /\ ~Committed /\ i \in applied =>
           Recoverable(x) =
             IF i \notin existed THEN Absent
             ELSE IF fs[ops[i].backup] # Absent THEN fs[ops[i].backup] ELSE fs[x]
  BY DEF Recoverable
<1> HIDE DEF i
<1>3. CASE Committed
  BY <1>1, <1>2, <1>3, CompleteWhenCommitted DEF CommitIsComplete, Installed, i
<1>4. CASE ~Committed /\ i \notin applied
  BY <1>1, <1>2, <1>4 DEF IInv, InvApplied
<1>5. CASE ~Committed /\ i \in applied \ existed
  BY <1>1, <1>2, <1>5 DEF IInv, InvApplied
<1>6. CASE ~Committed /\ i \in existed
  <2>1. i \in applied /\ before[x] # Absent
    BY <1>1, <1>6 DEF IInv, TypeOK, InvApplied
  <2>2. \/ fs[ops[i].backup] = before[x]
        \/ fs[ops[i].backup] = Absent /\ fs[x] = before[x]
    <3>1. CASE ~rolling \/ i <= k
      BY <1>1, <1>6, <3>1 DEF IInv, InvSaved
    <3>2. CASE rolling /\ ~(i <= k)
      <4>1. i > k
        BY <1>1, <3>2, PlanFacts DEF IInv, TypeOK
      <4>2. QED
        BY <1>1, <1>6, <2>1, <3>2, <4>1 DEF IInv, InvUndone
    <3>3. QED
      BY <3>1, <3>2
  <2>3. QED
    BY <1>2, <1>6, <2>1, <2>2
<1>7. QED
  BY <1>3, <1>4, <1>5, <1>6

\* What a step may do to the stage of the call.
LEMMA Transitions ==
  ASSUME Next
  PROVE  /\ pc \notin Ended
         /\ UNCHANGED <<before, ops>>
         /\ pc = "sweepBackups" => pc' \in {"committed", "crashedAfterCommit"}
         /\ pc' \in {"refused", "failed", "crashed"} => UNCHANGED fs
<1>1. CASE Forwards
  BY <1>1 DEF Forwards, Validate, SkipDelete, MakeParents, OpenTmp, FillTmp, Look,
     OpenBackup, FillBackup, DeleteTarget, NextPrepare, NextInstall,
     RaiseForward, RollBackFrom
<1>2. CASE Moves
  BY <1>2 DEF Moves, Moving, Replace, FallBack, OpenCopy, FillCopy, UnlinkSource,
     UndoCopy, Moved, NextInstall, Raise, RaiseForward, RaiseInRollback,
     RollBackFrom
<1>3. CASE Cleanups
  BY <1>3 DEF Cleanups, Undo, SweepTmps, SweepDirs, SweepBackups, RollBackFrom
<1>4. CASE Fail
  BY <1>4 DEF Fail, Fallible, Raise, RaiseForward, RaiseInRollback, RollBackFrom
<1>5. CASE Crash
  BY <1>5 DEF Crash
<1>6. QED
  BY <1>1, <1>2, <1>3, <1>4, <1>5 DEF Next, Step

\* The mapping, named, and what is known of it.
Held == [x \in Paths |-> IF x \in Targets THEN Recoverable(x) ELSE before[x]]
Shown == [x \in Paths |-> IF x \in Targets THEN fs[x] ELSE before[x]]
Wanted == [x \in Paths |->
             IF x \in Targets THEN After(IndexOf(x)) ELSE before[x]]

Mapping ==
  /\ Shown \in [Paths -> Contents] /\ Wanted \in [Paths -> Contents]
  /\ before \in [Paths -> Contents]
  /\ ~Committed => Held = before
  /\ Committed => Held = Wanted /\ Shown = Wanted

\* The mapped variables, before and after the commit.
LEMMA MappingFacts == IInv => Mapping
<1> SUFFICES ASSUME IInv PROVE Mapping
  OBVIOUS
<1>1. /\ fs \in [Paths -> Contents] /\ before \in [Paths -> Contents]
      /\ \A x \in Targets : After(IndexOf(x)) \in Contents
  <2>1. \A i \in Indices : After(i) \in Contents
    BY PlanFacts DEF IInv, After
  <2>2. QED
    BY <2>1, IndexFacts DEF IInv, TypeOK
<1>2. Shown \in [Paths -> Contents] /\ Wanted \in [Paths -> Contents]
  BY <1>1 DEF Shown, Wanted
<1>3. CASE ~Committed
  <2>1. \A x \in Targets : Recoverable(x) = before[x]
    BY <1>3, RecoverableFacts
  <2>2. Held = [x \in Paths |-> before[x]]
    BY <2>1 DEF Held
  <2>3. QED
    BY <1>1, <1>2, <1>3, <2>2 DEF Mapping
<1>4. CASE Committed
  <2>1. \A x \in Targets : /\ Recoverable(x) = After(IndexOf(x))
                           /\ fs[x] = After(IndexOf(x))
    BY <1>4, RecoverableFacts
  <2>2. Held = Wanted /\ Shown = Wanted
    BY <2>1 DEF Held, Shown, Wanted
  <2>3. QED
    BY <1>1, <1>2, <1>4, <2>2 DEF Mapping
<1>5. QED
  BY <1>3, <1>4

\* Each step of the call is the commit, the end, or invisible work.
THEOREM Refinement == Spec => IsAtomicUpdate
<1>1. Init => Abstract!AbsInit
  <2> SUFFICES ASSUME Init PROVE Abstract!AbsInit
    OBVIOUS
  <2>1. IInv /\ ~Committed /\ Outcome = "open" /\ Shown = before
    <3>1. IInv
      BY InitEstablishes
    <3>2. Shown = [x \in Paths |-> before[x]] /\ before \in [Paths -> Contents]
      BY <3>1 DEF Shown, Init, IInv, TypeOK
    <3>3. QED
      BY <3>1, <3>2 DEF Init, Outcome
  <2>2. QED
    BY <2>1, MappingFacts DEF Abstract!AbsInit, Mapping, Held, Shown, Wanted
<1>2. IInv /\ IInv' /\ [Next]_vars => [Abstract!AbsNext]_(Abstract!absVars)
  <2> SUFFICES ASSUME IInv, IInv', [Next]_vars
               PROVE  [Abstract!AbsNext]_(Abstract!absVars)
    OBVIOUS
  <2>a. Mapping /\ Mapping' /\ CleanFailureRestores'
    BY MappingFacts, RestoredWhenClean, PTL
  <2> DEFINE absNow == <<Held, Shown, Wanted, Outcome>>
  <2>0. /\ Abstract!absVars = absNow
        /\ (UNCHANGED absNow => UNCHANGED Abstract!absVars)
    BY DEF Abstract!absVars, Held, Shown, Wanted
  <2>1. CASE UNCHANGED vars
    <3>1. UNCHANGED absNow
      BY <2>1 DEF vars, locals, Held, Shown, Wanted, Outcome, Targets, Indices,
                  IndexOf, Recoverable, After, Writes
    <3>2. QED
      BY <2>0, <3>1
  <2>2. CASE Next
    <3>1. /\ UNCHANGED <<before, ops>> /\ Wanted' = Wanted /\ Targets' = Targets
      BY <2>2, Transitions DEF Wanted, Targets, After, IndexOf, Indices, Writes
    <3>2. CASE Committed
      <4>1. pc' \in {"committed", "crashedAfterCommit"}
        BY <2>2, <3>2, Transitions
      <4>2. Outcome = "updated" /\ Outcome' = "updated"
        BY <3>2, <4>1 DEF Outcome
      <4>3. Held' = Wanted' /\ Shown' = Wanted' /\ Held = Wanted /\ Shown = Wanted
        BY <2>a, <3>2, <4>1 DEF Mapping
      <4>4. QED
        BY <2>0, <3>1, <4>2, <4>3
    <3>3. CASE ~Committed
      <4>1. Outcome = "open" /\ Held = before
        BY <2>2, <3>3, <2>a, Transitions DEF Mapping, Outcome
      <4>2. CASE Committed'
        <5>1. Outcome' = "updated" /\ Held' = Wanted /\ Shown' = Wanted
          BY <3>1, <4>2, <2>a DEF Mapping, Outcome
        <5>2. QED
          BY <3>1, <4>1, <5>1
          DEF Abstract!AbsNext, Abstract!Commit, Held, Shown, Wanted
      <4>3. CASE ~Committed' /\ pc' \notin Ended
        <5>1. Outcome' = "open" /\ Held' = Held /\ Shown' \in [Paths -> Contents]
          BY <3>1, <4>1, <4>3, <2>a DEF Mapping, Outcome
        <5>2. QED
          BY <3>1, <4>1, <5>1
          DEF Abstract!AbsNext, Abstract!Work, Held, Shown, Wanted
      <4>4. CASE pc' \in {"refused", "failed", "crashed"}
        <5>1. Held' = Held /\ Shown' = Shown /\ ~Committed'
          BY <2>2, <3>1, <4>1, <4>4, <2>a, Transitions DEF Mapping, Shown
        <5>2. CASE Outcome' = "unchanged"
          <6>1. \A x \in Targets : fs'[x] = before[x]
            BY <3>1, <4>4, <5>2, <2>a
            DEF Outcome, CleanFailureRestores, IInv, InvChecked
          <6>2. Shown' = [x \in Paths |-> before[x]]
            BY <3>1, <6>1 DEF Shown
          <6>3. Shown = Held
            BY <4>1, <5>1, <6>2 DEF IInv, TypeOK
          <6>4. QED
            BY <3>1, <4>1, <5>1, <5>2, <6>3
            DEF Abstract!AbsNext, Abstract!Abandon, Held, Shown, Wanted
        <5>3. CASE Outcome' = "interrupted"
          BY <3>1, <4>1, <5>1, <5>3
          DEF Abstract!AbsNext, Abstract!Interrupt, Held, Shown, Wanted
        <5>4. QED
          BY <4>4, <5>1, <5>2, <5>3 DEF Outcome
      <4>5. QED
        BY <4>2, <4>3, <4>4
    <3>4. QED
      BY <3>2, <3>3
  <2>3. QED
    BY <2>1, <2>2
<1>3. QED
  BY <1>1, <1>2, Invariance, PTL DEF Spec, IsAtomicUpdate, Abstract!AbsSpec
=============================================================================
