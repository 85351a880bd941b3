------------------ MODULE FileTransactionProgress_proofs ------------------
(***************************************************************************)
(* Why a call of apply_file_transaction ends, for every plan: Rank, a      *)
(* natural number that is at most 30 per operation and 11 more, goes down  *)
(* with every step, whichever of them fail.  What is left to the fairness  *)
(* of Spec, and to TLC, is that the call takes a next step at all.         *)
(***************************************************************************)
EXTENDS FileTransaction_proofs

USE DEF shared, Stages, Ended, PrepareStages, SaveStages, MoveStages,
        FailedStages, Committed, op, Exists, Put, Contents, AtOperation

\* Rank, stage by stage.
RankTable ==
  LET n == Len(ops)
      first == 30 * n - 10 * k + 10
      second == 20 * n - 10 * k + 10
  IN
  /\ n \in Nat /\ 1 <= n /\ k \in 0 .. n
  /\ pc = "validate" => Rank = 30 * n + 11
  /\ pc = "prepare" => Rank = first + 3 /\ 1 <= k
  /\ pc = "openTmp" => Rank = first + 2 /\ 1 <= k
  /\ pc = "fillTmp" => Rank = first + 1 /\ 1 <= k
  /\ pc = "look" => Rank = second + 8 /\ 1 <= k
  /\ pc = "openBackup" => Rank = second + 7 /\ 1 <= k
  /\ pc = "fillBackup" => Rank = second + 6 /\ 1 <= k
  /\ pc = "undo" => Rank = 10 * k + 6 /\ 1 <= k
  /\ pc = "move" => Rank = (IF rolling THEN 10 * k ELSE second) + 5 /\ 1 <= k
  /\ pc = "openCopy" => Rank = (IF rolling THEN 10 * k ELSE second) + 4 /\ 1 <= k
  /\ pc = "fillCopy" => Rank = (IF rolling THEN 10 * k ELSE second) + 3 /\ 1 <= k
  /\ pc = "unlinkSource" => Rank = (IF rolling THEN 10 * k ELSE second) + 2 /\ 1 <= k
  /\ pc = "undoCopy" => Rank = (IF rolling THEN 10 * k ELSE second) + 1 /\ 1 <= k
  /\ pc = "sweepTmps" => Rank = 2
  /\ pc \in {"sweepDirs", "sweepBackups"} => Rank = 1
  /\ pc \in Ended => Rank = 0

LEMMA RankIsTable == IInv => RankTable
<1> SUFFICES ASSUME IInv PROVE RankTable
  OBVIOUS
<1> DEFINE n == Len(ops)
<1>1. n \in Nat /\ Indices = 1 .. n /\ 1 <= n /\ k \in 0 .. n /\ k \in Nat
  BY PlanFacts DEF IInv, TypeOK
<1>2. pc \in PrepareStages \union SaveStages \union MoveStages \union {"undo"} =>
        1 <= k
  BY Here
<1>3. /\ pc \in PrepareStages \union SaveStages \union {"validate"} => ~rolling
      /\ pc = "undo" => rolling
      /\ pc = "validate" => k = 1
  BY DEF IInv, InvPosition
<1>4. /\ pc = "validate" => TurnsLeft = 3 * n + 1
      /\ pc \in PrepareStages => TurnsLeft = 3 * n - k + 1
      /\ pc \in SaveStages => TurnsLeft = 2 * n - k + 1
      /\ pc \in MoveStages => TurnsLeft = IF rolling THEN k ELSE 2 * n - k + 1
      /\ pc = "undo" => TurnsLeft = k
      /\ pc \in Ended \union {"sweepTmps", "sweepDirs", "sweepBackups"} =>
           TurnsLeft = 0
  BY <1>3 DEF TurnsLeft
<1>5. CASE pc \in PrepareStages \union {"validate"}
  BY <1>1, <1>2, <1>4, <1>5 DEF RankTable, Rank, StepsOfTurn
<1>6. CASE pc \in SaveStages
  BY <1>1, <1>2, <1>4, <1>6 DEF RankTable, Rank, StepsOfTurn
<1>7. CASE pc \in MoveStages
  <2>1. Rank = (IF rolling THEN 10 * k ELSE 20 * n - 10 * k + 10) + StepsOfTurn
    BY <1>1, <1>2, <1>4, <1>7 DEF Rank, StepsOfTurn
  <2>2. /\ pc = "move" => StepsOfTurn = 5
        /\ pc = "openCopy" => StepsOfTurn = 4
        /\ pc = "fillCopy" => StepsOfTurn = 3
        /\ pc = "unlinkSource" => StepsOfTurn = 2
        /\ pc = "undoCopy" => StepsOfTurn = 1
    BY DEF StepsOfTurn
  <2>3. QED
    BY <1>1, <1>2, <1>7, <2>1, <2>2 DEF RankTable
<1>8. CASE pc \in Ended \union {"undo", "sweepTmps", "sweepDirs", "sweepBackups"}
  BY <1>1, <1>2, <1>4, <1>8 DEF RankTable, Rank, StepsOfTurn
<1>9. QED
  BY <1>5, <1>6, <1>7, <1>8 DEF IInv, TypeOK

\* The bounds of Rank: it is zero only when the call has ended.
LEMMA RankRange ==
  ASSUME IInv, RankTable
  PROVE  /\ Rank \in 0 .. (30 * Len(ops) + 11)
         /\ pc \notin Ended => Rank > 0
<1>1. CASE pc \in PrepareStages \union {"validate"}
  BY <1>1 DEF RankTable
<1>2. CASE pc \in SaveStages \union {"undo"}
  BY <1>2 DEF RankTable
<1>3. CASE pc \in MoveStages /\ rolling
  BY <1>3 DEF RankTable
<1>4. CASE pc \in MoveStages /\ ~rolling
  BY <1>4 DEF RankTable
<1>5. CASE pc \in Ended \union {"sweepTmps", "sweepDirs", "sweepBackups"}
  BY <1>5 DEF RankTable
<1>6. QED
  BY <1>1, <1>2, <1>3, <1>4, <1>5 DEF IInv, TypeOK

\* Where a loop goes on is at a lower rank, ...
LEMMA NextTurnDescends ==
  ASSUME IInv, RankTable, RankTable', UNCHANGED <<ops, rolling>>
  PROVE  /\ pc \in PrepareStages /\ NextPrepare => Rank' < Rank
         /\ pc \in MoveStages /\ ~rolling /\ NextInstall => Rank' < Rank
         /\ pc \in MoveStages \union {"undo"} /\ rolling /\ RollBackFrom(k - 1) =>
              Rank' < Rank
<1>1. pc \in PrepareStages => ~rolling
  BY DEF IInv, InvPosition
<1>2. ASSUME pc \in PrepareStages, NextPrepare PROVE Rank' < Rank
  BY <1>1, <1>2 DEF RankTable, NextPrepare
<1>3. ASSUME pc \in MoveStages, ~rolling, NextInstall PROVE Rank' < Rank
  BY <1>3 DEF RankTable, NextInstall
<1>4. ASSUME pc \in MoveStages \union {"undo"}, rolling, RollBackFrom(k - 1)
      PROVE  Rank' < Rank
  BY <1>4 DEF RankTable, RollBackFrom
<1>5. QED
  BY <1>2, <1>3, <1>4

\* ... and so is where an error leads, from either direction.
LEMMA RaiseDescends ==
  ASSUME IInv, RankTable, RankTable', UNCHANGED ops, Raise,
         pc \in PrepareStages \union SaveStages \union MoveStages \union {"undo"}
  PROVE  Rank' < Rank
<1>0. k \in Indices /\ k \in Nat /\ 1 <= k
  BY Here
<1>1. CASE rolling
  <2>1. pc \in MoveStages \union {"undo"}
    BY <1>1 DEF IInv, InvPosition
  <2>2. RollBackFrom(k - 1) /\ UNCHANGED rolling
    BY <1>1 DEF Raise, RaiseInRollback
  <2>3. QED
    BY <1>1, <2>1, <2>2, NextTurnDescends
<1>2. CASE ~rolling
  <2>1. PICK m \in {0, k, k - 1} : rolling' /\ RollBackFrom(m)
    BY <1>2 DEF Raise, RaiseForward
  <2>2. (pc' = "sweepTmps" \/ pc' = "undo") /\ k' \in {0, k, k - 1}
    BY <2>1 DEF RollBackFrom
  <2>3. pc # "undo"
    BY <1>2 DEF IInv, InvPosition
  <2>4. Rank' <= 10 * Len(ops) + 6
    BY <1>0, <2>2 DEF RankTable
  <2>5. Rank > 10 * Len(ops) + 10
    BY <1>0, <1>2, <2>3 DEF RankTable
  <2>6. Rank \in Nat /\ Rank' \in Nat /\ Len(ops) \in Nat
    BY <1>0, <2>2, <2>3 DEF RankTable
  <2>7. QED
    BY <2>4, <2>5, <2>6
<1>3. QED
  BY <1>1, <1>2

\* Every step brings the call nearer to its end.
LEMMA NextDescends ==
  ASSUME IInv, IInv', Next
  PROVE  Rank' < Rank
<1>0. RankTable /\ RankTable'
  BY RankIsTable, PTL
<1>a. UNCHANGED ops
  BY Transitions
<1>b. pc \in PrepareStages \union SaveStages => ~rolling
  BY DEF IInv, InvPosition
<1>1. CASE Validate
  BY <1>0, <1>1 DEF Validate, RankTable
<1>2. CASE SkipDelete
  BY <1>0, <1>2, NextTurnDescends DEF SkipDelete
<1>3. CASE MakeParents
  <2>1. CASE pc' = "openTmp" /\ UNCHANGED k
    BY <1>0, <1>a, <1>3, <2>1 DEF MakeParents, RankTable
  <2>2. CASE RaiseForward
    BY <1>0, <1>a, <1>b, <1>3, <2>2, RaiseDescends DEF MakeParents, Raise
  <2>3. QED
    BY <1>3, <2>1, <2>2 DEF MakeParents
<1>4. CASE OpenTmp
  BY <1>0, <1>4 DEF OpenTmp, RankTable
<1>5. CASE FillTmp
  BY <1>0, <1>5, NextTurnDescends DEF FillTmp
<1>6. CASE Look
  BY <1>0, <1>b, <1>6 DEF Look, RankTable
<1>7. CASE OpenBackup
  BY <1>0, <1>7 DEF OpenBackup, RankTable
<1>8. CASE FillBackup
  BY <1>0, <1>b, <1>8 DEF FillBackup, RankTable
<1>9. CASE DeleteTarget
  BY <1>0, <1>9, NextTurnDescends DEF DeleteTarget
<1>10. CASE Replace
  BY <1>0, <1>10, NextTurnDescends DEF Replace, Moving, Moved
<1>11. CASE FallBack
  BY <1>0, <1>11 DEF FallBack, Moving, RankTable
<1>12. CASE OpenCopy
  BY <1>0, <1>12 DEF OpenCopy, RankTable
<1>13. CASE FillCopy
  BY <1>0, <1>13 DEF FillCopy, RankTable
<1>14. CASE UnlinkSource
  <2>1. CASE Moved
    BY <1>0, <1>14, <2>1, NextTurnDescends DEF UnlinkSource, Moved
  <2>2. CASE pc' = "undoCopy" /\ UNCHANGED k
    BY <1>0, <1>14, <2>2 DEF UnlinkSource, RankTable
  <2>3. QED
    BY <1>14, <2>1, <2>2 DEF UnlinkSource
<1>15. CASE UndoCopy
  BY <1>0, <1>15, RaiseDescends DEF UndoCopy
<1>16. CASE Undo
  <2>1. rolling /\ rolling'
    BY <1>16 DEF Undo, IInv, InvPosition
  <2>2. CASE pc' = "move" /\ UNCHANGED k
    BY <1>0, <1>16, <2>1, <2>2 DEF Undo, RankTable
  <2>3. CASE RollBackFrom(k - 1)
    BY <1>0, <1>16, <2>1, <2>3, NextTurnDescends DEF Undo
  <2>4. QED
    BY <1>16, <2>2, <2>3 DEF Undo
<1>17. CASE SweepTmps
  BY <1>0, <1>17 DEF SweepTmps, RankTable
<1>18. CASE SweepDirs
  BY <1>0, <1>18 DEF SweepDirs, RankTable
<1>19. CASE SweepBackups
  BY <1>0, <1>19 DEF SweepBackups, RankTable
<1>20. CASE Fail
  BY <1>0, <1>20, RaiseDescends DEF Fail, Fallible
<1>21. CASE Crash
  <2>1. Rank > 0
    BY <1>0, <1>21, RankRange DEF Crash
  <2>2. Rank' = 0
    BY <1>0, <1>21 DEF Crash, RankTable
  <2>3. QED
    BY <2>1, <2>2
<1>22. QED
  BY <1>1, <1>2, <1>3, <1>4, <1>5, <1>6, <1>7, <1>8, <1>9, <1>10, <1>11,
     <1>12, <1>13, <1>14, <1>15, <1>16, <1>17, <1>18, <1>19, <1>20, <1>21
  DEF Next, Step, Forwards, Moves, Cleanups

\* No loop of a call runs forever: its rank, bounded by the length of the
\* plan, goes down with every step.
THEOREM CallIsBounded ==
  Spec => EveryStepDescends /\ [](Rank \in 0 .. (30 * Len(ops) + 11))
<1>1. IInv /\ IInv' /\ [Next]_vars => [Rank' < Rank]_vars
  BY NextDescends
<1>2. IInv => Rank \in 0 .. (30 * Len(ops) + 11)
  BY RankIsTable, RankRange
<1>3. QED
  BY <1>1, <1>2, Invariance, PTL DEF Spec, EveryStepDescends
=============================================================================
