SPECIFICATION Spec
CONSTANTS
  Absent = Absent
  Torn = Torn
  Texts = {"oldA", "oldB", "newA", "newB"}
  Paths <- MCPaths
  Dirs <- MCDirs
  DirOf <- MCDirOf
  Portable <- MCPortable
  Rooted <- MCRooted
  Plans <- MCPlans
  Found <- MCFound
INVARIANTS
  TypeOK
  IInv
  OriginalSurvives
  CommitIsComplete
  CleanFailureRestores
  CutInOrder
  OtherFilesUntouched
  QuietCommitLeavesNoSidecar
  CleanFailureLeavesAtMostOneSidecar
  CleanFailureRemovesDirs
  KeepsContract
PROPERTIES
  IsAtomicUpdate
  EveryStepDescends
  Terminates
CHECK_DEADLOCK FALSE
