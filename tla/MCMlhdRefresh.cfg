CONSTANTS
  Pids = {p1, p2, p3, p4}
  NoPid = NoPid
  Absent = Absent
  Torn = Torn
  Whole = Whole
  Quiet = Quiet
  MaxCommands = 1
  MaxCrashes = 0
SPECIFICATION Spec
INVARIANTS NoDuplicateRefresh
