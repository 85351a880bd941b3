CONSTANTS
  Pids = {p1, p2, p3}
  NoPid = NoPid
  Absent = Absent
  Torn = Torn
  Whole = Whole
  Quiet = Quiet
  MaxCommands = 1
  MaxCrashes = 1
SPECIFICATION Spec
PROPERTIES WorkersEnd
