CONSTANTS
  Pids = {p1, p2, p3}
  NoPid = NoPid
  Absent = Absent
  Torn = Torn
  Whole = Whole
  Quiet = Quiet
  MaxCommands = 2
  MaxCrashes = 2
SPECIFICATION Spec
INVARIANTS TypeOK IInv ActiveMarkersAreTrue
SYMMETRY Symmetry
