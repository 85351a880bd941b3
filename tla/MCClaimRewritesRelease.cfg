SPECIFICATION RewriteSpec
CONSTANTS
  Procs = {p1}
  Rewriters = {w1}
  Ids = {"a", "b"}
  Paths <- MCPaths
  Scopes <- MCScopes
  Requests <- MCRequests
  MaxTime = 1
  MaxTrouble = 0
  Absent = Absent
  Torn = Torn
  NoRequest = NoRequest
  NoPlan = NoPlan
INVARIANTS
  ReleasedStaysReleased
CHECK_DEADLOCK FALSE
