SPECIFICATION Spec
CONSTANTS
  Procs = {p1, p2}
  Ids = {"a", "b"}
  Scopes <- MCScopes
  Requests <- MCRequests
  MaxTime = 2
  MaxTrouble = 1
  Absent = Absent
  Torn = Torn
  NoRequest = NoRequest
INVARIANTS
  TypeOK
  IInv
  ActiveClaimsAreDisjoint
  GrantsAreKept
  ReleasedStaysReleased
PROPERTIES
  IsClaimLedger
  RequestsEnd
CHECK_DEADLOCK FALSE
