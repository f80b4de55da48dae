SPECIFICATION FairSpec

CONSTANTS
  None = None
  Req = {r1, r2}
  Email = {ana, bea}
  MaxCode = 2
  MaxAttempts = 2

INVARIANTS
  OpensOnce
  PendingHasItsCode
PROPERTIES
  EveryRequestEnds

CHECK_DEADLOCK FALSE
