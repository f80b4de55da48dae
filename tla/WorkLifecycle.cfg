SPECIFICATION FairSpec

CONSTANTS
  None = None
  l1 = l1
  Quote = {q1, q2}
  Line = {l1}
  Project = {p1, p2}
  Entry = {e1}
  Photo = {}
  Worker = {}
  Self = None
  Req = {r1, r2}
  UnitPrice <- MCUnitPrice
  Price = {0}
  MaxQty = 2
  MaxAmount = 1
  MaxPayments = 1
  Ops <- LifecycleOps

INVARIANTS
  OneProject
  LedgerHangsTogether
PROPERTIES
  QuoteFrozen
  NobodyWaitsForEver

CHECK_DEADLOCK FALSE
