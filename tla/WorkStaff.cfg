SPECIFICATION Spec

CONSTANTS
  None = None
  l1 = l1
  Quote = {q1}
  Line = {l1}
  Project = {p1}
  Entry = {e1}
  Photo = {}
  Worker = {w1, me}
  Self = me
  Req = {r1, r2}
  UnitPrice <- MCUnitPrice
  Price = {0}
  MaxQty = 2
  MaxAmount = 1
  MaxPayments = 1
  Ops <- StaffOps

SYMMETRY Symmetry

INVARIANTS
  HandOutsFit
  LaborIsPriced
PROPERTIES
  ImplementsLedger
