SPECIFICATION Spec

CONSTANTS
  None = None
  l1 = l1
  Quote = {q1}
  Line = {l1}
  Project = {p1}
  Entry = {e1, e2}
  Photo = {f1}
  Worker = {}
  Self = None
  Req = {r1, r2}
  UnitPrice <- MCUnitPrice
  Price = {0}
  MaxQty = 2
  MaxAmount = 2
  MaxPayments = 1
  Ops <- ProjectRunOps

SYMMETRY Symmetry

INVARIANTS
  TypeOK
  ProgressFits
  FinishedSettled
  EvidenceIsStored
PROPERTIES
  LedgerFrozen
  ImplementsLedger
