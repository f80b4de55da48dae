SPECIFICATION Spec

CONSTANTS
  None = None
  Req = {r1, r2}
  MaxToken = 3
  MaxPassword = 2

SYMMETRY Symmetry

INVARIANTS
  KnowsThePassword
PROPERTIES
  RefusedForGood

CHECK_DEADLOCK FALSE
