SPECIFICATION Spec

CONSTANTS
  None = None
  Req = {r1, r2}
  Email = {ana, bea, eva}
  MaxCode = 3
  MaxAttempts = 2

SYMMETRY Symmetry

PROPERTIES
  EmailChangeIsProved

CHECK_DEADLOCK FALSE
