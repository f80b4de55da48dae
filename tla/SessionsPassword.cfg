SPECIFICATION Spec

CONSTANTS
  None = None
  Req = {r1, r2}
  MaxToken = 3
  MaxPassword = 3

PROPERTIES
  ChangedKnowing

CHECK_DEADLOCK FALSE
