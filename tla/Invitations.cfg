SPECIFICATION Spec

CONSTANTS
  None = None
  Req = {r1, r2, r3}
  Company = {acme, beta}
  Email = {ana}
  Invitation = {i1, i2}
  Link = {t1, t2, t3}
  Member = {m1, m2}

SYMMETRY Symmetry

INVARIANTS
  OnlyByAccepting
  LinkOpensOnce
PROPERTIES
  ClosedStaysClosed
  RemovedStaysOut

CHECK_DEADLOCK FALSE
