SPECIFICATION FairSpec

CONSTANTS
  None = None
  quote = quote
  payment = payment
  COT = COT
  REC = REC
  d0 = d0
  Req = {r1, r2}
  Doc = {d0, d1, d2}
  Type = {quote, payment}
  Prefix = {COT, REC}
  AutoPrefix <- MCAutoPrefix
  Suffix = {ab, 2}
  OldFolio <- MCOldFolio
  Attempts = 2
  MaxNumber = 3

INVARIANTS
  FoliosDiffer
PROPERTIES
  ImplementsBook
  EveryDocumentEnds

CHECK_DEADLOCK FALSE
