SPECIFICATION Spec
CONSTANTS
  p1 = p1
  p2 = p2
  r1 = r1
  r2 = r2
  wrap = wrap
  subst = subst
  other = other
  acme = acme
  NoEvent = NoEvent
  NoCompany = NoCompany
  Procs = {p1}
  Events = {r1, r2, wrap, subst}
  Companies = {acme}
  Kind <- MCKind
  Issuer <- MCIssuer
  SameText <- MCSameText
  Wrapper = {wrap}
  Suppress = TRUE
  CrossWire = 1
  PRToFiling = 3
  MaxSends = 5
  MaxInbox = 1
  MaxFaults = 1
  MaxNow = 3
INVARIANTS
  SubstanceIsPublished
CHECK_DEADLOCK FALSE
