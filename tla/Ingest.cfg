SPECIFICATION Spec
CONSTANTS
  Filings = {1}
  Atom <- MCAtom
  Missing = Missing
  Releases = {11, 12}
  NWires = 1
  WireOf <- MCWireOf
  SameText <- MCSameText
  Cap = 1
  MaxAttempts = 2
  MaxFaults = 2
  Starts <- MCStarts
  Ageing = {1}
INVARIANTS
  RememberedIsNotRepublished
PROPERTIES
  MirrorCatchesUp
  ListedIsPublished
  ListedIsJudged
CHECK_DEADLOCK FALSE
