SPECIFICATION PbMCFairSpec
CONSTANTS
  Users = {GUI}
  ENG = ENG
  Paths = {a, b}
  NoPath = NoPath
  Faults = {"refuse", "error"}
  MaxDepth = 3
INVARIANTS
  PbTypeOK
  NestedCalls
  SerialReentryBounded
  SerialStateAgrees
PROPERTIES
  PlayingIsReported
