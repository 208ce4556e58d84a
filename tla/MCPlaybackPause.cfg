SPECIFICATION PbMCSpec
CONSTANTS
  Users = {GUI}
  ENG = ENG
  Paths = {a}
  NoPath = NoPath
  Faults = {}
  MaxDepth = 2
INVARIANTS
  PauseIsSeen
