SPECIFICATION FairSpec
CONSTANTS
  Kinds = {"Playback"}
  Loops = {"reload", "hoist"}
  Faults = {}
  MaxThreads = 1
  MaxPeers = 0
PROPERTIES
  TerminateDestroys
CHECK_DEADLOCK FALSE
