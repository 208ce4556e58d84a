SPECIFICATION FairSpec
CONSTANTS
  Kinds = {"Playback", "IPC", "Cli"}
  Loops = {"reload", "hoist", "finite"}
  Faults = {"open", "callback", "close", "bind", "create"}
  MaxThreads = 3
  MaxPeers = 4
INVARIANTS
  TypeOK
  RunningTellsJoin
  TerminatedIsQuiet
PROPERTIES
  PeersAreServed
  TerminateReturns
CHECK_DEADLOCK FALSE
