SPECIFICATION SerialSpec
CONSTANTS
  GUI = GUI
  CLI = CLI
  ENG = ENG
  Users = {GUI, CLI}
  s1 = s1
  s2 = s2
  empty = empty
  Songs = {s1}
  CliSong = CliSong
  EmptyUrl = empty
  Paths = {s1, empty}
  NoPath = NoPath
  UrlOf <- MCUrlOf
  Faults = {}
  MaxDepth = 2
  MaxSongs = 1
INVARIANTS
  PopReturns
CHECK_DEADLOCK FALSE
