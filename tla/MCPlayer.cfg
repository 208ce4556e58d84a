SPECIFICATION MCFairSpec
CONSTANTS
  GUI = GUI
  CLI = CLI
  ENG = ENG
  Users = {GUI, CLI}
  s1 = s1
  s2 = s2
  empty = empty
  Songs = {s1}
  CliSong = CliSong
  EmptyUrl = empty
  Paths = {empty}
  NoPath = NoPath
  UrlOf <- MCUrlOf
  Faults = {"refuse"}
  MaxDepth = 3
  MaxSongs = 1
INVARIANTS
  TypeOK
PROPERTIES
  StopIsAnswered
  StopIsLeft
CHECK_DEADLOCK FALSE
