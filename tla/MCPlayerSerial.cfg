SPECIFICATION SerialSpec
CONSTANTS
  GUI = GUI
  CLI = CLI
  ENG = ENG
  Users = {GUI, CLI}
  s1 = s1
  s2 = s2
  empty = empty
  Songs = {s1, s2}
  CliSong = CliSong
  EmptyUrl = empty
  Paths = {s1, s2, empty}
  NoPath = NoPath
  UrlOf <- MCUrlOf
  Faults = {"refuse", "error"}
  MaxDepth = 3
  MaxSongs = 3
INVARIANTS
  PlayedFromTop
  ForwardAndBack
PROPERTIES
  SongsLeaveInSilence
  PbSpec
  PopIsAtomic
CHECK_DEADLOCK FALSE
