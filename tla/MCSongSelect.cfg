SPECIFICATION MCFairSpec
CONSTANTS
  Threads = {GUI, CLI}
  GUI = GUI
  CLI = CLI
  a = a
  b = b
  Songs = {a, b}
  DbSongs <- MCDbSongs
  CliSong = CliSong
  RowCount = 3
  ItemNum = 2
  MaxSongs = 3
INVARIANTS
  TypeOK
  EverySongHasItsMark
  CursorIsLit
  CursorIsVisible
  PageShowsTheList
  OpeningThrowsOnlyRaced
PROPERTIES
  KeyEnds
CHECK_DEADLOCK FALSE
