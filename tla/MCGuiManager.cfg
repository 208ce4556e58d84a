SPECIFICATION OnceSpec
CONSTANTS
  GUI = GUI
  CLI = CLI
  NoPage = NoPage
  Commands = {"gui.r", "gui.p"}
  MaxStack = 4
  MaxPosted = 1
INVARIANTS
  TypeOK
  SerialPageFollowsStack
PROPERTIES
  LocalNavigation
CHECK_DEADLOCK FALSE
