SPECIFICATION MCSpec
CONSTANTS
  GUI = GUI
  CLI = CLI
  NoPage = NoPage
  Commands = {"gui.r"}
  MaxStack = 4
  MaxPosted = 0
INVARIANTS
  PageFollowsStack
CHECK_DEADLOCK FALSE
