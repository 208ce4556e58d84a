SPECIFICATION FairSpec
CONSTANTS
  a = a
  b = b
  Clients = {a, b}
  MaxFd = 9
  MaxHeld = 3
  Cells = 3
  TextCells = 2
  MaxSent <- MCMaxSent
INVARIANTS
  TypeOK
  WhoAsksIsAnswered
  DescriptorsAccounted
  ConsoleIsBack
  RunInOrder
  LostOnlyIfLate
PROPERTIES
  ClientsAreServed
CHECK_DEADLOCK FALSE
