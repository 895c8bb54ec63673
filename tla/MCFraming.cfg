SPECIFICATION FairSpec
CONSTANTS
  Lengths = {0, 3, 9, 11}
  BuffSize = 16
  Width = 16
  MaxMessages = 3
  MaxLinks = 2
INVARIANTS
  TypeOK
  ClosedAfterLast
PROPERTIES
  IsChannel
  EveryMessageHandled
CHECK_DEADLOCK FALSE
