SPECIFICATION FairSpec
CONSTANTS
  Clients = {1, 2, 3}
  NONE = 0
  MAX_FDS = 2
  MaxConnects = 3
  MaxData = 1
INVARIANT NeverBlocks
PROPERTIES
  RefusedOnlyWhenFull
  ClosedIsReleased
  WaitingIsTold
CHECK_DEADLOCK FALSE
