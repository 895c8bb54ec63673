SPECIFICATION FairSpec
CONSTANTS
  Clients = {1, 2, 3, 4}
  None = 0
  Fds <- MCFds
  Listener <- MCListener
  FD_SETSIZE = 4
  Dummy = dummy
  OnAcceptable = on_acceptable
  Kinds = {"register", "wrong_password", "heartbeat", "other"}
  LeavesEarly = FALSE
  Hasty = {}
  Aborting = {}
  MaxOpen = 2
  MaxSent = 2
PROPERTIES
  EveryoneGetsAPeer
  ClosedIsReleased
CHECK_DEADLOCK FALSE
