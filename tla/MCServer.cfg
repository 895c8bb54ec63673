SPECIFICATION Spec
CONSTANTS
  Clients = {1, 2, 3}
  None = 0
  Fds <- MCFds
  Listener <- MCListener
  FD_SETSIZE = 4
  Dummy = dummy
  OnAcceptable = on_acceptable
  Kinds = {"register", "peer_select_ack"}
  LeavesEarly = TRUE
  Hasty = {2}
  Aborting = {1, 3}
  MaxOpen = 3
  MaxSent = 2
INVARIANTS
  SlotsMatchTable
  NeverBlocks
  PairsAreMutual
  RegisteredOnceThenPaired
CHECK_DEADLOCK FALSE
