SPECIFICATION FairSpec
CONSTANTS
  A = a
  B = b
  Starters = {a}
  SeqModulus = 1000
  NUMBER_OF_ROWS = 2
  NUMBER_OF_COLUMNS = 2
  InARow = 3
  Reordering = FALSE
  Lossy = TRUE
  Duplicating = TRUE
  QueueCap = 2
  RetransmitCap = 2
INVARIANTS
  ToMoveHasTurn
PROPERTIES
  MoveIsDelivered
CHECK_DEADLOCK FALSE
