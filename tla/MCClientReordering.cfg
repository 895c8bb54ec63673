SPECIFICATION Spec
CONSTANTS
  A = a
  B = b
  Starters = {a}
  SeqModulus = 1000
  NUMBER_OF_ROWS = 2
  NUMBER_OF_COLUMNS = 2
  InARow = 3
  Reordering = TRUE
  Lossy = FALSE
  Duplicating = FALSE
  QueueCap = 3
  RetransmitCap = 1
PROPERTY TurnKept
CHECK_DEADLOCK FALSE
