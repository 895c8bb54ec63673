SPECIFICATION HFairSpec
CONSTANTS
  A = a
  B = b
  Starters = {a, b}
  SeqModulus = 1000
  NUMBER_OF_ROWS = 2
  NUMBER_OF_COLUMNS = 2
  InARow = 3
  Reordering = TRUE
  Lossy = TRUE
  Duplicating = TRUE
  QueueCap = 2
  RetransmitCap = 1
  MaxHeartbeats = 1
INVARIANTS
  AckedWasAccepted
  HeartbeatsArePaired
PROPERTIES
  ReliableChannels
  HeartbeatsAnswered
CHECK_DEADLOCK FALSE
