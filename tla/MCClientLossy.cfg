SPECIFICATION Spec
CONSTANTS
  A = a
  B = b
  Starters = {a}
  SeqModulus = 1000
  NUMBER_OF_ROWS = 2
  NUMBER_OF_COLUMNS = 3
  InARow = 2
  Reordering = TRUE
  Lossy = TRUE
  Duplicating = TRUE
  QueueCap = 3
  RetransmitCap = 2
INVARIANTS
  AtMostOneTurn
  ExactlyOnceInOrder
  ExpectedMoveIsValid
  BoardsAgree
  OutcomesAgree
PROPERTY PlaysOneGame
CHECK_DEADLOCK FALSE
