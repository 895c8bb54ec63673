SPECIFICATION MSpec
CONSTANTS
  NUMBER_OF_ROWS = 4
  NUMBER_OF_COLUMNS = 4
  InARow = 3
INVARIANTS
  WinnerSeesEveryLine
  DiscsStack
  WinIsTheMovers
CHECK_DEADLOCK FALSE
