SPECIFICATION FairSpec
CONSTANTS
  Addresses = {1, 2}
  NONE = 0
  BUFFER_SIZE = 2
  LINE_LENGTH = 2
  UpSize = 2
  DownSize = 2
  MaxLines = 2
  MESSAGE_SIZE = 1
  MaxTyped = 7
INVARIANTS
  StreamIsExact
  NoMutualBlock
  ServerSurvives
PROPERTIES
  EverythingComesBack
  SessionEnds
CHECK_DEADLOCK FALSE
