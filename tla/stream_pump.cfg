CONSTANTS
  Lines <- MCLines
  MaxLines = 3
  BufferSize = 1
  MinChars = 3
  MaxKeepAlive = 2
  IdleTicks = 1
SPECIFICATION PumpSpec
CHECK_DEADLOCK FALSE
INVARIANTS AnswerArrives ThinkingHidden SameInNode
PROPERTIES StreamEnds
