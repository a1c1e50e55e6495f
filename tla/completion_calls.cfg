SPECIFICATION Spec
CONSTANTS
  Others = 2
  MaxAttempts = 2
  RetryMax = 2
  MaxSegments = 3
  MaxWork = 3
  MaxPolls = 2
  MaxRounds = 2
  MaxLines = 2
INVARIANTS InBounds MessagesWhole
PROPERTIES PostedByOwner MutedRests ContinuesUnfinished RequestEnds
