CONSTANTS
  Asked <- MCAsked
  Results <- MCResults
  MaxResults = 3
  MaxRetries = 1
  MaxSwitches = 1
SPECIFICATION AnswerSpec
CHECK_DEADLOCK FALSE
INVARIANTS EventsInOrder CallsTold TextAsParsed SameWithoutStream RetryOnlyUnshown HistoryTold
