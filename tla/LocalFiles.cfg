SPECIFICATION LocalSpec
CONSTANTS
  N = 2
  M = 2
INVARIANTS
  NothingLost
  AnswerIsTrue
  CopiesAreTrue
PROPERTIES
  OthersKept
CHECK_DEADLOCK FALSE
