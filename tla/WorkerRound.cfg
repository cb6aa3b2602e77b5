SPECIFICATION RoundSpec
CONSTANTS
  NumBatches = 2
  MaxRounds = 3
  Persistent = TRUE
CHECK_DEADLOCK FALSE
INVARIANTS
  RoundTypeOK
  CacheIsOfThisRound
  ActivationsAreUsedOnce
