SPECIFICATION Spec
CONSTANTS
  NumWorkers = 3
  NumBatches = 2
  MaxRetries = 1
  MaxFaults = 1
  Slow = {2}
INVARIANTS
  FirstRecoveryIsRight
  IndicesAgree
  UnrunBatchesAreTold
PROPERTIES
  RunEndsAfterOneFailure
