CONSTANTS
  NClients = 3
  NSlices = 3
  MaxRounds = 3
  None = None
  Runs <- TheRuns
  Selections <- TheSelections
SPECIFICATION Spec
INVARIANTS
  StatesFollowTheirClient
PROPERTIES
  StepsTakeWholeBatches
  RunEnds
