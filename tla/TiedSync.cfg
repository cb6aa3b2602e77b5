SPECIFICATION Spec
CONSTANTS
  NumSlices = 3
  NumMicro = 2
  NumBatches = 2
  MaxRounds = 2
  Groups <- SharedGroups
  Frozen <- FrozenGroups
INVARIANTS
  SumOfEveryUse
  CopiesAreCurrent
PROPERTIES
  RoundCompletes
