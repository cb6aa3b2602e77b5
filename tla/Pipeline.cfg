SPECIFICATION Spec
CONSTANTS
  NumSlices = 3
  NumMicro = 3
  NumBatches = 3
INVARIANTS
  TypeOK
  StepsAreWholeBatches
  ActivationsAreFresh
  LabelBeforeActivation
  BatchesEndWhole
PROPERTIES
  TrainsInSync
