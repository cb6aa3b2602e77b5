SPECIFICATION CheckpointSpec
CONSTANTS
  NumLayers = 5
  NumSlices = 3
  NumEpochs = 2
  Retries = 2
  Kind <- MCKind
  Blank = "relu"
CHECK_DEADLOCK FALSE
INVARIANTS
  AttemptsStartFromLastEpoch
  LayersKeepTheirPlace
  CheckpointsRestore
