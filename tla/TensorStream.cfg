SPECIFICATION Spec
CONSTANTS
  Settings <- Every
  MaxFrames = 3
  Buffer = 2
INVARIANTS
  FramesArriveWhole
  TensorsKeepTheirData
PROPERTIES
  StreamSettles
CHECK_DEADLOCK FALSE
