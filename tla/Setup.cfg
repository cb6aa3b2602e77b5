SPECIFICATION Spec
CONSTANTS
  w1 = w1
  w2 = w2
  Worker = {w1, w2}
  Owner = Owner
  TailHost = TailHost
  None = None
  Gone = Gone
  Dropped = Dropped
  Settings <- Deployments
  LayerMemory <- Layers
  Memories = {1, 2}
  HostMemory = 2
  MaxRegister = 2
  MaxInit = 2
INVARIANTS
  ShipmentIsRight
PROPERTIES
  EveryoneIsTold
  StartingEnds
CHECK_DEADLOCK FALSE
