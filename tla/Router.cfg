SPECIFICATION RouterSpec
CONSTANTS
  Address = {a1}
  Call = {c1}
  Timed = {c1}
  MaxBreaks = 2
  MaxKeeps = 1
CHECK_DEADLOCK FALSE
INVARIANTS
  ReadyMeansRouted
PROPERTIES
  KeptNodeIsReachable
  CallsAndTunnelsEnd
