SPECIFICATION Spec
CONSTANTS
  Settings <- Every
  ServerSlices = 2
  MaxWorkers = 2
INVARIANTS
  BatchesRunAlone
  ClientsStayApart
  CutSurvives
PROPERTIES
  RoundsEnd
CHECK_DEADLOCK FALSE
