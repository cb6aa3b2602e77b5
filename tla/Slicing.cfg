SPECIFICATION SlicingSpec
CONSTANTS
  Cases <- SmallCases
  Fleets <- SmallFleets
  AdamFactor = 4
INVARIANTS
  RunsComputeTheModel
  ValidateIsExact
  StrategiesDoTheirBest
