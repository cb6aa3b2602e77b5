SPECIFICATION Spec
CONSTANTS
  NumSlices = 5
  NumSlots = 2
  NumBatches = 3
  MayFreeze = {2}
INVARIANTS
  PagesAreLatest
PROPERTIES
  RunCloses
