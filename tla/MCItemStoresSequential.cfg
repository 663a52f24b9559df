SPECIFICATION Spec
CONSTANTS
  b1 = b1
  b2 = b2
  r1 = r1
  r2 = r2
  NoBatch = NoBatch
  Batches = {b1, b2}
  Refs = {r1, r2}
  Unrelated = {}
  Overlap = FALSE
  MaxResets = 1
  MaxLapses = 1
SYMMETRY Symmetry
INVARIANTS TypeOK OneEdgePerPair
PROPERTIES SuccessIsStored StaleEdgesAreCleared
CHECK_DEADLOCK FALSE
