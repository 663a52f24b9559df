SPECIFICATION Spec
CONSTANTS
  b1 = b1
  b2 = b2
  r1 = r1
  NoBatch = NoBatch
  Batches = {b1, b2}
  Refs = {r1}
  Unrelated = {}
  Overlap = TRUE
  MaxResets = 2
  MaxLapses = 2
SYMMETRY Symmetry
INVARIANTS ChunksAreSearchable EmptyItemsAreLapses
CHECK_DEADLOCK FALSE
