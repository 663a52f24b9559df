SPECIFICATION Spec
CONSTANTS
  b1 = b1
  r1 = r1
  NoBatch = NoBatch
  Batches = {b1}
  Refs = {r1}
  Unrelated = {}
  Overlap = FALSE
  MaxResets = 0
  MaxLapses = 0
SYMMETRY Symmetry
INVARIANTS DeletedItemsLeaveNothing
CHECK_DEADLOCK FALSE
