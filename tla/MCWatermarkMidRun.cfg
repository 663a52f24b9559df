SPECIFICATION Spec
CONSTANTS
  b1 = b1
  r1 = r1
  Batches = {b1}
  Refs = {r1}
  LateRefs = {}
  Unreadable = {}
  Overlap = FALSE
  MidRunEdits = TRUE
  MaxTime = 4
SYMMETRY Symmetry
INVARIANTS NothingIsLost
CHECK_DEADLOCK FALSE
