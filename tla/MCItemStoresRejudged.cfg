SPECIFICATION Spec
CONSTANTS
  b1 = b1
  b2 = b2
  r1 = r1
  r2 = r2
  NoBatch = NoBatch
  Batches = {b1, b2}
  Refs = {r1, r2}
  Unrelated = {}
  Overlap = FALSE
  MaxResets = 0
  MaxLapses = 0
SYMMETRY Symmetry
PROPERTIES EdgesJudgeCurrentText
CHECK_DEADLOCK FALSE
