SPECIFICATION FreshSpec
CONSTANTS
  ConfigKeys = {gen, emb}
  EnvKeys = {dirs}
  ModeKeys = {}
  ModelKeys = {emb}
  a = a
  b = b
  c = c
  Values = {a, b, c}
  Default = a
  Canonical <- Readback
  Choices <- Entries
  MaxPanels = 2
  MaxEdits = 2
  Readers = {r1}
  Callers = {1, 2, r1}
  None = None
INVARIANTS OnePutAtATime
CHECK_DEADLOCK FALSE
