SPECIFICATION FreshSpec
CONSTANTS
  ConfigKeys = {gen, mode}
  EnvKeys = {dirs}
  ModeKeys = {mode}
  ModelKeys = {}
  a = a
  b = b
  c = c
  Values = {a, b, c}
  Default = a
  Canonical <- Readback
  Choices <- Entries
  MaxPanels = 2
  MaxEdits = 2
  Readers = {r1}
  Callers = {1, 2, r1}
  None = None
INVARIANTS TypeOK SavesAreKept CacheIsFresh PanelShowsTheFile
PROPERTIES EverySaveSettles SwitchIsFollowedByReset
CHECK_DEADLOCK FALSE
