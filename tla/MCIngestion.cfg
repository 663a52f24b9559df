SPECIFICATION ViewsSpec
CONSTANTS
  b1 = b1
  b2 = b2
  r1 = r1
  r2 = r2
  Batches = {b1, b2}
  Refs = {r1, r2}
  LateRefs = {r2}
  Unreadable = {r2}
  Overlap = FALSE
  MidRunEdits = TRUE
  MaxTime = 4
  Entries <- MCEntries
  Kinds <- MCKinds
  PerPage = 1
  Back = 2
  Ahead = 1
  LocalLag = 1
  DateRanges <- MCDateRanges
  MaxFeedTime = 4
  Texts <- MCTexts
  Targets <- MCTargets
  Overlaps <- MCOverlaps
  Triggers <- MCTriggers
  MaxPolls = 1
  MaxRuns = 2
SYMMETRY Symmetry
INVARIANTS
  TypesOK
  OnlyUnreadOrNoiseIsLost
  EveryLossHasACause
  UndisturbedListingIsComplete
  OnlyChangesAreExtracted
  ChunksCoverTheText
  ShownRunIsFollowed
PROPERTIES
  FailedRunsAreRetried
CHECK_DEADLOCK FALSE
