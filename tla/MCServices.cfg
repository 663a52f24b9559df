CONSTANTS
  Turns <- TurnNumbers
  Earlier <- EarlierTurns
  MaxRetries = 1
  MaxMounts = 2
  MaxUpsets = 1
  ItemCount = 4
  TopKVector = 2
  TopKKeyword = 2
  MaxLinks = 3
  Attempts <- AttemptNumbers
  Callbacks = {c1, c2}
  ApiLoaders = {l1}
  BatchLoaders = {l2}
  MaxPolls = 1
  Requests = {r1, r2}
  MaxAge = 2
  MaxTime = 4
  Schedules = {"often", "rarely"}
  Default = "default"
  MaxWrites = 2
SPECIFICATION FairSpec
INVARIANTS
  TypeOK
  TurnsAreWhole
  AnswersAreKept
  HistoryAlternates
  AnswersAreSeen
  FoundTwiceIsAhead
  
  CitationsMatchContext
  NewestGrantIsKept
PROPERTIES
  EveryQuestionSettles
  ConnectingEnds
  AnswersAreRecent
  FireTimesAreServed
CHECK_DEADLOCK FALSE
