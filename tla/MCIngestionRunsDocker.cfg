SPECIFICATION FairSpec
CONSTANTS
  Batches = {b1, b2}
  Handlers = {h1}
  Pids = {1, 2}
  ApiPid = 1
  Deployment = "docker"
  NumSources = 1
  MaxItems = 0
  MaxApiRestarts = 0
  ForeignOwners = {"same_user", "other_user"}
INVARIANTS ForceStoppedIsDead
PROPERTIES FinishedIsFrozen CancelFinalises
