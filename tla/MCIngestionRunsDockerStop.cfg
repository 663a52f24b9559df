SPECIFICATION Spec
CONSTANTS
  Batches = {b1}
  Handlers = {h1}
  Pids = {1, 2}
  ApiPid = 1
  Deployment = "docker"
  NumSources = 1
  MaxItems = 1
  MaxApiRestarts = 0
  ForeignOwners = {}
INVARIANTS EveryForceStoppedIsDead
