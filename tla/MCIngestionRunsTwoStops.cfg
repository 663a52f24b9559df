SPECIFICATION Spec
CONSTANTS
  Batches = {b1}
  Handlers = {h1, h2}
  Pids = {1, 2}
  ApiPid = 1
  Deployment = "host"
  NumSources = 2
  MaxItems = 2
  MaxApiRestarts = 1
  ForeignOwners = {"same_user", "other_user"}
SYMMETRY Symmetry
INVARIANTS TypeOK SuccessIsEarned CountIsCommitted
PROPERTIES ImplementsRunLedger
