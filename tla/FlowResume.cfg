SPECIFICATION Spec
CONSTANTS
  Calls = {1, 2, 3, 4}
  Behind <- Piped
  Kept = {2}
  Pools = {"p1", "p2"}
  PoolOf <- ByParity
  MaxParallel = 1
  PoolSize = 1
  MaxPending = 4
  MaxAgents = 4
  MaxCost = 9
  HireAttempts = 1
  Retries = 0
  Bound <- KilledTwice
  MaxKinds = 0
INVARIANTS
  AnswersAreOwn
  NoSecondHire
CHECK_DEADLOCK FALSE
