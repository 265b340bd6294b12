SPECIFICATION Spec
CONSTANTS
  Calls = {1, 2, 3}
  Behind <- Chained
  Kept = {2}
  Pools = {"p1", "p2"}
  PoolOf <- Shared
  MaxParallel = 2
  PoolSize = 1
  MaxPending = 1
  MaxAgents = 2
  MaxCost = 2
  HireAttempts = 2
  Retries = 1
  Bound <- EachOnce
  MaxKinds = 1
INVARIANTS
  TypeOK
  CountersHonest
  AgentBrakeHolds
  ServedByJournal
  NobodyLeftBehind
PROPERTIES
  NoneSneaksPast
  RunEnds
CHECK_DEADLOCK FALSE
