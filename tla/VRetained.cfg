SPECIFICATION Spec
CONSTANTS
  Lines = {1, 2, 3}
  Routes <- Tasks
  MaxLives = 2
  MaxTurns = 3
  MaxFaults = 0
  MaxOwn = 0
  MaxUnread = 2
INVARIANT
  NothingQueuedIsLost
CHECK_DEADLOCK FALSE
