SPECIFICATION Spec
CONSTANTS
  Lines = {1, 2, 3}
  Routes <- Mixed
  MaxLives = 2
  MaxTurns = 4
  MaxFaults = 1
  MaxOwn = 1
  MaxUnread = 2
INVARIANTS
  TypeOK
  QueuedIsKept
  OwnIdentity
  HandedInOrder
  RepeatsAreMarked
  AnsweredIsNotRepeated
  ParkedBehindSomething
CHECK_DEADLOCK FALSE
