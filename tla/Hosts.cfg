SPECIFICATION ExecFairSpec
CONSTANTS
  Requests = {1, 2}
  KindOf <- OneOfEach
  MaxConns = 2
  CtrlBuffer = 1
  MaxFaults = 1
  LineSize = 3
  MaxReply = 2
  MaxLines = 1
  PipeCap = 1
INVARIANTS
  ExecTypeOK
  PresenceIsServed
  PendingIsAwaited
PROPERTIES
  CallsReturn
  EndsTogether
CHECK_DEADLOCK FALSE
