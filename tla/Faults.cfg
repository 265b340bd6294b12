SPECIFICATION Spec
CONSTANTS
  p1 = p1
  p2 = p2
  Requests <- Requests2
  Turns <- Turns2
  Parents <- OneParent
  ResolvedHistory = 20
  NotifiedHistory = 200
  Holds = {"settled"}
  Endings = {"atEnd"}
  Notifies = {"brief"}
  Waiting = {FALSE}
  MaxCrashes = 0
  MaxFaults = 1
  MaxStops = 1
  MaxDetached = 0
  MaxReleases = 0
  MaxEvicts = 1
  MaxCancels = 0
  MaxOutlives = 1
INVARIANTS
  TypeOK
  OutstandingIsDurable
  WokenOnDurableClaim
PROPERTIES
  DurableAnswerStays
CHECK_DEADLOCK FALSE
