SPECIFICATION Spec
CONSTANTS
  p1 = p1
  p2 = p2
  Requests <- Requests1
  Turns <- Turns3
  Parents <- OneParent
  ResolvedHistory = 20
  NotifiedHistory = 200
  Holds = {"settled", "pending"}
  Endings = {"atEnd", "released"}
  Notifies = {"brief"}
  Waiting = {FALSE}
  MaxCrashes = 1
  MaxFaults = 0
  MaxStops = 0
  MaxDetached = 0
  MaxReleases = 0
  MaxEvicts = 0
  MaxCancels = 0
  MaxOutlives = 0
INVARIANTS
  AnsweredByItsOwnWork
  NeverSpentAndOwed
PROPERTIES
  KeepsContract
CHECK_DEADLOCK FALSE
