SPECIFICATION FairSpec
CONSTANTS
  p1 = p1
  p2 = p2
  Requests <- Requests1
  Turns <- Turns2
  Parents <- OneParent
  ResolvedHistory = 20
  NotifiedHistory = 200
  Holds = {"replay"}
  Endings = {"atEnd"}
  Notifies = {"brief"}
  Waiting = {FALSE}
  MaxCrashes = 1
  MaxFaults = 0
  MaxStops = 0
  MaxDetached = 0
  MaxReleases = 1
  MaxEvicts = 0
  MaxCancels = 0
  MaxOutlives = 0
PROPERTIES
  OwedIsDelivered
CHECK_DEADLOCK FALSE
