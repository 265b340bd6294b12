SPECIFICATION Spec
CONSTANTS
  p1 = p1
  p2 = p2
  Requests <- Requests2
  Turns <- Turns2
  Parents <- OneParent
  ResolvedHistory = 20
  NotifiedHistory = 200
  Holds = {"settled"}
  Endings = {"atEnd"}
  Notifies = {"brief"}
  Waiting = {FALSE}
  MaxCrashes = 0
  MaxFaults = 0
  MaxStops = 0
  MaxDetached = 0
  MaxReleases = 0
  MaxEvicts = 0
  MaxCancels = 0
  MaxOutlives = 1
PROPERTIES
  ClaimGuardsTheFile
CHECK_DEADLOCK FALSE
