SPECIFICATION Spec
CONSTANTS
  p1 = p1
  p2 = p2
  Requests <- Requests2
  Turns <- Turns2
  Parents <- TwoParents
  ResolvedHistory = 1
  NotifiedHistory = 1
  Holds = {"settled", "pending"}
  Endings = {"atEnd"}
  Notifies = {"brief"}
  Waiting = {FALSE}
  MaxCrashes = 0
  MaxFaults = 0
  MaxStops = 0
  MaxDetached = 0
  MaxReleases = 1
  MaxEvicts = 0
  MaxCancels = 1
  MaxOutlives = 0
SYMMETRY ParentSymmetry
INVARIANTS
  BindFindsItsRow
  HeldBoundaryWaits
  OneDeliveryPerBoundary
  NotToldTwiceOfAKey
PROPERTIES
  TakenIsNotForgotten
CHECK_DEADLOCK FALSE
