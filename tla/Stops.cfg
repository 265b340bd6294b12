SPECIFICATION Spec
CONSTANTS
  p1 = p1
  p2 = p2
  Requests <- Requests1
  Turns <- Turns2
  Parents <- OneParent
  ResolvedHistory = 20
  NotifiedHistory = 200
  Holds = {"settled", "replay"}
  Endings = {"atEnd"}
  Notifies = {"brief", "off"}
  Waiting = {FALSE, TRUE}
  MaxCrashes = 0
  MaxFaults = 0
  MaxStops = 1
  MaxDetached = 1
  MaxReleases = 0
  MaxEvicts = 0
  MaxCancels = 1
  MaxOutlives = 1
INVARIANTS
  NoSilentAnswer
  NotNeither
  AnswersComeFromEndedTurns
CHECK_DEADLOCK FALSE
