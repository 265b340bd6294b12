SPECIFICATION FairSpec
CONSTANTS
  Sessions = {"s1"}
  Asks = {1, 2}
  SessionOf <- OneSession
  Dialogs = {2}
  Buffer = 2
  MaxNoise = 1
  MaxAnswers = 2
INVARIANTS
  PromptHasItsAsker
  VerdictIsTheChoice
PROPERTIES
  AsksSettle
CHECK_DEADLOCK FALSE
