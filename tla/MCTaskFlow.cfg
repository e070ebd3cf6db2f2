CONSTANTS
  Others = {2}
  Counts = {0, 1}
  Rounds = 4
  RetryCap = 5
SPECIFICATION Spec
INVARIANTS
  TypeOK
  RoundsBounded
  HistoryAligned
  AcceptedPassed
  ConvergenceGuard
PROPERTIES
  FinishedForGood
  MergingEntered
CHECK_DEADLOCK FALSE
