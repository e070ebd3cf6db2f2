CONSTANTS
  Tasks = {1}
  Procs = {p1, p2}
  Rounds = 2
  Counts = {0, 1}
  Me = 1
  Plays <- User1
SPECIFICATION Spec
SYMMETRY Symmetric
INVARIANTS
  DoneIsClean
PROPERTIES
  RowFollowsFlow
  MergesMerging
  AcceptedUnchanged
  RecheckAfterFix
CHECK_DEADLOCK FALSE
