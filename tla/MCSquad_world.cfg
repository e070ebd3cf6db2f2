CONSTANTS
  Tasks = {1}
  Procs = {p1, p2}
  Rounds = 1
  Counts = {0, 1}
  Me = 1
  Plays <- World1
SPECIFICATION Spec
SYMMETRY Symmetric
INVARIANTS
  TypeOK
  RemovedIsFinished
PROPERTIES
  RowFollowsFlow
CHECK_DEADLOCK FALSE
