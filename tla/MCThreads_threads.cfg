CONSTANTS
  Procs = {p1, p2}
  Turns = 2
  Limit = 2
  Hangs = 1
  Refusals = 1
SPECIFICATION FairSpec
INVARIANTS
  SentOnce
  LookIsTrue
PROPERTIES
  OpsEnd
CHECK_DEADLOCK FALSE
