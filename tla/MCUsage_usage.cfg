CONSTANTS
  Readers = {r1, r2}
  Ids = {1, 2, 3}
  RecentIDs = 2
  CtxEvery = 1
  SaveEvery = 2
  Old = 2
  Lines = 4
  Rewrites = 1
  Mishaps = 1
SPECIFICATION FairSpec
INVARIANTS
  EachCountedOnce
PROPERTIES
  CatchesUp
CHECK_DEADLOCK FALSE
