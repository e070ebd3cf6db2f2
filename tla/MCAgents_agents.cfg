CONSTANTS
  Commands = {c1}
  StatusLines = {s1}
  ShareWait = 1
  Timeout = 2
  OrphanAge = 4
  DownFor = 2
  Crashes = 1
SPECIFICATION FairSpec
INVARIANTS
  OnlyOrphansKilled
PROPERTIES
  AnswersAreRecent
  AsksEnd
  OrphansEnd
CHECK_DEADLOCK FALSE
