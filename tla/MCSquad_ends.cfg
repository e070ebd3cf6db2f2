CONSTANTS
  Tasks = {1, 2}
  Procs = {p1, p2}
  Rounds = 1
  Counts = {0, 1}
  Me = 1
  Plays <- Crash2
SPECIFICATION FairSpec
PROPERTIES
  OwnStepsEnd
CHECK_DEADLOCK FALSE
