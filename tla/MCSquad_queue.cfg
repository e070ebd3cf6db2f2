CONSTANTS
  Tasks = {1, 2}
  Procs = {p1, p2}
  Rounds = 1
  Counts = {0, 1}
  Me = 1
  Plays <- Queued2
SPECIFICATION Spec
SYMMETRY Symmetric
INVARIANTS
  OneSession
  StartsAfterDependencies
PROPERTIES
  HeldNotMerged
CHECK_DEADLOCK FALSE
