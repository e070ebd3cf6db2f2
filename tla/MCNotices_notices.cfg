CONSTANTS
  Observers = {o1, o2}
  Targets = {"running", "ready", "failed", "done"}
  States = {"working", "needs_input", "failed"}
  Moves = 2
  Turns = 1
  Crashes = 1
SPECIFICATION FairSpec
INVARIANTS
  PhaseSentOnce
PROPERTIES
  Settles
  PhaseTold
CHECK_DEADLOCK FALSE
