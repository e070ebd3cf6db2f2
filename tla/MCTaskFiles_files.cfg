CONSTANTS
  Procs = {p1, p2}
  Inodes = {i1, i2}
  Withdrawals = 1
  Sessions = {a, b}
  Base = base
SPECIFICATION FilesSpec
SYMMETRY Symmetric
INVARIANTS
  Exclusive
  OverIsLeft
  KeptForRetry
  WorkerAsLaunched
PROPERTIES
  Spec
CHECK_DEADLOCK FALSE
