CONSTANTS
  Versions = {1, 2}
  Shipping = {1}
  Earlier = {1}
  Lines = {"a"}
  Hooks <- HasGroup
  Commands = 3
  Acts = 3
  Crashes = 1
SPECIFICATION Spec
INVARIANTS
  LineNeverLost
  EditKept
  GivenBack
PROPERTIES
  UserGroupsKept
CHECK_DEADLOCK FALSE
