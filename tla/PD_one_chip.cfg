SPECIFICATION Spec
CONSTANTS
  v2 = v2
  v1 = v1
  Chips = {0}
  NumPlanes = 2
  Groups = 3
  HeldGroups = {0}
  Spares = 1
  PagesPerBlock = 1
  Values = {v1, v2}
  Calls = {"write_group", "fill", "copy", "copy_group", "erase", "erase_group", "sync"}
  MaxCalls = 3
  MaxFailures = 2
INVARIANTS TypeOK PendingIntact AcceptedSurvives
SYMMETRY ValueSymmetry
CHECK_DEADLOCK FALSE
