SPECIFICATION Spec
CONSTANTS
  v1 = v1
  Chips = {0}
  NumPlanes = 2
  Groups = 1
  HeldGroups = {}
  Spares = 2
  PagesPerBlock = 1
  Values = {v1}
  Calls = {"write", "sync"}
  MaxCalls = 3
  MaxFailures = 2
INVARIANTS GivesUpOnlyWithoutSpare
SYMMETRY ValueSymmetry
CHECK_DEADLOCK FALSE
