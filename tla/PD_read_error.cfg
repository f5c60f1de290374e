SPECIFICATION Spec
CONSTANTS
  v2 = v2
  v1 = v1
  Chips = {0, 1}
  NumPlanes = 2
  Groups = 1
  HeldGroups = {}
  Spares = 1
  PagesPerBlock = 1
  Values = {v1, v2}
  Calls = {"fill", "cross_copy"}
  MaxCalls = 4
  MaxFailures = 2
INVARIANTS BuffersInTurn
SYMMETRY ValueSymmetry
CHECK_DEADLOCK FALSE
