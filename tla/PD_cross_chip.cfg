SPECIFICATION Spec
CONSTANTS
  v2 = v2
  v1 = v1
  Chips = {0, 1}
  NumPlanes = 2
  Groups = 3
  HeldGroups = {0}
  Spares = 0
  PagesPerBlock = 1
  Values = {v1, v2}
  Calls = {"copy_group", "cross_copy"}
  MaxCalls = 2
  MaxFailures = 0
INVARIANTS BuffersBusy
SYMMETRY ValueSymmetry
CHECK_DEADLOCK FALSE
