SPECIFICATION FairSpec
CONSTANTS
  v2 = v2
  v1 = v1
  Chips = {0, 1}
  NumPlanes = 2
  Groups = 1
  HeldGroups = {}
  Spares = 1
  PagesPerBlock = 1
  Values = {v1, v2}
  Calls = {"write", "write_group", "fill", "cross_copy", "read", "sync"}
  MaxCalls = 4
  MaxFailures = 1
INVARIANTS PendingIntact
PROPERTIES CallsReturn
CHECK_DEADLOCK FALSE
