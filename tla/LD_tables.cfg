SPECIFICATION Spec
CONSTANTS
  NumChips = 2
  NumPlanes = 2
  ActualNumBlocks = 5
  MAX_FLASH_PARTITIONS = 3
  MAX_FLASH_VPARTITIONS = 1
  MAX_FLASH_CHIPS = 2
  MAX_FLASH_DEVICES = 2
  MAX_INTERLEAVED_CHIPS = 2
  UsageRange = 3
  Requests <- Layouts
  Leftovers <- Stack
  Ids <- Devices
  MaxSets = 2
  MaxOpens = 2
  MaxErases = 1
  MaxFailures = 1
  MaxCuts = 1
INVARIANTS
  TypeOK
  AcceptedTablesBoot
  SetTableSurvives
  OpenDevicesHaveUsers
  DevTablesAgree
  BlocksApart
CHECK_DEADLOCK FALSE
