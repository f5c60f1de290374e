SPECIFICATION Spec
CONSTANTS
  NumChips = 1
  NumPlanes = 2
  ActualNumBlocks = 7
  MAX_FLASH_PARTITIONS = 3
  MAX_FLASH_VPARTITIONS = 1
  MAX_FLASH_CHIPS = 2
  MAX_FLASH_DEVICES = 2
  MAX_INTERLEAVED_CHIPS = 2
  UsageRange = 3
  Requests <- Overlapping
  Leftovers <- Stack
  Ids <- Devices
  MaxSets = 1
  MaxOpens = 2
  MaxErases = 1
  MaxFailures = 1
  MaxCuts = 1
INVARIANT
  PartitionsDisjoint
CHECK_DEADLOCK FALSE
