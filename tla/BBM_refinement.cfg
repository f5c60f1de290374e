\* The manager implements DurableMap, through a format of a chip in use.
SPECIFICATION Spec
CONSTANTS
  BmAreaStartBlock = 1
  NumBlocks = 7
  PagesPerBlock = 3
  EntriesPerPage = 6
  FactoryBad = {}
  Blocks = 1
  Maps = 1
  Marks = 0
  Powers = 1
  Formats = 1
  Budget <- MCBudget
CHECK_DEADLOCK FALSE
PROPERTIES
  ImplementsDurableMap
