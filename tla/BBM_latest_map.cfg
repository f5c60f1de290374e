\* Power goes before the mark of a map block given up.
SPECIFICATION Spec
CONSTANTS
  BmAreaStartBlock = 1
  NumBlocks = 7
  PagesPerBlock = 3
  EntriesPerPage = 6
  FactoryBad = {}
  Blocks = 1
  Maps = 1
  Marks = 0
  Powers = 1
  Formats = 0
  Budget <- MCBudget
CHECK_DEADLOCK FALSE
INVARIANTS
  OpenFindsLatest
