\* Two failing blocks, two power losses; a table of two map pages.
SPECIFICATION Spec
CONSTANTS
  BmAreaStartBlock = 2
  NumBlocks = 6
  PagesPerBlock = 4
  EntriesPerPage = 3
  FactoryBad = {}
  Blocks = 2
  Maps = 0
  Marks = 0
  Powers = 2
  Formats = 0
  Budget <- MCBudget
CHECK_DEADLOCK FALSE
INVARIANTS
  TypeOK
  ReplacementsSurviveButWindow
  DataSurvives
  SequenceAhead
