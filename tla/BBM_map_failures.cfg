\* User, spare and map blocks fail, and bad marks; power goes once.  Blocks
\* 1 and 3 left the factory bad: one is replaced from the first format on.
SPECIFICATION FairSpec
CONSTANTS
  BmAreaStartBlock = 2
  NumBlocks = 8
  PagesPerBlock = 2
  EntriesPerPage = 6
  FactoryBad = {1, 3}
  Blocks = 2
  Maps = 2
  Marks = 1
  Powers = 1
  Formats = 0
  Budget <- MCBudget
CHECK_DEADLOCK FALSE
INVARIANTS
  UniqueReplacement
  UsersAvoidFactoryBad
  OnlyStrayMapsRevive
  DataUnlessStray
  AppendsOnBlank
  Reserved
  MapBlocksAgree
  RebootIsIdentity
PROPERTIES
  BadBlocksUntouched
  CallsEnd
