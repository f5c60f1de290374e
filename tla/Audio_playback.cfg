\* A ring of two blocks of two units by default, which can be set to three; two
\* writes of less than a block or of more than the default ring; two syncs, resets,
\* closes or fragment settings; one late interrupt, failed copy or write out of
\* step.
SPECIFICATION FairSpec
CONSTANTS
  Block = 2
  Sizes = {4, 6}
  DefaultSize = 4
  MemorySize = 8
  Large = 5
  Writes <- MCWrites
  Samples = 3
  MaxWrites = 2
  MaxControls = 2
  MaxMishaps = 1
CHECK_DEADLOCK FALSE
INVARIANTS
  TypeOK
  WithinRing
  RingInStep
  SpaceIsPlayed
  ReportedIsQueued
PROPERTIES
  StopsWhenPlayed
  DescriptorsKept
  
