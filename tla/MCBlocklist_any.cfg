CONSTANTS
  MaxIp = 3
  Ranges <- SomeRanges
  MaxEntries = 3
  AllocChunk = 2
SPECIFICATION FairSpec
INVARIANTS
  IInv
  CoverageExact
  FindExact
  WithinAllocation
  LabelsHonest
PROPERTIES
  Terminates
