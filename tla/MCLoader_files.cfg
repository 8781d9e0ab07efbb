CONSTANTS
  MaxIp = 3
  Ranges <- Three
  MaxEntries = 4
  AllocChunk = 1
  Bytes <- Alphabet
  LF = "n"
  MaxLine = 4
  Chunk = 4
  NFiles = 2
  Contents <- Kinds
  TryLines = 2
  RangeIn <- RangeOf
  LabelIn <- HasText
  LineOf <- Printed
SPECIFICATION LoaderFairSpec
INVARIANTS
  LoaderTypeOK
  LoadedIsWhatFilesHold
  PremergedIsBlocked
PROPERTIES
  ServesAfterGoodLoad
  ReadsLines
  ImplementsBlocklist
  LoadEnds
