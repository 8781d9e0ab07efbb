CONSTANTS
  NFiles = 2
  Signals <- All
  MaxSignals = 2
  MaxVersion = 1
  LogLocks = FALSE
SPECIFICATION FairSpec
INVARIANTS
  TypeOK
  SearchesWholeList
PROPERTIES
  HupTakesEffect
  TermEnds
