CONSTANTS
  NFiles = 1
  Signals <- ReloadOnly
  MaxSignals = 1
  MaxVersion = 0
  LogLocks = FALSE
SPECIFICATION Spec
INVARIANTS
  HitsLiveEntry
