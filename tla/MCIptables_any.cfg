CONSTANTS
  Chains <- TwoChains
  MaxDeaths = 2
  Circumstances <- Worlds
SPECIFICATION Spec
INVARIANTS
  TypeOK
  JumpsRecorded
  CleansUp
  ActiveComplete
  ListDecides
  ConfHonoured
