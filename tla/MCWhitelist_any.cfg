CONSTANTS
  ServiceLines <- Lines
  Worlds <- Scenes
  MaxEntries = 4
  MaxWords = 2
  MaxFiled = 2
SPECIFICATION Spec
INVARIANTS
  ListOK
  UnchangedIsFiled
  WantedIsOn
PROPERTIES
  OffStaysOff
