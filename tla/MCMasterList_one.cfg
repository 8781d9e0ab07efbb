CONSTANTS
  Procs = {p1}
  Remote = {r1}
  Local = {l1}
  MaxVersion = 2
  Empty = {2}
  Commands <- All
  Circumstances <- Trouble
SPECIFICATION Spec
INVARIANTS
  TypeOK
  DeathIsNoticed
  LoadedUnlessFailed
PROPERTIES
  KeepsWholeList
