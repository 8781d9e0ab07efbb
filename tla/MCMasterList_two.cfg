CONSTANTS
  Procs = {p1, p2}
  Remote = {r1}
  Local = {l1}
  MaxVersion = 2
  Empty = {}
  Commands <- StartAndUpdate
  Circumstances <- Calm
SPECIFICATION Spec
INVARIANTS
  LoadedIsCurrent
