CONSTANTS
  Procs = {p1}
  Remote = {r1}
  Local = {l1}
  MaxVersion = 2
  Empty = {}
  Commands <- All
  Circumstances <- Failing
SPECIFICATION Spec
INVARIANTS
  TrustedIsCurrent
