CONSTANTS
  Admins = {admin}
  Dogs = {w1, w2}
  Daemons = {d1, d2}
  Commands <- All
  Circumstances <- Guarded
SPECIFICATION Spec
INVARIANTS
  StopLasts
