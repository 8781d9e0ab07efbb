CONSTANTS
  Admins = {admin}
  Dogs = {w1}
  Daemons = {d1, d2}
  Commands <- All
  Circumstances <- Worlds
SPECIFICATION FairSpec
INVARIANTS
  TypeOK
  StopLastsAlone
  PidfileNamesDaemon
PROPERTIES
  StartServes
  DogRepairs
