SPECIFICATION FairSpec
CONSTANTS
  Slot = {s1, s2}
  Token = {t1, t2, t3}
  NoToken = NoToken
  HardLimit = 2
  KillGrace = 1
  LockTTL = 4
INVARIANTS
  TypeOK
  MutualExclusion
  LiveRunKeepsKey
PROPERTIES
  SingleFlightSpec
  KeyIsFreed
