SPECIFICATION FairPart
CONSTANTS
  Workers = {w1, w2}
  Producers = {p1, p2}
  MaxRows = 3
  MaxErrors = 1
  Stopped = 20
  NoThread = NoThread
  NWitnesses = 3
  MaxMal = 0
  MAX_NCONFSIGS = 31
  MAX_SCORE_BITS = 24
  MaxLevel = 4
  MaxBlocks = 20
  MaxRestarts = 0
  SyncFirst = FALSE
  Variants = {1}
CHECK_DEADLOCK FALSE
INVARIANT WorkqInv
PROPERTY WitnessProgress WorkqLive
