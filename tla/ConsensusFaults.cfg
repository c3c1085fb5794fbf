SPECIFICATION Spec
CONSTANTS
  NWitnesses = 3
  MaxMal = 1
  MAX_NCONFSIGS = 31
  MAX_SCORE_BITS = 24
  MaxLevel = 6
  MaxBlocks = 9
  MaxRestarts = 1
  SyncFirst = FALSE
  Variants = {1,2}
CHECK_DEADLOCK FALSE
INVARIANT ConsensusInv
