SPECIFICATION Spec
CONSTANTS
  NWitnesses = 3
  MaxMal = 0
  MAX_NCONFSIGS = 31
  MAX_SCORE_BITS = 24
  MaxLevel = 4
  MaxBlocks = 7
  MaxRestarts = 1
  SyncFirst = TRUE
  Variants = {1}
CHECK_DEADLOCK FALSE
INVARIANT ConsensusInv DistinctSigners OncePerLevel
