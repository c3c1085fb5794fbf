SPECIFICATION Spec
CONSTANTS
  Blocks <- MCBlocks
  Root = 0
  PriorOf <- MCPriorOf
  LevelOf <- MCLevelOf
  SkipOf <- MCSkipOf
  NSeqConfSigs = 2
  NSkipConfSigs = 3
  NConfSigs = 2
  Threads = {processblock, witness}
  None = None
  DbErrors = TRUE
  MaxRestarts = 0
INVARIANT RowsBelongToBlocks
CHECK_DEADLOCK FALSE
