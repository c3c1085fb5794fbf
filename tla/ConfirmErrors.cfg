SPECIFICATION FairSpec
CONSTANTS
  Blocks <- ForkBlocks
  Root = 0
  PriorOf <- ForkPriorOf
  LevelOf <- ForkLevelOf
  SkipOf <- ForkSkipOf
  NSeqConfSigs = 2
  NSkipConfSigs = 3
  NConfSigs = 2
  Threads = {processblock, witness}
  None = None
  DbErrors = TRUE
  MaxRestarts = 1
CHECK_DEADLOCK FALSE
INVARIANT IInv DbIsChain
PROPERTY ImplementsLog Returns
