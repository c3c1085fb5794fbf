CONSTANTS
  Blocks <- MCBlocks
  Root = 0
  PriorOf <- MCPriorOf
  LevelOf <- MCLevelOf
  Outcome <- MCOutcome
  OwnBlocks = {2}
  Early = {3}
  HighPriority = {0, 1, 2}
  PruneTrail = 2
  DoneTrail = 1
  Txs = {"a", "b"}
  Submitters = {relay, wallet}
  TxThreads = {w1, w2}
  BlockLists <- MCBlockLists
  MaxBlocks = 2
  Nil = Nil
SPECIFICATION FairSpec
CHECK_DEADLOCK FALSE
INVARIANT BlockqInv TxqInv
PROPERTY ArrivedBecomesValid BlockValidateEnds
