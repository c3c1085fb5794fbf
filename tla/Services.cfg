CONSTANTS
  Blocks <- MCBlocks
  Root = 0
  PriorOf <- MCPriorOf
  LevelOf <- MCLevelOf
  Serials = {"a", "b", "c"}
  SpendsOf <- MCSpendsOf
  Own = {3}
  Txs <- MCTxs
  SkipOf <- MCSkipOf
  NSeqConfSigs = 2
  NSkipConfSigs = 3
  PruneTrail = 1
  PruneEvery = 1
  DbErrors = TRUE
  None = "nobody"
  Streams = {s1, s2}
  PerReq = 2
  Span = 3
  Tops = {2, 4}
  Lag = 1
  Recent = 3
  Finishing = 2
  MaxFaults = 1
  MaxSignals = 3
  Nobody = Nobody
  NoHolder = NoHolder
  MaxSeq = 1
  ArraySize = 1
  MaxEpoch = 3
  MaxWitnesses = 4
  MaxDonations = 7
  MaxDonated = 7
  Confirmers = {c1, c2}
  MaxCommits = 3
  Hosts = {h1, h2, h3}
  HashSize = 3
  ListSize = 2
  ExpireEntries = 2
  QueryMax = 2
  MaxSaved = 1
  TimeAllowance = 1
  MaxPeriods = 4
SPECIFICATION Spec
SYMMETRY Symmetry
CHECK_DEADLOCK FALSE
INVARIANT SerialInv SyncInv WorkInv CkInv 
PROPERTY DonationsCorrect
