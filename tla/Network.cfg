SPECIFICATION Spec
CONSTANTS
  Conns = {c1, c2}
  Threads = {t1, t2}
  MaxIncoming = 1
  MaxUses = 2
  MaxMsgs = 1
  NoConn = NoConn
  Peers = {p, q}
  Blocks = {b1}
  Txs = {x1, x2}
  Own = {x1}
  Early = {x1}
  SendMax = 2
  HighWater = 0
  LowWater = 1
  Witness = FALSE
  AnnounceOld = TRUE
  MaxLosses = 1
CHECK_DEADLOCK FALSE
SYMMETRY Symmetry
 
PROPERTY CallbackHitsOwnUse RelayCorrect
