CONSTANTS
  Clients = {k1, k2}
  TxConns = {c1}
  Retries = 1
  MaxAccepts = 3
  NoClient = NoClient
  NoTxConn = NoTxConn
  Depth = 3
  Addresses = {0, 1, 2}
  MaxLevel = 3
  MaxCommits = 5
  MaxCrashes = 1
  TreePaid = {0, 1}
  PollThreads = {p1}
  Callers = {a1}
  Ahead = 1
  PageSize = 2
  MaxPolls = 2
  MaxRestarts = 1
  PollLevels = 2
  PollCommits = 3
  MaxParamAge = 1
  PaymentTime = 1
  Confirmations = 2
  MaxTime = 2
  QueryRetries = 2
  MyBuys = {b1}
  MySells = {s1}
  Other = o
  XPollers = {t1, t2}
  XPage = 1
  MaxMatches = 2
  MaxXPolls = 2
SPECIFICATION Spec
SYMMETRY Symmetry
CHECK_DEADLOCK FALSE
INVARIANT SvcInv TreeInv ValInv FmtInv
PROPERTY  XwCorrect
