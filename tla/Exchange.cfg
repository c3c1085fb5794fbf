SPECIFICATION XSpec
CONSTANTS
    Order <- MCOrder
    BlockGaps <- MCGaps
    Chains <- MCChains
    Epoch = 2
    HoldTime = 2
    PostHold = 1
    PayTime = 3
    MaxPersist = 4
    MinPending = 10
    DonXcx = 1
    Grain = 2
    MineStart = 4
    MinePeriod = 2
    MineTotal = 1
    MineMin = 2
    MineIntervals = 2
    MaxLevel = 7
    Pendings = {"t1"}
    MaxStops = 1
CHECK_DEADLOCK FALSE
INVARIANT AmountsAddUp ExchangeInv
PROPERTY Implements
