SPECIFICATION PoolSpec
CONSTANTS
    NumPeers = 2
    Sources = {s1, s2}
    None = None
    FairQueue = TRUE
    QueueCapacity = 3
    PerPeerCapacity = 2
    MaxTxPeers = 2
    TxBudget = 2
    PeerCapacity = 1
    Spacing = 1
    PeerSpacing = 2
    Lifetime = None
    Deadlines = {None, 1}
    Lease = 1
    Ticks = {1, 2}
    Reconfigure = TRUE
    Errors = TRUE
    Healthy = {2}
INVARIANTS
    PoolOneOutcome
    PoolQueueCurrent
    PoolOffersPaced
PROPERTY PoolHealthyServed
