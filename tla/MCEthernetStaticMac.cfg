SPECIFICATION SafetySpec
CONSTANTS
    NumIps = 2
    Macs = {m1, m2}
    Far = Far
    Bcast = Bcast
    None = None
    TxCapacity = 2
    PerNeighborCapacity = 2
    NeighborCapacity = 1
    ControlCapacity = 2
    NeighborTtl = 1
    RetryInterval = 1
    ResolutionTimeout = 2
    FailedRetryDelay = 1
    MaxArpAttempts = 2
    MaxSend = 2
    MaxTick = 2
    Admin = {"static"}
INVARIANT StaticMacUsed
