SPECIFICATION Spec
CONSTANTS
    NumIps = 3
    Macs = {m1}
    Far = Far
    Bcast = Bcast
    None = None
    TxCapacity = 2
    PerNeighborCapacity = 1
    NeighborCapacity = 1
    ControlCapacity = 1
    NeighborTtl = 1
    RetryInterval = 1
    ResolutionTimeout = 2
    FailedRetryDelay = 1
    MaxArpAttempts = 2
    MaxSend = 2
    MaxTick = 1
    Admin = {"configure", "withdraw", "route", "neighbor", "static", "reset"}
INVARIANTS
    Accounted
    CurrentDecisions
    WaitingWanted
PROPERTY ResolutionEnds
