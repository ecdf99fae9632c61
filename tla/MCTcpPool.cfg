SPECIFICATION FairSpec
CONSTANTS
    Locals = {1, 2}
    Remotes = {3}
    MaxConnections = 2
    MaxListeners = 1
    ControlCapacity = 1
    TimeWait = 2
    MaxIds = 3
    Operations = {"abort", "unlisten", "remove"}
INVARIANTS TableHolds OneLivePerTuple ConnectionsOwned
PROPERTIES
    PollReclaims
