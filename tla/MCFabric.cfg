SPECIFICATION FabricSpec
CONSTANTS
    Addresses = {a1, a2}
    Capacity = 1
    LinkConfigs <- Faulty
    Managed = TRUE
    MaxPorts = 3
    MaxSends = 2
    MaxSets = 0
    MaxNow = 0
    Width = 3
    Gateways = {g}
    OnLink = OnLink
    Limit = 3
    PoolFrames = 2
    KernelSlots = 2
    MaxFrames = 4
    Mod = 32
    Values = {0, 1, 31}
    EchoPort = 1
    None = None
SYMMETRY AddressSymmetry
INVARIANTS
    FabricAccounted
    InOrder
    LongestMatch
    FramesConserved
    WireSound
CHECK_DEADLOCK FALSE
