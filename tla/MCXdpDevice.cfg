SPECIFICATION PartsSpec
CONSTANTS
    Frames = {f1, f2, f3}
    Bad = Bad
    FillEntries = 2
    CqEntries = 2
    RxEntries = 2
    TxEntries = 2
    BatchSize = 2
    TxReserve = 1
    MaxFaults = 2
    Entries = 4
    Modulus = 8
    Items = {d1, d2}
    MaxBatch = 2
    NumFrames = 4
    Queues = {0, 1}
    Queue = 0
    None = None
SYMMETRY FrameSymmetry
INVARIANTS
    NoAlias
    CountersMatch
    SingleOwner
PROPERTIES
    PartsSound
    ProgramOwned
