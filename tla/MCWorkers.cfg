SPECIFICATION WorkersSpec
CONSTANTS
    Capacity = 3
    Batch = 2
    MaxCalls = 6
    Shards = {s1, s2, s3}
    None = None
    Ids = {i1, i2, i3}
    Frames = {f1, f2, f3}
    NoFrame = NoFrame
    RxDepth = 1
    MaxSends = 2
    MaxPackets = 3
    RxFrames = 2
    Slots = 4
    SlotBatch = 3
    Warmup = 2
    Packets = 6
    PipeCapacity = 1
INVARIANTS
    Conserved
    DrainedAtEnd
    RequestsHeld
    SharedSlots
PROPERTIES
    NoLostWakeup
    WorkEnds
