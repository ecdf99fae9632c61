SPECIFICATION BackendSpec
CONSTANTS
    AddressLimit = 16
    MaxEntries = 4
    EvictCount = 1
    Num = 2
    IndexLimit = 4
    Batch = 2
    MaxPackets = 3
    Plans <- LabPlans
    None = None
INVARIANTS
    UsedInOrder
    SessionExact
    TranslationsCurrent
PROPERTY SessionsEnd
