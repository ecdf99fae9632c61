SPECIFICATION Spec
CONSTANTS
    Modulus = 64
    Iss <- MCIss
    WindowLimit = 4
    MaxInflight = 2
    MaxCwnd = 2
    Configs <- Streams
INVARIANTS
    InOrderOnce
    NothingForgotten
    EofComplete
PROPERTY PoolMoves
CHECK_DEADLOCK FALSE
