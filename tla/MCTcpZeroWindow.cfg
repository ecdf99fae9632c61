SPECIFICATION FairSpec
CONSTANTS
    Modulus = 64
    Iss <- MCIss
    WindowLimit = 4
    MaxInflight = 2
    MaxCwnd = 2
    Configs <- OneReader
PROPERTY Drains
CHECK_DEADLOCK FALSE
