SPECIFICATION FairSpec
CONSTANTS
    Modulus = 64
    Iss <- MCIss
    WindowLimit = 4
    MaxInflight = 2
    MaxCwnd = 2
    Configs <- Progress
PROPERTY StreamsComplete
CHECK_DEADLOCK FALSE
