SPECIFICATION ResolverSpec
CONSTANTS
    NoToken = NoToken
    NoTime = NoTime
    Names = {n1, n2}
    Tokens = {t1, t2}
    NumServers = 2
    Ttls = {0, 2}
    Capacity = 2
    CacheCapacity = 1
    MaxCacheTtl = 2
    LookupTimeout = 2
    AttemptTimeout = 1
    AttemptsPerName = 2
    AliasLimit = 1
    MaxQueries = 3
    MaxGeneration = 1
    MaxElapsed = 1
INVARIANTS
    OneCompletion
    CacheHonest
PROPERTY ResolverCompletes
CHECK_DEADLOCK FALSE
