SPECIFICATION FairSpec
CONSTANTS
    Callers = {c1, c2}
    Conns = {k1, k2, k3}
    OptionSet <- SomeOptions
    defaultPoolSize = 3
    defaultMinIdle = 1
    defaultIdleTimeout = 1
    defaultMaxConnAge = 2
    reaperInterval = 2
INVARIANTS
    TypeOK
    ReapedInTime
PROPERTIES
    ClosedForCause
    SurplusCloses
    OldRetire
