\* No symmetry: these are liveness properties.
SPECIFICATION FairSpec
CONSTANTS
    Callers = {c1, c2}
    Closers = {k1}
    Conns = {n1, n2, n3}
    PoolSize = 1
    MinIdle = 1
    MaxCalls = 2
    TimeoutsEnabled = TRUE
CHECK_DEADLOCK FALSE
PROPERTIES
    CallsReturn
    CloseDrains
