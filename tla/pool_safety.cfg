\* Three callers for two slots, both of which warmup and the reaper also want.
SPECIFICATION Spec
CONSTANTS
    Callers = {c1, c2, c3}
    Closers = {k1}
    Conns = {n1, n2, n3, n4}
    PoolSize = 2
    MinIdle = 2
    MaxCalls = 1
    TimeoutsEnabled = TRUE
SYMMETRY Symmetry
CHECK_DEADLOCK FALSE
INVARIANTS
    TypeOK
    OneOwner
    SlotAccounting
    ActiveWithinPoolSize
    NothingParkedAfterClose
PROPERTIES
    ImplementsLease
