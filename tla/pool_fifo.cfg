SPECIFICATION FifoSpec
CONSTANTS
    Callers = {c1, c2, c3}
    Closers = {}
    Conns = {n1, n2}
    PoolSize = 1
    MinIdle = 1
    MaxCalls = 2
    TimeoutsEnabled = FALSE
CHECK_DEADLOCK FALSE
INVARIANTS
    LongestWaitFirst
