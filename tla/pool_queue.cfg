\* Three callers for one slot: a queue of up to three, cancels and hand-offs.
SPECIFICATION Spec
CONSTANTS
    Callers = {c1, c2, c3}
    Closers = {k1, k2}
    Conns = {n1, n2, n3}
    PoolSize = 1
    MinIdle = 1
    MaxCalls = 2
    TimeoutsEnabled = TRUE
SYMMETRY Symmetry
CHECK_DEADLOCK FALSE
INVARIANTS
    OneSendPerWaiter
    NoLostWakeup
PROPERTIES
    NeverHandStale
