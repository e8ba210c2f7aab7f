\* Connections never expire and the server can be reached in the end.
SPECIFICATION ServerUpSpec
CONSTANTS
    Callers = {c1, c2}
    Closers = {k1}
    Conns = {n1, n2, n3}
    PoolSize = 2
    MinIdle = 2
    MaxCalls = 2
    TimeoutsEnabled = FALSE
CHECK_DEADLOCK FALSE
PROPERTIES
    IdleFloor
