\* A server that sends one reply per command, and deadlines that pass within a
\* line.
SPECIFICATION Spec
CONSTANTS
    None = None
    Callers = {c1, c2}
    Conns = {n1, n2}
    PoolSize = 2
    MaxCalls = 2
    Timeouts = {"write", "read"}
    Conforming = TRUE
    Together = TRUE
INVARIANTS
    NoForeignReply
CHECK_DEADLOCK FALSE
