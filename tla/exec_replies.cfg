\* A server that may append extra bytes to error replies, which arrive together
\* with them; only the write has a timeout of its own, a ctx with a deadline
\* bounds both directions.
SPECIFICATION FairSpec
CONSTANTS
    None = None
    Callers = {c1, c2}
    Conns = {n1}
    PoolSize = 1
    MaxCalls = 2
    Timeouts = {"write"}
    Conforming = FALSE
    Together = TRUE
INVARIANTS
    TypeOK
    OwnReply
    OwnTimeout
PROPERTIES
    BoundedCallEnds
CHECK_DEADLOCK FALSE
