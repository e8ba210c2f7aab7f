---------------------------- MODULE MCConnPoolFifo ----------------------------
(***************************************************************************)
(* ConnPool with a history variable: the callers in the order in which     *)
(* their calls first had to wait.  It observes the pool and restricts      *)
(* nothing.                                                                *)
(***************************************************************************)
EXTENDS ConnPool, SequencesExt

VARIABLE arrival

\* Calls that were made to wait and have neither a connection nor an error.
Waiting(c) == pc[c] \in {"wait", "retry"}

Arrive(s) ==
    LET stay == SelectSeq(s, LAMBDA c : Waiting(c)')
        new  == {c \in Callers : Waiting(c)' /\ ~Contains(s, c)}
    IN  stay \o SetToSeq(new)

FifoInit == Init /\ arrival = <<>>
FifoNext == Next /\ arrival' = Arrive(arrival)
FifoSpec == FifoInit /\ [][FifoNext]_<<vars, arrival>>

\* docs/en/connection-pool.md:63, "New requests wait in a FIFO channel queue":
\* of two queued callers the one that has waited longer is served first.
LongestWaitFirst ==
    \A i, j \in 1..Len(waiters), m, n \in 1..Len(arrival) :
        (i < j /\ arrival[m] = waiters[i] /\ arrival[n] = waiters[j]) => m < n
=============================================================================
