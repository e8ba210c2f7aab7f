------------------------------ MODULE ConnLease ------------------------------
(***************************************************************************)
(* What the connection pool promises its callers, with no queue, counter,  *)
(* channel or lock: at most PoolSize connections live at once, a live      *)
(* connection is lent to at most one caller, what is lent or free is       *)
(* usable, and nothing becomes free again once the pool is shut.           *)
(* docs/en/connection-pool.md states it as "exclusively owned by one       *)
(* goroutine", "max 20 connections" and "Graceful Shutdown".               *)
(***************************************************************************)
EXTENDS Naturals, FiniteSets

CONSTANTS Callers, Conns, PoolSize, None

VARIABLES
    live,    \* connections that count against PoolSize
    lease,   \* the live connection each caller has, or None
    shut     \* the pool was shut

leaseVars == <<live, lease, shut>>

Lent == {lease[c] : c \in Callers} \ {None}
Free == live \ Lent

Init ==
    /\ live = {}
    /\ lease = [c \in Callers |-> None]
    /\ shut = FALSE

\* A caller gets a new connection.  This may happen after Shut: a dial that
\* was under way then still ends in the hands of its caller.
Connect(c, cn) ==
    /\ lease[c] = None
    /\ cn \notin live
    /\ Cardinality(live) < PoolSize
    /\ live' = live \cup {cn}
    /\ lease' = [lease EXCEPT ![c] = cn]
    /\ UNCHANGED shut

\* The pool gets a new connection nobody asked for.
Warm(cn) ==
    /\ ~shut
    /\ cn \notin live
    /\ Cardinality(live) < PoolSize
    /\ live' = live \cup {cn}
    /\ UNCHANGED <<lease, shut>>

\* A caller gets a free connection; worn-out ones may go on the way.
Lend(c, cn, worn) ==
    /\ ~shut
    /\ lease[c] = None
    /\ cn \in Free
    /\ worn \subseteq Free \ {cn}
    /\ live' = live \ worn
    /\ lease' = [lease EXCEPT ![c] = cn]
    /\ UNCHANGED shut

\* A caller frees its connection.
GiveBack(c) ==
    /\ ~shut
    /\ lease[c] # None
    /\ lease' = [lease EXCEPT ![c] = None]
    /\ UNCHANGED <<live, shut>>

\* A caller's connection goes straight to another caller.
Pass(c, d) ==
    /\ ~shut
    /\ lease[c] # None /\ lease[d] = None
    /\ lease' = [lease EXCEPT ![c] = None, ![d] = lease[c]]
    /\ UNCHANGED <<live, shut>>

\* A caller's connection is discarded.
Drop(c) ==
    /\ lease[c] # None
    /\ live' = live \ {lease[c]}
    /\ lease' = [lease EXCEPT ![c] = None]
    /\ UNCHANGED shut

\* Free connections are discarded.
Shed(worn) ==
    /\ worn \subseteq Free
    /\ live' = live \ worn
    /\ UNCHANGED <<lease, shut>>

Shutdown ==
    /\ shut' = TRUE
    /\ UNCHANGED <<live, lease>>

Next ==
    \/ \E c \in Callers, cn \in Conns : Connect(c, cn)
    \/ \E c \in Callers, cn \in Free : \E worn \in SUBSET (Free \ {cn}) : Lend(c, cn, worn)
    \/ \E cn \in Conns : Warm(cn)
    \/ \E c \in Callers : GiveBack(c) \/ Drop(c)
    \/ \E c, d \in Callers : Pass(c, d)
    \/ \E worn \in SUBSET Free : Shed(worn)
    \/ Shutdown

Spec == Init /\ [][Next]_leaseVars

=============================================================================
