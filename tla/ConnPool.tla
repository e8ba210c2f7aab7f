------------------------------ MODULE ConnPool ------------------------------
(***************************************************************************)
(* The connection pool of redis/client.go: callers that acquire and return *)
(* connections (getConn, putConn, removeConn, abandonWaiter), the warm-up  *)
(* and reaper goroutines, and Close.                                       *)
(*                                                                         *)
(* A section between mu.Lock and mu.Unlock is one action; what happens     *)
(* outside the lock (a dial, a receive on the waiter's channel, closing    *)
(* the sockets a section retired) is an action of its own.  The closed     *)
(* flag is set outside the lock, so Close's swap interleaves anywhere      *)
(* between the sections.                                                   *)
(*                                                                         *)
(* The idle pool is a set: the code pops it LIFO, but which connections    *)
(* are past IdleTimeout or MaxConnAge is nondeterministic here, so any     *)
(* idle connection may be the first one that is still fresh.               *)
(***************************************************************************)
EXTENDS Integers, Sequences, FiniteSets

CONSTANTS
    Callers,         \* goroutines that call Do
    Closers,         \* goroutines that call Close
    Conns,           \* connection identities (reused once the socket is closed)
    PoolSize,        \* Options.poolSize()
    MinIdle,         \* Options.minIdle()
    MaxCalls,        \* bound: calls one caller makes
    TimeoutsEnabled  \* IdleTimeout or MaxConnAge is not disabled

NoConn == "noconn"
Empty  == "empty"    \* a waiter's channel nothing has been sent on
Retry  == "retry"    \* the nil sent by wakeOneWaiterLocked
Shut   == "shut"     \* the channel closed by Close

Background == {"warmup", "reaper"}
Threads == Callers \cup Background

ASSUME CallersAssumption ==
    IsFiniteSet(Callers) /\ Callers \cap Background = {}
ASSUME SizesAssumption ==
    PoolSize \in Nat \ {0} /\ MinIdle \in Nat \ {0} /\ MaxCalls \in Nat
ASSUME ConnsAssumption ==
    Conns \cap ({NoConn, Empty, Retry, Shut} \cup Threads) = {}
ASSUME TimeoutsAssumption == TimeoutsEnabled \in BOOLEAN

VARIABLES
    pool,      \* idle connections
    active,    \* slots taken: idle, in use, handed off or being dialled
    waiters,   \* callers queued for a connection, head first
    closed,    \* Close has been called
    chan,      \* what a queued caller's channel holds
    pc,        \* where a caller stands in Do
    held,      \* the connection a caller holds
    calls,     \* calls a caller has started
    bg,        \* where warmup and the reaper stand
    warmed,    \* connections warmup has dialled
    closer,    \* where a call of Close stands
    open,      \* connections whose socket is open
    expired,   \* open connections for which isExpired answers true
    toClose    \* sockets a thread closes before its next step

vars == <<pool, active, waiters, closed, chan, pc, held, calls, bg, warmed,
          closer, open, expired, toClose>>
callerVars == <<pc, held, calls>>
bgVars     == <<bg, warmed>>

Target == IF MinIdle > PoolSize THEN PoolSize ELSE MinIdle

Init ==
    /\ pool = {}
    /\ active = 0
    /\ waiters = <<>>
    /\ closed = FALSE
    /\ chan = [c \in Callers |-> Empty]
    /\ pc = [c \in Callers |-> "idle"]
    /\ held = [c \in Callers |-> NoConn]
    /\ calls = [c \in Callers |-> 0]
    /\ bg = [warmup |-> "reserve", reaper |-> "sleep"]
    /\ warmed = 0
    /\ closer = [k \in Closers |-> "open"]
    /\ open = {}
    /\ expired = {}
    /\ toClose = [t \in Threads |-> {}]

-----------------------------------------------------------------------------
(* Pieces of the critical sections.                                        *)

\* A thread goes on once it has closed the sockets it retired.
Ready(t) == toClose[t] = {}

\* Mutant: the head waiter is peeked at, not popped.
Send_Peek(msg) ==
    /\ waiters # <<>>
    /\ chan' = [chan EXCEPT ![Head(waiters)] = msg]
    /\ UNCHANGED waiters

\* popWaiterLocked followed by the send on the channel it returned.
Send(msg) ==
    /\ waiters # <<>>
    /\ waiters' = Tail(waiters)
    /\ chan' = [chan EXCEPT ![Head(waiters)] = msg]

\* Mutant: the head waiter is popped and nothing is sent.
wakeOneWaiterLocked_NoSend ==
    /\ waiters' = IF waiters = <<>> THEN waiters ELSE Tail(waiters)
    /\ UNCHANGED chan

\* Hands a retry signal to the head waiter, if any.
wakeOneWaiterLocked ==
    \/ Send(Retry)
    \/ waiters = <<>> /\ UNCHANGED <<waiters, chan>>

\* Mutant: the retired connections are never closed.
Retire_Forgets(t, D) == toClose' = [toClose EXCEPT ![t] = {}]

\* Thread t must close the sockets of D once it has left the critical section.
Retire(t, D) == toClose' = [toClose EXCEPT ![t] = D]

Goto(c, l) == pc' = [pc EXCEPT ![c] = l]

\* Mutant: no return after the hand-off, the connection is parked as well.
HandOffOrPark_FallsThrough(cn) ==
    /\ pool' = pool \cup {cn}
    /\ Send(cn) \/ (waiters = <<>> /\ UNCHANGED <<waiters, chan>>)

\* A usable connection goes to the head waiter, else to the idle pool.
HandOffOrPark(cn) ==
    \/ Send(cn) /\ UNCHANGED pool
    \/ waiters = <<>> /\ pool' = pool \cup {cn} /\ UNCHANGED <<waiters, chan>>

-----------------------------------------------------------------------------
(* Do and getConn.                                                         *)

\* A caller that is not in a call makes one.
StartCall(c) ==
    /\ pc[c] = "idle" /\ Ready(c)
    /\ calls[c] < MaxCalls
    /\ calls' = [calls EXCEPT ![c] = @ + 1]
    /\ Goto(c, "acquire")
    /\ UNCHANGED <<pool, active, waiters, closed, chan, held, bgVars, closer,
                   open, expired, toClose>>

\* "retry" is "acquire" after a received retry signal.
InGetConn(c) == pc[c] \in {"acquire", "retry"} /\ Ready(c)

Refused(c) ==
    /\ InGetConn(c)
    /\ closed
    /\ Goto(c, "idle")
    /\ UNCHANGED <<pool, active, waiters, closed, chan, held, calls, bgVars,
                   closer, open, expired, toClose>>

\* (a) The idle connections D above cn have expired, cn has not.
Reuse(c) ==
    /\ InGetConn(c)
    /\ ~closed
    /\ \E cn \in pool \ expired, D \in SUBSET (pool \cap expired) :
         /\ pool' = pool \ (D \cup {cn})
         /\ active' = active - Cardinality(D)
         /\ held' = [held EXCEPT ![c] = cn]
         /\ Retire(c, D)
    /\ Goto(c, "use")
    /\ UNCHANGED <<waiters, closed, chan, calls, bgVars, closer, open, expired>>

\* No idle connection was fresh: all of them are dropped.
Emptied(c) ==
    /\ InGetConn(c)
    /\ ~closed
    /\ pool \subseteq expired
    /\ pool' = {}
    /\ Retire(c, pool)

\* Mutant: one connection too many.
Reserve_OffByOne(c) ==
    /\ Emptied(c)
    /\ active - Cardinality(pool) <= PoolSize
    /\ active' = active - Cardinality(pool) + 1
    /\ Goto(c, "dial")
    /\ UNCHANGED <<waiters, closed, chan, held, calls, bgVars, closer, open,
                   expired>>

\* (b) Room for a new connection: reserve its slot, then dial.
Reserve(c) ==
    /\ Emptied(c)
    /\ active - Cardinality(pool) < PoolSize
    /\ active' = active - Cardinality(pool) + 1
    /\ Goto(c, "dial")
    /\ UNCHANGED <<waiters, closed, chan, held, calls, bgVars, closer, open,
                   expired>>

\* (c) Saturated: queue a fresh channel.
Enqueue(c) ==
    /\ Emptied(c)
    /\ active - Cardinality(pool) >= PoolSize
    /\ active' = active - Cardinality(pool)
    /\ waiters' = Append(waiters, c)
    /\ Goto(c, "wait")
    /\ UNCHANGED <<closed, chan, held, calls, bgVars, closer, open, expired>>

\* dialConn has opened cn: the stamps are those of the TCP connect, so the time
\* AUTH, SELECT and the wait for mu took may have been enough to expire it.
Dialled(cn) ==
    /\ open' = open \cup {cn}
    /\ expired' \in {expired} \cup (IF TimeoutsEnabled THEN {expired \cup {cn}} ELSE {})

DialOk(c) ==
    /\ pc[c] = "dial" /\ Ready(c)
    /\ \E cn \in Conns \ open :
         /\ Dialled(cn)
         /\ held' = [held EXCEPT ![c] = cn]
    /\ Goto(c, "use")
    /\ UNCHANGED <<pool, active, waiters, closed, chan, calls, bgVars, closer,
                   toClose>>

DialFailed(c) ==
    /\ pc[c] = "dial" /\ Ready(c)
    /\ active' = active - 1
    /\ wakeOneWaiterLocked
    /\ Goto(c, "idle")
    /\ UNCHANGED <<pool, closed, held, calls, bgVars, closer, open, expired,
                   toClose>>

\* The select of getConn takes what the channel holds.  A received connection
\* counts as used now, which may end its idleness but not its age.
Receive(c) ==
    /\ pc[c] = "wait" /\ Ready(c)
    /\ chan[c] # Empty
    /\ chan' = [chan EXCEPT ![c] = Empty]
    /\ \/ /\ chan[c] \in Conns
          /\ held' = [held EXCEPT ![c] = chan[c]]
          /\ expired' \in {expired, expired \ {chan[c]}}
          /\ Goto(c, "use")
       \/ /\ chan[c] = Retry
          /\ Goto(c, "retry")
          /\ UNCHANGED <<held, expired>>
       \/ /\ chan[c] = Shut
          /\ Goto(c, "idle")
          /\ UNCHANGED <<held, expired>>
    /\ UNCHANGED <<pool, active, waiters, closed, calls, bgVars, closer, open,
                   toClose>>

\* ctx is done and the caller is still queued: it takes itself out.
AbandonQueued(c) ==
    /\ pc[c] = "wait" /\ Ready(c)
    /\ \E i \in 1..Len(waiters) :
         /\ waiters[i] = c
         /\ waiters' = SubSeq(waiters, 1, i - 1)
                         \o SubSeq(waiters, i + 1, Len(waiters))
    /\ Goto(c, "idle")
    /\ UNCHANGED <<pool, active, closed, chan, held, calls, bgVars, closer, open,
                   expired, toClose>>

\* Mutant: a drained nil is taken for a connection.
Drain_NilIsConn(c) ==
    \/ /\ chan[c] \in Conns \cup {Retry}
       /\ held' = [held EXCEPT ![c] = chan[c]]
       /\ Goto(c, "reclaim")
    \/ /\ chan[c] \in {Shut, Empty}
       /\ Goto(c, "idle")
       /\ UNCHANGED held

\* Mutant: a drained retry signal is dropped.
Drain_DropsSignal(c) ==
    \/ /\ chan[c] \in Conns
       /\ held' = [held EXCEPT ![c] = chan[c]]
       /\ Goto(c, "reclaim")
    \/ /\ chan[c] \in {Retry, Shut, Empty}
       /\ Goto(c, "idle")
       /\ UNCHANGED held

\* What abandonWaiter does with what it finds in the channel.
Drain(c) ==
    \/ /\ chan[c] \in Conns
       /\ held' = [held EXCEPT ![c] = chan[c]]
       /\ Goto(c, "reclaim")
    \/ /\ chan[c] = Retry
       /\ Goto(c, "forward")
       /\ UNCHANGED held
    \/ /\ chan[c] \in {Shut, Empty}
       /\ Goto(c, "idle")
       /\ UNCHANGED held

\* ctx is done but a send or a close came first.
AbandonDrained(c) ==
    /\ pc[c] = "wait" /\ Ready(c)
    /\ \A i \in 1..Len(waiters) : waiters[i] # c
    /\ Drain(c)
    /\ chan' = [chan EXCEPT ![c] = Empty]
    /\ UNCHANGED <<pool, active, waiters, closed, calls, bgVars, closer, open,
                   expired, toClose>>

\* A drained retry signal goes on to the next waiter.
Forward(c) ==
    /\ pc[c] = "forward" /\ Ready(c)
    /\ \/ ~closed /\ wakeOneWaiterLocked
       \/ closed /\ UNCHANGED <<waiters, chan>>
    /\ Goto(c, "idle")
    /\ UNCHANGED <<pool, active, closed, held, calls, bgVars, closer, open,
                   expired, toClose>>

-----------------------------------------------------------------------------
(* Giving a connection back.                                               *)

\* c gives up its connection and leaves the call.
Release(c) ==
    /\ held' = [held EXCEPT ![c] = NoConn]
    /\ Goto(c, "idle")

\* Mutant: the slot is not given back.
PutClosed_KeepsSlot(c) ==
    /\ closed
    /\ Retire(c, {held[c]})
    /\ UNCHANGED <<active, pool, waiters, chan>>

PutClosed(c) ==
    /\ closed
    /\ active' = active - 1
    /\ Retire(c, {held[c]})
    /\ UNCHANGED <<pool, waiters, chan>>

PutExpired(c) ==
    /\ ~closed /\ held[c] \in expired
    /\ active' = active - 1
    /\ wakeOneWaiterLocked
    /\ Retire(c, {held[c]})
    /\ UNCHANGED pool

\* Mutant: closed is not consulted again under mu.
PutFresh_AfterClose(c) ==
    /\ held[c] \notin expired
    /\ HandOffOrPark(held[c])
    /\ UNCHANGED <<active, toClose>>

\* Mutant: the hand-off comes before the check for expiry.
PutFresh_Stale(c) ==
    /\ ~closed
    /\ HandOffOrPark(held[c])
    /\ UNCHANGED <<active, toClose>>

PutFresh(c) ==
    /\ ~closed /\ held[c] \notin expired
    /\ HandOffOrPark(held[c])
    /\ UNCHANGED <<active, toClose>>

\* After a command ("use"), or to reclaim a hand-off nobody will use.
putConn(c) ==
    /\ pc[c] \in {"use", "reclaim"} /\ Ready(c)
    /\ PutClosed(c) \/ PutExpired(c) \/ PutFresh(c)
    /\ Release(c)
    /\ UNCHANGED <<closed, calls, bgVars, closer, open, expired>>

\* The command failed in transport: the connection is discarded.
removeConn(c) ==
    /\ pc[c] = "use" /\ Ready(c)
    /\ active' = active - 1
    /\ \/ ~closed /\ wakeOneWaiterLocked
       \/ closed /\ UNCHANGED <<waiters, chan>>
    /\ Retire(c, {held[c]})
    /\ Release(c)
    /\ UNCHANGED <<pool, closed, calls, bgVars, closer, open, expired>>

\* nc.Close on the sockets t retired in its last section.
closeAll(t) ==
    /\ toClose[t] # {}
    /\ open' = open \ toClose[t]
    /\ expired' = expired \ toClose[t]
    /\ Retire(t, {})
    /\ UNCHANGED <<pool, active, waiters, closed, chan, callerVars, bgVars, closer>>

\* Time passes: isExpired turns true.
Expire(cn) ==
    /\ TimeoutsEnabled
    /\ cn \in open \ expired
    /\ expired' = expired \cup {cn}
    /\ UNCHANGED <<pool, active, waiters, closed, chan, callerVars, bgVars,
                   closer, open, toClose>>

-----------------------------------------------------------------------------
(* warmup and the reaper, which both dial through dialIdle.                *)

BgGoto(t, l) == bg' = [bg EXCEPT ![t] = l]

\* Mutant: a failed dial ends the reaper.
GiveUp_Dies(t) == BgGoto(t, "exited")

\* warmup returns when dialIdle fails, the reaper waits for its next tick.
GiveUp(t) == BgGoto(t, IF t = "warmup" THEN "exited" ELSE "sleep")

\* First section of dialIdle.
DialIdleReserve(t) ==
    /\ bg[t] = "reserve" /\ Ready(t)
    /\ \/ /\ closed \/ active >= PoolSize
          /\ GiveUp(t)
          /\ UNCHANGED active
       \/ /\ ~closed /\ active < PoolSize
          /\ active' = active + 1
          /\ BgGoto(t, "dial")
    /\ UNCHANGED <<pool, waiters, closed, chan, callerVars, warmed, closer, open,
                   expired, toClose>>

DialIdleFailed(t) ==
    /\ bg[t] = "dial" /\ Ready(t)
    /\ active' = active - 1
    /\ wakeOneWaiterLocked
    /\ GiveUp(t)
    /\ UNCHANGED <<pool, closed, callerVars, warmed, closer, open, expired,
                   toClose>>

\* dialIdle returned true: warmup counts it, the reaper looks again.
DialIdleTrue(t) ==
    \/ /\ t = "warmup"
       /\ warmed' = warmed + 1
       /\ BgGoto(t, IF warmed + 1 < Target THEN "reserve" ELSE "exited")
    \/ /\ t = "reaper"
       /\ BgGoto(t, "ensure")
       /\ UNCHANGED warmed

\* dialConn succeeded: last section of dialIdle, which hands the connection on or
\* parks it without a look at isExpired.
DialIdleDone(t) ==
    /\ bg[t] = "dial" /\ Ready(t)
    /\ \E cn \in Conns \ open :
         /\ Dialled(cn)
         /\ \/ /\ closed
               /\ active' = active - 1
               /\ Retire(t, {cn})
               /\ GiveUp(t)
               /\ UNCHANGED <<pool, waiters, chan, warmed>>
            \/ /\ ~closed
               /\ HandOffOrPark(cn)
               /\ DialIdleTrue(t)
               /\ UNCHANGED <<active, toClose>>
    /\ UNCHANGED <<closed, callerVars, closer>>

\* The ticker fires: reapStaleConns drops every expired idle connection.
reapStaleConns ==
    /\ bg["reaper"] = "sleep" /\ Ready("reaper")
    /\ \/ closed /\ UNCHANGED <<pool, active, toClose>>
       \/ /\ ~closed
          /\ pool' = pool \ expired
          /\ active' = active - Cardinality(pool \cap expired)
          /\ Retire("reaper", pool \cap expired)
    /\ BgGoto("reaper", "ensure")
    /\ UNCHANGED <<waiters, closed, chan, callerVars, warmed, closer, open, expired>>

\* One look of ensureMinIdle at the pool.
ensureMinIdle ==
    /\ bg["reaper"] = "ensure" /\ Ready("reaper")
    /\ IF closed \/ Target <= Cardinality(pool) \/ active >= PoolSize
         THEN BgGoto("reaper", "sleep")
         ELSE BgGoto("reaper", "reserve")
    /\ UNCHANGED <<pool, active, waiters, closed, chan, callerVars, warmed,
                   closer, open, expired, toClose>>

\* The select of the reaper sees closedCh.
ReaperExit ==
    /\ bg["reaper"] = "sleep" /\ Ready("reaper")
    /\ closed
    /\ BgGoto("reaper", "exited")
    /\ UNCHANGED <<pool, active, waiters, closed, chan, callerVars, warmed,
                   closer, open, expired, toClose>>

-----------------------------------------------------------------------------
(* Close.                                                                  *)

\* The compare-and-swap; a later call returns at once.
Close(k) ==
    /\ closer[k] = "open"
    /\ closed' = TRUE
    /\ closer' = [closer EXCEPT ![k] = IF closed THEN "returned" ELSE "stopping"]
    /\ UNCHANGED <<pool, active, waiters, chan, callerVars, bgVars, open, expired,
                   toClose>>

\* The section of Close that runs once the reaper is gone.
Teardown(k) ==
    /\ closer[k] = "stopping"
    /\ bg["reaper"] = "exited"
    /\ chan' = [c \in Callers |->
                  IF \E i \in 1..Len(waiters) : waiters[i] = c THEN Shut ELSE chan[c]]
    /\ waiters' = <<>>
    /\ active' = active - Cardinality(pool)
    /\ open' = open \ pool
    /\ expired' = expired \ pool
    /\ pool' = {}
    /\ closer' = [closer EXCEPT ![k] = "released"]
    /\ UNCHANGED <<closed, callerVars, bgVars, toClose>>

-----------------------------------------------------------------------------
getConn(c) == Refused(c) \/ Reuse(c) \/ Reserve(c) \/ Enqueue(c)
dialConn(c) == DialOk(c) \/ DialFailed(c)
abandonWaiter(c) == AbandonQueued(c) \/ AbandonDrained(c)
dialIdle(t) == DialIdleReserve(t) \/ DialIdleFailed(t) \/ DialIdleDone(t)

CallerStep(c) ==
    \/ StartCall(c) \/ getConn(c) \/ dialConn(c) \/ Receive(c)
    \/ abandonWaiter(c) \/ Forward(c) \/ putConn(c) \/ removeConn(c)

Next ==
    \/ \E c \in Callers : CallerStep(c)
    \/ \E t \in Background : dialIdle(t)
    \/ reapStaleConns \/ ensureMinIdle \/ ReaperExit
    \/ \E t \in Threads : closeAll(t)
    \/ \E cn \in Conns : Expire(cn)
    \/ \E k \in Closers : Close(k) \/ Teardown(k)

Spec == Init /\ [][Next]_vars

-----------------------------------------------------------------------------
(* Who has what.                                                           *)

Queued == {waiters[i] : i \in 1..Len(waiters)}

Leased     == {held[c] : c \in Callers} \cap Conns
InChannels == {chan[c] : c \in Callers} \cap Conns
Retired    == UNION {toClose[t] : t \in Threads}

\* Threads that hold a reserved slot while they dial.
Dialling == {c \in Callers : pc[c] = "dial"} \cup {t \in Background : bg[t] = "dial"}

\* What occupies a slot of the pool.
Charged == pool \cup Leased \cup InChannels \cup Dialling

\* Callers that were told of a free slot and have not acted on it yet.
Signalled == {c \in Callers : chan[c] = Retry \/ pc[c] \in {"retry", "forward"}}

Released == \E k \in Closers : closer[k] = "released"

-----------------------------------------------------------------------------
(* Fairness.                                                               *)

\* Ticks are reaperInterval (30s) apart: a caller that was told of a free slot
\* has tried for it before the next one.
SlowTicks ==
    (bg["reaper"] = "sleep" /\ bg'["reaper"] = "ensure") => Signalled = {}

\* Every section gets mu in turn (Go's mutex does not starve), every dial and
\* command ends (DialTimeout, ReadTimeout, WriteTimeout), the ticker fires, and
\* the select of the reaper, which picks at random between the tick and
\* closedCh, does not pick the tick for ever.  Nobody has to call Do or Close,
\* and no ctx has to expire.
CallerFairness(c) ==
    /\ WF_vars(getConn(c))
    /\ WF_vars(dialConn(c))
    /\ WF_vars(Receive(c))
    /\ WF_vars(Forward(c))
    /\ WF_vars(putConn(c) \/ removeConn(c))

Fairness ==
    /\ \A c \in Callers : CallerFairness(c)
    /\ \A t \in Background : WF_vars(dialIdle(t))
    /\ WF_vars(reapStaleConns /\ SlowTicks) /\ WF_vars(ensureMinIdle)
    /\ SF_vars(ReaperExit)
    /\ \A t \in Threads : WF_vars(closeAll(t))
    /\ \A k \in Closers : WF_vars(Teardown(k))

FairSpec == Init /\ [][Next /\ SlowTicks]_vars /\ Fairness

\* The same with a server the reaper reaches in the end.
ServerUpSpec == FairSpec /\ SF_vars(DialIdleDone("reaper"))

-----------------------------------------------------------------------------
(* Safety.                                                                 *)

\* Every variable has its type.
TypeOK ==
    /\ pool \subseteq Conns
    /\ active \in Int
    /\ waiters \in Seq(Callers)
    /\ closed \in BOOLEAN
    /\ chan \in [Callers -> Conns \cup {Empty, Retry, Shut}]
    /\ pc \in [Callers -> {"idle", "acquire", "retry", "dial", "wait", "use",
                           "reclaim", "forward"}]
    /\ held \in [Callers -> Conns \cup {NoConn}]
    /\ calls \in [Callers -> 0..MaxCalls]
    /\ bg \in [Background -> {"sleep", "ensure", "reserve", "dial", "exited"}]
    /\ warmed \in Nat
    /\ closer \in [Closers -> {"open", "stopping", "released", "returned"}]
    /\ open \subseteq Conns
    /\ expired \subseteq Conns
    /\ toClose \in [Threads -> SUBSET Conns]

\* An open socket has exactly one owner: the pool, one caller, one waiter's
\* channel or one thread about to close it.  No path of the cancel, hand-off
\* and Close races drops one unclosed or gives it to two (getConn 473-485,
\* abandonWaiter 509-527, putConn 537-568, dialIdle 236-251).
OneOwner ==
    /\ open = pool \cup Leased \cup InChannels \cup Retired
    /\ pool \cap (Leased \cup InChannels \cup Retired) = {}
    /\ Leased \cap (InChannels \cup Retired) = {}
    /\ InChannels \cap Retired = {}
    /\ \A c, d \in Callers : c # d =>
         /\ held[c] \in Conns => held[c] # held[d]
         /\ chan[c] \in Conns => chan[c] # chan[d]
    /\ \A t, u \in Threads : t # u => toClose[t] \cap toClose[u] = {}

\* active counts exactly the idle, leased, handed-off and reserved slots:
\* none leaks and none is given back twice on any error or shutdown path.
SlotAccounting == active = Cardinality(Charged)

\* The pool never has more than PoolSize slots taken, nor less than none.
ActiveWithinPoolSize == active \in 0..PoolSize

\* A caller is queued exactly while nothing was sent on its channel, and its
\* channel is touched only then: each channel gets at most one send or close,
\* so a send under mu cannot block and the drain of abandonWaiter never takes
\* the branch commented "Unreachable".
OneSendPerWaiter ==
    /\ \A i, j \in 1..Len(waiters) : waiters[i] = waiters[j] => i = j
    /\ \A c \in Callers : (c \in Queued) <=> (pc[c] = "wait" /\ chan[c] = Empty)
    /\ \A c \in Callers : chan[c] # Empty => pc[c] = "wait"

\* No caller sleeps in the queue while a connection lies idle, and every free
\* slot is matched by a caller that was woken for it and will re-acquire or
\* pass the signal on (the "lost-wakeup guard" of getConn, dialIdle,
\* removeConn and abandonWaiter).
NoLostWakeup ==
    waiters # <<>> =>
       /\ pool = {}
       /\ ~closed => PoolSize - active <= Cardinality(Signalled)

\* Once the section of Close is over nothing is parked or queued any more,
\* whatever was under way when it ran.
NothingParkedAfterClose == Released => pool = {} /\ waiters = <<>>

\* Nobody gets a connection of the pool that has expired: a caller that returns
\* or reclaims one neither parks it nor sends it to a waiter (putConn 545-557),
\* and none is taken out of the idle pool (getConn 431-441), while Close and the
\* reaper run.  A receiver may find that what was sent to it has expired since.
\* This does not speak of the connection dialIdle has just made: its stamps are
\* older than AUTH and SELECT, and 244-248 send it or park it as it is.
NeverHandStale ==
    [][\A cn \in expired :
         /\ cn \in pool' => cn \in pool
         /\ \A c \in Callers :
              /\ chan'[c] = cn => chan[c] = cn
              /\ held'[c] = cn => cn \in {held[c], chan[c]}]_vars

-----------------------------------------------------------------------------
(* Liveness.                                                               *)

\* Every call of Do returns, also one whose ctx never expires: it gets a
\* connection, an error or the news that the client was closed.
CallsReturn == \A c \in Callers : (pc[c] # "idle") ~> (pc[c] = "idle")

\* After Close every socket is closed and every slot given back, for good.
CloseDrains == closed ~> [](open = {} /\ active = 0)

\* With a reachable server and no expiry, the reaper restores the idle floor
\* for good once the callers are done.
IdleFloor == <>[](closed \/ Cardinality(pool) >= Target)

-----------------------------------------------------------------------------
(* The pool implements exclusive leases: a hand-off is a lease from the     *)
(* moment it is sent, whether its receiver takes it or reclaims it.         *)

Lease == INSTANCE ConnLease WITH
    None  <- NoConn,
    live  <- pool \cup Leased \cup InChannels,
    lease <- [c \in Callers |->
                IF chan[c] \in Conns THEN chan[c] ELSE held[c]],
    shut  <- closed

ImplementsLease == Lease!Spec

=============================================================================
