----------------------------- MODULE IdleClock -----------------------------
(***************************************************************************)
(* The ages of pooled connections, redis/client.go: the defaults of        *)
(* Options, isExpired, and the four places that look at it (getConn,       *)
(* putConn, the reaper's tick) or stamp the clocks it reads.               *)
(*                                                                         *)
(* ConnPool leaves expiry to chance and keeps every interleaving; here     *)
(* time is counted and the rest is coarser: a signal or a connection sent  *)
(* to a waiter is received at once, a retired socket closes in the section *)
(* that retires it, active is the sum ConnPool's SlotAccounting shows it   *)
(* to be, and Close and the warm-up are left out.                          *)
(***************************************************************************)
EXTENDS Integers, Sequences, FiniteSets, Functions

CONSTANTS
    Callers,             \* goroutines that call Do
    Conns,               \* connection identities, reused once closed
    OptionSet,           \* the Option values clients are created from
    defaultPoolSize, defaultMinIdle, defaultIdleTimeout, defaultMaxConnAge,
    reaperInterval       \* time units between two ticks

NoConn == "noconn"

ASSUME DefaultsAssumption ==
    /\ {defaultPoolSize, defaultMinIdle, defaultIdleTimeout, defaultMaxConnAge,
        reaperInterval} \subseteq Nat \ {0}
ASSUME OptionsAssumption ==
    OptionSet \subseteq
      [PoolSize : Int, MinIdle : Int, IdleTimeout : Int, MaxConnAge : Int]
ASSUME IdentitiesAssumption == NoConn \notin Conns \cup Callers

VARIABLES
    option,    \* the Option the client was created from, never changed
    pool,      \* idle connections, the one used last at the end
    waiters,   \* callers queued for a connection, head first
    pc,        \* where a caller stands
    held,      \* the connection a caller holds
    bg,        \* where the reaper stands
    bgHeld,    \* the connection the reaper is setting up
    age,       \* time units since a connection's createdAt
    used,      \* time units since its usedAt
    phase,     \* time units since the ticker's last tick
    ticked     \* the ticker's channel (capacity 1) holds a tick

vars == <<option, pool, waiters, pc, held, bg, bgHeld, age, used, phase, ticked>>
bgVars   == <<bg, bgHeld>>
timeVars == <<phase, ticked>>

-----------------------------------------------------------------------------
(* Options and their defaults: 0 is "not set", a negative timeout "disabled". *)

\* Option.Create copies what it is given (the fields that matter here).
Create(o) ==
    [PoolSize |-> o.PoolSize, MinIdle |-> o.MinIdle,
     IdleTimeout |-> o.IdleTimeout, MaxConnAge |-> o.MaxConnAge]

opts == Create(option)

poolSize == IF opts.PoolSize > 0 THEN opts.PoolSize ELSE defaultPoolSize
minIdle  == IF opts.MinIdle > 0 THEN opts.MinIdle ELSE defaultMinIdle

\* Mutant: a negative timeout is taken for one that is not set.
Resolve_NegativeIsDefault(t, default) == IF t > 0 THEN t ELSE default

Resolve(t, default) == IF t > 0 THEN t ELSE IF t < 0 THEN 0 ELSE default

idleTimeout == Resolve(opts.IdleTimeout, defaultIdleTimeout)
maxConnAge  == Resolve(opts.MaxConnAge, defaultMaxConnAge)

Target == IF minIdle > poolSize THEN poolSize ELSE minIdle

isExpired(cn) ==
    \/ idleTimeout > 0 /\ used[cn] > idleTimeout
    \/ maxConnAge > 0 /\ age[cn] > maxConnAge

-----------------------------------------------------------------------------
Parked == Range(pool)
Live   == Parked \cup (({held[c] : c \in Callers} \cup {bgHeld}) \ {NoConn})

\* The slots taken: idle, in use, or reserved by a dial.
active == Len(pool) + Cardinality({c \in Callers : pc[c] \in {"dial", "init", "use"}})
                    + (IF bg \in {"dial", "init"} THEN 1 ELSE 0)

Goto(c, l) == pc' = [pc EXCEPT ![c] = l]

\* Clocks run no further than the properties look; a closed connection has none.
Bounded(n, limit) == IF limit = 0 THEN 0
                     ELSE IF n < limit + reaperInterval THEN n
                     ELSE limit + reaperInterval

\* The connections of D are closed.
Drop(D) ==
    /\ age' = [cn \in Conns |-> IF cn \in D THEN 0 ELSE age[cn]]
    /\ used' = [cn \in Conns |-> IF cn \in D THEN 0 ELSE used[cn]]

Init ==
    /\ option \in OptionSet
    /\ pool = <<>>
    /\ waiters = <<>>
    /\ pc = [c \in Callers |-> "idle"]
    /\ held = [c \in Callers |-> NoConn]
    /\ bg = "wait"
    /\ bgHeld = NoConn
    /\ age = [cn \in Conns |-> 0]
    /\ used = [cn \in Conns |-> 0]
    /\ phase = 0
    /\ ticked = FALSE

-----------------------------------------------------------------------------
(* Time.  The reaper takes a tick within a time unit when it waits for it;  *)
(* a tick that finds the channel full is dropped.                           *)

Advance ==
    /\ ~(ticked /\ bg = "wait")
    /\ age' = [cn \in Conns |-> IF cn \in Live
                                  THEN Bounded(age[cn] + 1, maxConnAge) ELSE 0]
    /\ used' = [cn \in Conns |-> IF cn \in Live
                                   THEN Bounded(used[cn] + 1, idleTimeout) ELSE 0]
    /\ phase' = (phase + 1) % reaperInterval
    /\ ticked' = (ticked \/ phase' = 0)
    /\ UNCHANGED <<option, pool, waiters, pc, held, bgVars>>

-----------------------------------------------------------------------------
(* Do and getConn.                                                          *)

\* Mutant: the pool is a queue.
Reuse_Fifo(c) ==
    /\ \E k \in 1..Len(pool) :
         /\ ~isExpired(pool[k])
         /\ \A i \in 1..(k - 1) : isExpired(pool[i])
         /\ pool' = SubSeq(pool, k + 1, Len(pool))
         /\ held' = [held EXCEPT ![c] = pool[k]]
         /\ age' = [cn \in Conns |-> IF \E i \in 1..(k - 1) : pool[i] = cn
                                       THEN 0 ELSE age[cn]]
         /\ used' = [cn \in Conns |-> IF \E i \in 1..k : pool[i] = cn
                                        THEN 0 ELSE used[cn]]
    /\ Goto(c, "use")
    /\ UNCHANGED waiters

\* (a) The fresh connection nearest the end is taken, those above it dropped.
Reuse(c) ==
    /\ \E k \in 1..Len(pool) :
         /\ ~isExpired(pool[k])
         /\ \A i \in (k + 1)..Len(pool) : isExpired(pool[i])
         /\ pool' = SubSeq(pool, 1, k - 1)
         /\ held' = [held EXCEPT ![c] = pool[k]]
         /\ age' = [cn \in Conns |-> IF \E i \in (k + 1)..Len(pool) : pool[i] = cn
                                       THEN 0 ELSE age[cn]]
         /\ used' = [cn \in Conns |-> IF \E i \in k..Len(pool) : pool[i] = cn
                                        THEN 0 ELSE used[cn]]
    /\ Goto(c, "use")
    /\ UNCHANGED waiters

\* No idle connection is fresh: drop them all, then (b) reserve a slot for a
\* new one or (c) queue.
ReserveOrQueue(c) ==
    /\ \A cn \in Parked : isExpired(cn)
    /\ pool' = <<>>
    /\ Drop(Parked)
    /\ \/ active - Len(pool) < poolSize /\ Goto(c, "dial") /\ UNCHANGED waiters
       \/ /\ active - Len(pool) >= poolSize
          /\ Goto(c, "wait")
          /\ waiters' = Append(waiters, c)
    /\ UNCHANGED held

\* A caller makes a call, or was told of a free slot and tries again.
getConn(c) ==
    /\ pc[c] \in {"idle", "retry"}
    /\ Reuse(c) \/ ReserveOrQueue(c)
    /\ UNCHANGED <<option, bgVars, timeVars>>

\* wakeOneWaiterLocked: the head waiter tries again.  Caller c ends its call.
WakeOneAndLeave(c) ==
    /\ waiters' = IF waiters = <<>> THEN <<>> ELSE Tail(waiters)
    /\ pc' = [d \in Callers |-> IF d = c THEN "idle"
                                ELSE IF waiters # <<>> /\ d = Head(waiters) THEN "retry"
                                ELSE pc[d]]

NewConn == CHOOSE cn \in Conns : cn \notin Live

\* The socket of c's new connection is open: both its stamps are set now.
Connected(c) ==
    /\ pc[c] = "dial"
    /\ Conns \ Live # {}
    /\ held' = [held EXCEPT ![c] = NewConn]
    /\ Goto(c, "init")
    /\ UNCHANGED <<option, pool, waiters, bgVars, age, used, timeVars>>

\* AUTH and SELECT succeeded: the connection is used without a new stamp.
InitDone(c) ==
    /\ pc[c] = "init"
    /\ Goto(c, "use")
    /\ UNCHANGED <<option, pool, waiters, held, bgVars, age, used, timeVars>>

\* The dial, AUTH or SELECT failed, or (removeConn) the command did.
Discard(c) ==
    /\ pc[c] \in {"dial", "init", "use"}
    /\ Drop({held[c]})
    /\ held' = [held EXCEPT ![c] = NoConn]
    /\ WakeOneAndLeave(c)
    /\ UNCHANGED <<option, pool, bgVars, timeVars>>

\* ctx is done while the caller is queued.
abandonWaiter(c) ==
    /\ pc[c] = "wait"
    /\ Goto(c, "idle")
    /\ \E i \in 1..Len(waiters) :
         /\ waiters[i] = c
         /\ waiters' = SubSeq(waiters, 1, i - 1)
                         \o SubSeq(waiters, i + 1, Len(waiters))
    /\ UNCHANGED <<option, pool, held, bgVars, age, used, timeVars>>

-----------------------------------------------------------------------------
(* putConn.                                                                 *)

PutExpired(c) ==
    /\ isExpired(held[c])
    /\ Drop({held[c]})
    /\ held' = [held EXCEPT ![c] = NoConn]
    /\ WakeOneAndLeave(c)
    /\ UNCHANGED pool

\* Mutant: a waiting caller is handed the connection whatever its age.
PutHandOff_AnyAge(c) ==
    /\ waiters # <<>>
    /\ waiters' = Tail(waiters)
    /\ held' = [held EXCEPT ![c] = NoConn, ![Head(waiters)] = held[c]]
    /\ pc' = [pc EXCEPT ![c] = "idle", ![Head(waiters)] = "use"]
    /\ used' = [used EXCEPT ![held[c]] = 0]
    /\ UNCHANGED <<pool, age>>

PutHandOff(c) ==
    /\ ~isExpired(held[c])
    /\ waiters # <<>>
    /\ waiters' = Tail(waiters)
    /\ held' = [held EXCEPT ![c] = NoConn, ![Head(waiters)] = held[c]]
    /\ pc' = [pc EXCEPT ![c] = "idle", ![Head(waiters)] = "use"]
    /\ used' = [used EXCEPT ![held[c]] = 0]
    /\ UNCHANGED <<pool, age>>

\* usedAt stays that of the checkout.
PutParked(c) ==
    /\ ~isExpired(held[c])
    /\ waiters = <<>>
    /\ pool' = Append(pool, held[c])
    /\ held' = [held EXCEPT ![c] = NoConn]
    /\ Goto(c, "idle")
    /\ UNCHANGED <<waiters, age, used>>

putConn(c) ==
    /\ pc[c] = "use"
    /\ PutExpired(c) \/ PutHandOff(c) \/ PutParked(c)
    /\ UNCHANGED <<option, bgVars, timeVars>>

-----------------------------------------------------------------------------
(* The reaper.                                                              *)

\* Mutant: nothing is reaped when one of the two limits is disabled.
Stays_EitherDisabled(cn) == idleTimeout = 0 \/ maxConnAge = 0 \/ ~isExpired(cn)

\* reapStaleConns leaves cn in the pool.
Stays(cn) == (idleTimeout = 0 /\ maxConnAge = 0) \/ ~isExpired(cn)

\* The reaper takes a tick: the idle connections that stay keep their order.
reapStaleConns ==
    /\ bg = "wait" /\ ticked
    /\ ticked' = FALSE
    /\ \E n \in 0..Len(pool) : \E at \in [1..n -> 1..Len(pool)] :
         /\ \A i, j \in 1..n : i < j => at[i] < at[j]
         /\ Range(at) = {i \in 1..Len(pool) : Stays(pool[i])}
         /\ pool' = [i \in 1..n |-> pool[at[i]]]
    /\ Drop({cn \in Parked : ~Stays(cn)})
    /\ bg' = "ensure"
    /\ UNCHANGED <<option, waiters, pc, held, bgHeld, phase>>

ensureMinIdle ==
    /\ bg = "ensure"
    /\ bg' = IF Target - Len(pool) <= 0 \/ active >= poolSize THEN "wait"
             ELSE "reserve"
    /\ UNCHANGED <<option, pool, waiters, pc, held, bgHeld, age, used, timeVars>>

DialIdleReserve ==
    /\ bg = "reserve"
    /\ bg' = IF active >= poolSize THEN "wait" ELSE "dial"
    /\ UNCHANGED <<option, pool, waiters, pc, held, bgHeld, age, used, timeVars>>

DialIdleConnected ==
    /\ bg = "dial"
    /\ Conns \ Live # {}
    /\ bgHeld' = NewConn
    /\ bg' = "init"
    /\ UNCHANGED <<option, pool, waiters, pc, held, age, used, timeVars>>

\* Mutant: no return after a failed dial, the nil connection is parked.
DialIdleFailed_FallsThrough ==
    /\ bg = "dial"
    /\ pool' = Append(pool, bgHeld)
    /\ bg' = "ensure"
    /\ UNCHANGED <<option, waiters, pc, held, bgHeld, age, used, timeVars>>

DialIdleFailed ==
    /\ bg \in {"dial", "init"}
    /\ Drop({bgHeld})
    /\ bgHeld' = NoConn
    /\ bg' = "wait"
    /\ WakeOneAndLeave(NoConn)
    /\ UNCHANGED <<option, pool, held, timeVars>>

\* The new connection goes to the head waiter, which stamps it, or is parked.
DialIdleDone ==
    /\ bg = "init"
    /\ \/ /\ waiters # <<>>
          /\ waiters' = Tail(waiters)
          /\ held' = [held EXCEPT ![Head(waiters)] = bgHeld]
          /\ Goto(Head(waiters), "use")
          /\ used' = [used EXCEPT ![bgHeld] = 0]
          /\ UNCHANGED pool
       \/ /\ waiters = <<>>
          /\ pool' = Append(pool, bgHeld)
          /\ UNCHANGED <<waiters, held, pc, used>>
    /\ bgHeld' = NoConn
    /\ bg' = "ensure"
    /\ UNCHANGED <<option, age, timeVars>>

-----------------------------------------------------------------------------
dialConn(c) == Connected(c) \/ InitDone(c) \/ Discard(c)
dialIdle == DialIdleReserve \/ DialIdleConnected \/ DialIdleFailed \/ DialIdleDone

Next ==
    \/ Advance
    \/ \E c \in Callers :
         getConn(c) \/ dialConn(c) \/ abandonWaiter(c) \/ putConn(c)
    \/ reapStaleConns \/ ensureMinIdle \/ dialIdle

Spec == Init /\ [][Next]_vars

\* Time goes on, the reaper runs, and a dial, a command or a woken caller gets
\* to its end: sockets have deadlines and the mutex does not starve.
FairSpec ==
    /\ Spec
    /\ WF_vars(Advance)
    /\ WF_vars(reapStaleConns \/ ensureMinIdle \/ dialIdle)
    /\ \A c \in Callers :
         WF_vars((pc[c] = "retry" /\ getConn(c)) \/ dialConn(c) \/ putConn(c))

-----------------------------------------------------------------------------
(* Safety.                                                                  *)

\* Every variable has its type.
TypeOK ==
    /\ option \in OptionSet
    /\ pool \in Seq(Conns)
    /\ waiters \in Seq(Callers)
    /\ pc \in [Callers -> {"idle", "retry", "wait", "dial", "init", "use"}]
    /\ held \in [Callers -> Conns \cup {NoConn}]
    /\ bg \in {"wait", "ensure", "reserve", "dial", "init"}
    /\ bgHeld \in Conns \cup {NoConn}
    /\ age \in [Conns -> 0..(maxConnAge + reaperInterval)]
    /\ used \in [Conns -> 0..(idleTimeout + reaperInterval)]
    /\ phase \in 0..(reaperInterval - 1)
    /\ ticked \in BOOLEAN

\* Unless a tick waits for the reaper, nothing in the pool has outlived an
\* enabled limit by a whole reaperInterval, wherever in the pool it lies and
\* whether a caller or dialIdle parked it, however long dialIdle takes
\* (reapStaleConns 271-302).
ReapedInTime ==
    ~ticked =>
      \A cn \in Parked :
        /\ idleTimeout > 0 => used[cn] < idleTimeout + reaperInterval
        /\ maxConnAge > 0 => age[cn] < maxConnAge + reaperInterval

\* What the documentation of Options calls the limit: none for a negative
\* value, the default for zero (option.go 46-53).
Outlived(t, limit, default) ==
    t > IF limit = 0 THEN default ELSE limit

\* An idle connection leaves the pool to serve a caller, or because it has
\* outlived a limit that its Options do not disable: -1 never turns into the
\* default, nor a limit of zero into immediate expiry (Option.Create, Options).
ClosedForCause ==
    [][\A cn \in Parked :
         \/ cn \in Live'
         \/ /\ option.IdleTimeout >= 0
            /\ Outlived(used[cn], option.IdleTimeout, defaultIdleTimeout)
         \/ /\ option.MaxConnAge >= 0
            /\ Outlived(age[cn], option.MaxConnAge, defaultMaxConnAge)]_vars

-----------------------------------------------------------------------------
(* Liveness.                                                                *)

InCall == {c \in Callers : pc[c] # "idle"}
LimitsEnabled == option.IdleTimeout >= 0 \/ option.MaxConnAge >= 0

\* After a burst the pool shrinks: once no more than k callers are in a call at
\* a time, the client keeps at most k connections and the idle floor, although
\* those k callers go on using the pool (the point of popping it LIFO, 427).
SurplusCloses ==
    \A k \in 0..Cardinality(Callers) :
      (LimitsEnabled /\ <>[](Cardinality(InCall) <= k))
        => <>[](Cardinality(Live) <= Target + k)

\* A connection past MaxConnAge is closed in the end, also when callers keep
\* handing it to one another and it never rests in the pool (putConn 545-557).
OldRetire ==
    \A cn \in Conns :
      (maxConnAge > 0 /\ age[cn] > maxConnAge) ~> (age[cn] <= maxConnAge)

=============================================================================
