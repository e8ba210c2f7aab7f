------------------------- MODULE ConnPoolRefinement -------------------------
(***************************************************************************)
(* The pool implements exclusive leases, for every number of callers,      *)
(* every PoolSize and every MinIdle: each of its steps is a step of        *)
(* ConnLease or leaves the leases alone.                                   *)
(***************************************************************************)
EXTENDS ConnPoolSlots

-----------------------------------------------------------------------------
(* The leases of the pool.                                                 *)

LiveBar  == pool \cup Leased \cup InChannels
LeaseBar == [c \in Callers |-> IF chan[c] \in Conns THEN chan[c] ELSE held[c]]
LentBar  == {LeaseBar[c] : c \in Callers} \ {NoConn}

LeaseStep == [Lease!Next]_(Lease!leaseVars)

\* The actions of ConnLease in these terms.
LEMMA ConnectStep ==
    ASSUME NEW c \in Callers, NEW cn \in Conns, LeaseBar[c] = NoConn,
           cn \notin LiveBar, Cardinality(LiveBar) < PoolSize,
           LiveBar' = LiveBar \cup {cn},
           LeaseBar' = [LeaseBar EXCEPT ![c] = cn], closed' = closed
    PROVE  LeaseStep
<1>1. Lease!Connect(c, cn)
  BY DEF Lease!Connect, LiveBar, LeaseBar, Cardinality, Lease!Cardinality
<1> QED
  BY <1>1 DEF LeaseStep, Lease!Next

LEMMA WarmStep ==
    ASSUME NEW cn \in Conns, ~closed, cn \notin LiveBar,
           Cardinality(LiveBar) < PoolSize,
           LiveBar' = LiveBar \cup {cn}, LeaseBar' = LeaseBar, closed' = closed
    PROVE  LeaseStep
<1>1. Lease!Warm(cn)
  BY DEF Lease!Warm, LiveBar, LeaseBar, Cardinality, Lease!Cardinality
<1> QED
  BY <1>1 DEF LeaseStep, Lease!Next

LEMMA LendStep ==
    ASSUME NEW c \in Callers, ~closed, LeaseBar[c] = NoConn,
           NEW cn \in LiveBar \ LentBar, NEW worn \in SUBSET ((LiveBar \ LentBar) \ {cn}),
           LiveBar' = LiveBar \ worn,
           LeaseBar' = [LeaseBar EXCEPT ![c] = cn], closed' = closed
    PROVE  LeaseStep
<1>1. Lease!Free = LiveBar \ LentBar
  BY DEF Lease!Free, Lease!Lent, LiveBar, LentBar, LeaseBar
<1>2. Lease!Lend(c, cn, worn)
  BY <1>1 DEF Lease!Lend, LiveBar, LeaseBar
<1> QED
  BY <1>1, <1>2 DEF LeaseStep, Lease!Next

LEMMA GiveBackStep ==
    ASSUME NEW c \in Callers, ~closed, LeaseBar[c] # NoConn,
           LeaseBar' = [LeaseBar EXCEPT ![c] = NoConn],
           LiveBar' = LiveBar, closed' = closed
    PROVE  LeaseStep
<1>1. Lease!GiveBack(c)
  BY DEF Lease!GiveBack, LiveBar, LeaseBar
<1> QED
  BY <1>1 DEF LeaseStep, Lease!Next

LEMMA PassStep ==
    ASSUME NEW c \in Callers, NEW d \in Callers, ~closed,
           LeaseBar[c] # NoConn, LeaseBar[d] = NoConn,
           LeaseBar' = [LeaseBar EXCEPT ![c] = NoConn, ![d] = LeaseBar[c]],
           LiveBar' = LiveBar, closed' = closed
    PROVE  LeaseStep
<1>1. Lease!Pass(c, d)
  BY DEF Lease!Pass, LiveBar, LeaseBar
<1> QED
  BY <1>1 DEF LeaseStep, Lease!Next

LEMMA DropStep ==
    ASSUME NEW c \in Callers, LeaseBar[c] # NoConn,
           LiveBar' = LiveBar \ {LeaseBar[c]},
           LeaseBar' = [LeaseBar EXCEPT ![c] = NoConn], closed' = closed
    PROVE  LeaseStep
<1>1. Lease!Drop(c)
  BY DEF Lease!Drop, LiveBar, LeaseBar
<1> QED
  BY <1>1 DEF LeaseStep, Lease!Next

LEMMA ShedStep ==
    ASSUME NEW worn \in SUBSET (LiveBar \ LentBar),
           LiveBar' = LiveBar \ worn, LeaseBar' = LeaseBar, closed' = closed
    PROVE  LeaseStep
<1>1. Lease!Free = LiveBar \ LentBar
  BY DEF Lease!Free, Lease!Lent, LiveBar, LentBar, LeaseBar
<1>2. Lease!Shed(worn)
  BY <1>1 DEF Lease!Shed, LiveBar, LeaseBar
<1> QED
  BY <1>1, <1>2 DEF LeaseStep, Lease!Next

LEMMA ShutdownStep ==
    ASSUME closed', LiveBar' = LiveBar, LeaseBar' = LeaseBar
    PROVE  LeaseStep
<1>1. Lease!Shutdown
  <2>1. closed' = TRUE
    OBVIOUS
  <2> QED
    BY <2>1 DEF Lease!Shutdown, LiveBar, LeaseBar
<1> QED
  BY <1>1 DEF LeaseStep, Lease!Next

LEMMA NoStep ==
    ASSUME LiveBar' = LiveBar, LeaseBar' = LeaseBar, closed' = closed
    PROVE  LeaseStep
BY DEF LeaseStep, Lease!leaseVars, LiveBar, LeaseBar

-----------------------------------------------------------------------------
(* How the pool's steps change them.                                       *)

LEMMA LiveBarVals ==
    /\ LiveBar = pool \cup Vals(held) \cup Vals(chan)
    /\ LiveBar' = pool' \cup Vals(held') \cup Vals(chan')
BY DEF LiveBar, Vals, Leased, InChannels

LEMMA BarAt ==
    ASSUME NEW c \in Callers
    PROVE  /\ LeaseBar[c] = IF chan[c] \in Conns THEN chan[c] ELSE held[c]
           /\ LeaseBar'[c] = IF chan'[c] \in Conns THEN chan'[c] ELSE held'[c]
BY DEF LeaseBar

\* The lease of one caller changes.
LEMMA BarExcept ==
    ASSUME NEW c \in Callers, NEW v, LeaseBar'[c] = v,
           \A d \in Callers \ {c} : LeaseBar'[d] = LeaseBar[d]
    PROVE  LeaseBar' = [LeaseBar EXCEPT ![c] = v]
BY DEF LeaseBar

\* The leases of two callers change.
LEMMA BarExceptTwo ==
    ASSUME NEW c \in Callers, NEW d \in Callers, c # d, NEW v, NEW w,
           LeaseBar'[c] = v, LeaseBar'[d] = w,
           \A e \in Callers \ {c, d} : LeaseBar'[e] = LeaseBar[e]
    PROVE  LeaseBar' = [LeaseBar EXCEPT ![c] = v, ![d] = w]
BY DEF LeaseBar

LEMMA BarSame ==
    ASSUME \A d \in Callers : LeaseBar'[d] = LeaseBar[d]
    PROVE  LeaseBar' = LeaseBar
BY DEF LeaseBar

\* A caller is lent what it holds or what its channel holds, never both.
LEMMA BarFacts ==
    ASSUME TypeInv, QueueInv, OwnInv
    PROVE  /\ \A c \in Callers : held[c] \in Conns =>
                 LeaseBar[c] = held[c] /\ chan[c] \notin Conns
           /\ \A c \in Callers :
                 held[c] \notin Conns /\ chan[c] \notin Conns => LeaseBar[c] = NoConn
           /\ LiveBar \ LentBar = pool
<1>0. TypeOK
  BY DEF TypeInv
<1>1. \A c \in Callers : held[c] \in Conns => chan[c] \notin Conns
  BY Sentinels DEF TypeInv, HeldWhileUsed, QueueInv, QueueOK
<1>2. \A c \in Callers : held[c] \notin Conns => held[c] = NoConn
  BY <1>0 DEF TypeOK
<1>3. LentBar = Vals(held) \cup Vals(chan)
  <2>1. \A c \in Callers : LeaseBar[c] # NoConn => LeaseBar[c] \in Vals(held) \cup Vals(chan)
    BY <1>2, BarAt DEF Vals
  <2>2. \A c \in Callers : held[c] \in Conns => LeaseBar[c] = held[c]
    BY <1>1, BarAt
  <2>3. \A c \in Callers : chan[c] \in Conns => LeaseBar[c] = chan[c]
    BY BarAt
  <2>4. LentBar \subseteq Vals(held) \cup Vals(chan)
    BY <2>1 DEF LentBar
  <2>5. Vals(held) \cup Vals(chan) \subseteq LentBar
    BY <2>2, <2>3, Sentinels DEF LentBar, Vals
  <2> QED
    BY <2>4, <2>5
<1>4. LiveBar \ LentBar = pool
  BY <1>0, <1>3, ChargedParts, LiveBarVals
<1> QED
  BY <1>1, <1>2, <1>4, BarAt

\* While a thread dials there is room for its connection.
LEMMA Room ==
    ASSUME TypeOK, OwnInv, SlotInv, Bounded, NEW t \in Dials(pc, bg)
    PROVE  Cardinality(LiveBar) < PoolSize
<1>1. LiveBar \in SUBSET (Charged \ {t}) /\ t \in Charged
  BY ChargedParts, LiveBarVals
<1>2. /\ IsFiniteSet(Charged \ {t})
      /\ Cardinality(Charged \ {t}) = active - 1
  BY <1>1, FS_RemoveElement DEF SlotInv, Counts
<1>3. IsFiniteSet(LiveBar) /\ Cardinality(LiveBar) <= Cardinality(Charged \ {t})
  BY <1>1, <1>2, FS_Subset
<1>4. Cardinality(LiveBar) \in Nat
  BY <1>3, FS_CardinalityType
<1> QED
  BY <1>2, <1>3, <1>4, SizesAssumption DEF TypeOK, Bounded

\* A step that moves no connection but from a channel to its receiver.
LEMMA MovesNothing ==
    ASSUME TypeOK, QueueInv, UNCHANGED <<pool, closed, held>>,
           \A c \in Callers : \/ chan'[c] = chan[c]
                              \/ chan'[c] \notin Conns /\ chan[c] \notin Conns
    PROVE  LeaseStep
<1>1. Vals(chan') = Vals(chan)
  BY DEF Vals
<1>2. LiveBar' = LiveBar
  BY <1>1, LiveBarVals
<1>3. LeaseBar' = LeaseBar
  BY BarAt, BarSame
<1> QED
  BY <1>2, <1>3, NoStep

\* A wake-up moves none.
LEMMA WakeMoves ==
    ASSUME TypeOK, QueueInv, wakeOneWaiterLocked
    PROVE  \A c \in Callers : \/ chan'[c] = chan[c]
                              \/ chan'[c] \notin Conns /\ chan[c] \notin Conns
<1>1. CASE Send(Retry)
  <2>1. chan[Head(waiters)] = Empty /\ chan' = [chan EXCEPT ![Head(waiters)] = Retry]
    BY <1>1, HeadEmpty DEF Send
  <2> QED
    BY <2>1, Sentinels DEF TypeOK
<1>2. CASE UNCHANGED chan
  BY <1>2
<1> QED
  BY <1>1, <1>2 DEF wakeOneWaiterLocked

\* A caller's connection leaves the pool.
LEMMA Drops ==
    ASSUME TypeInv, QueueInv, OwnInv, NEW c \in Callers, held[c] \in Conns,
           held' = [held EXCEPT ![c] = NoConn], pool' = pool, closed' = closed,
           wakeOneWaiterLocked \/ UNCHANGED chan
    PROVE  LeaseStep
<1>0. TypeOK
  BY DEF TypeInv
<1>1. \A d \in Callers : \/ chan'[d] = chan[d]
                         \/ chan'[d] \notin Conns /\ chan[d] \notin Conns
  BY <1>0, WakeMoves
<1>2. LeaseBar[c] = held[c] /\ chan[c] \notin Conns
  BY BarFacts
<1>3. /\ held'[c] = NoConn /\ \A d \in Callers \ {c} : held'[d] = held[d]
  BY <1>0 DEF TypeOK
<1>4. LeaseBar' = [LeaseBar EXCEPT ![c] = NoConn]
  BY <1>1, <1>2, <1>3, BarAt, BarExcept
<1>5. Vals(held') = Vals(held) \ {held[c]} /\ Vals(chan') = Vals(chan)
  BY <1>0, ReleaseVals, WakeVals
<1>6. LiveBar' = LiveBar \ {held[c]}
  BY <1>0, <1>5, ReleaseVals, ChargedParts, LiveBarVals
<1> QED
  BY <1>2, <1>4, <1>6, DropStep, Sentinels

-----------------------------------------------------------------------------
(* Every step is a step of the leases.                                     *)

AllInv == TypeInv /\ QueueInv /\ OwnInv /\ SlotInv /\ Bounded

\* putConn: the lease is given back, passed on or dropped.
LEMMA PutLease ==
    ASSUME AllInv, NEW c \in Callers, putConn(c)
    PROVE  LeaseStep
<1>0. TypeOK /\ TypeInv /\ QueueInv /\ OwnInv
  BY DEF AllInv, TypeInv
<1>1. held[c] \in Conns /\ held' = [held EXCEPT ![c] = NoConn] /\ closed' = closed
  BY <1>0 DEF TypeInv, HeldWhileUsed, putConn, Release
<1>2. CASE PutClosed(c) \/ PutExpired(c)
  BY <1>0, <1>1, <1>2, Drops DEF PutClosed, PutExpired
<1>3. CASE PutFresh(c)
  <2>1. ~closed /\ HandOffOrPark(held[c])
    BY <1>3 DEF PutFresh
  <2>2. LeaseBar[c] = held[c] /\ chan[c] \notin Conns /\ LeaseBar[c] # NoConn
    BY <1>0, <1>1, BarFacts, Sentinels
  <2>3. held'[c] = NoConn /\ \A d \in Callers \ {c} : held'[d] = held[d]
    BY <1>0, <1>1 DEF TypeOK
  <2>4. pool' \cup Vals(chan') = pool \cup Vals(chan) \cup {held[c]}
    BY <1>0, <1>1, <2>1, HandOffOrParkVals
  <2>5. Vals(held') = Vals(held) \ {held[c]} /\ held[c] \in Vals(held)
    BY <1>0, <1>1, ReleaseVals
  <2>6. LiveBar' = LiveBar
    BY <1>0, <2>4, <2>5, ChargedParts, LiveBarVals
  <2>7. CASE UNCHANGED chan
    <3>1. LeaseBar' = [LeaseBar EXCEPT ![c] = NoConn]
      BY <2>2, <2>3, <2>7, BarAt, BarExcept
    <3> QED
      BY <1>1, <2>1, <2>2, <2>6, <3>1, GiveBackStep
  <2>8. CASE Send(held[c])
    <3> DEFINE d == Head(waiters)
    <3>1. /\ d \in Callers /\ chan[d] = Empty /\ d \in Elems(waiters)
          /\ chan' = [chan EXCEPT ![d] = held[c]]
      BY <1>0, <2>8, HeadEmpty, TailElems DEF Send, TypeOK, QueueInv, QueueOK
    <3> HIDE DEF d
    <3>2. pc[d] = "wait" /\ pc[c] # "wait"
      BY <1>0, <3>1 DEF QueueInv, QueueOK, putConn
    <3>3. d # c /\ held[d] \notin Conns
      BY <1>0, <3>1, <3>2 DEF TypeInv, HeldWhileUsed
    <3>4. LeaseBar[d] = NoConn
      BY <1>0, <3>1, <3>3, BarFacts, Sentinels
    <3>5. chan'[d] = held[c] /\ \A e \in Callers \ {d} : chan'[e] = chan[e]
      BY <1>0, <3>1 DEF TypeOK
    <3>6. /\ LeaseBar'[c] = NoConn /\ LeaseBar'[d] = held[c]
          /\ \A e \in Callers \ {c, d} : LeaseBar'[e] = LeaseBar[e]
      BY <1>1, <2>2, <2>3, <3>1, <3>3, <3>5, BarAt
    <3>7. LeaseBar' = [LeaseBar EXCEPT ![c] = NoConn, ![d] = LeaseBar[c]]
      BY <2>2, <3>1, <3>3, <3>6, BarExceptTwo
    <3> QED
      BY <1>1, <2>1, <2>2, <2>6, <3>1, <3>4, <3>7, PassStep
  <2> QED
    BY <2>1, <2>7, <2>8 DEF HandOffOrPark
<1> QED
  BY <1>2, <1>3 DEF putConn

\* A background dial: the pool gets a connection, or the head waiter does.
LEMMA DialIdleLease ==
    ASSUME AllInv, NEW t \in Background, dialIdle(t)
    PROVE  LeaseStep
<1>0. TypeOK /\ TypeInv /\ QueueInv /\ OwnInv /\ SlotInv /\ Bounded
  BY DEF AllInv, TypeInv
<1>1. closed' = closed /\ held' = held
  BY DEF dialIdle, DialIdleReserve, DialIdleFailed, DialIdleDone, callerVars
<1>2. CASE DialIdleReserve(t)
  BY <1>0, <1>1, <1>2, MovesNothing DEF DialIdleReserve
<1>3. CASE DialIdleFailed(t)
  BY <1>0, <1>1, <1>3, WakeMoves, MovesNothing DEF DialIdleFailed
<1>4. CASE DialIdleDone(t)
  <2>1. PICK cn \in Conns \ open :
          \/ closed /\ UNCHANGED <<pool, chan>>
          \/ ~closed /\ HandOffOrPark(cn)
    BY <1>4 DEF DialIdleDone
  <2>2. cn \notin LiveBar
    BY <1>0, ChargedParts, LiveBarVals
  <2>3. Cardinality(LiveBar) < PoolSize
    <3>1. t \in Dials(pc, bg)
      BY <1>4 DEF DialIdleDone, Dials
    <3> QED
      BY <1>0, <3>1, Room
  <2>4. CASE closed /\ UNCHANGED <<pool, chan>>
    BY <1>0, <1>1, <2>4, MovesNothing
  <2>5. CASE ~closed /\ HandOffOrPark(cn)
    <3>1. LiveBar' = LiveBar \cup {cn}
      BY <1>0, <1>1, <2>5, HandOffOrParkVals, LiveBarVals
    <3>2. CASE UNCHANGED chan
      <4>1. LeaseBar' = LeaseBar
        BY <1>1, <3>2, BarAt, BarSame
      <4> QED
        BY <1>1, <2>2, <2>3, <2>5, <3>1, <4>1, WarmStep
    <3>3. CASE Send(cn)
      <4> DEFINE d == Head(waiters)
      <4>1. /\ d \in Callers /\ chan[d] = Empty /\ d \in Elems(waiters)
            /\ chan' = [chan EXCEPT ![d] = cn]
        BY <1>0, <3>3, HeadEmpty, TailElems DEF Send, TypeOK, QueueInv, QueueOK
      <4> HIDE DEF d
      <4>2. held[d] \notin Conns
        BY <1>0, <4>1 DEF QueueInv, QueueOK, TypeInv, HeldWhileUsed
      <4>3. LeaseBar[d] = NoConn
        BY <1>0, <4>1, <4>2, BarFacts, Sentinels
      <4>4. chan'[d] = cn /\ \A e \in Callers \ {d} : chan'[e] = chan[e]
        BY <1>0, <4>1 DEF TypeOK
      <4>5. LeaseBar' = [LeaseBar EXCEPT ![d] = cn]
        BY <1>1, <4>1, <4>4, BarAt, BarExcept
      <4> QED
        BY <1>1, <2>2, <2>3, <3>1, <4>1, <4>3, <4>5, ConnectStep
    <3> QED
      BY <2>5, <3>2, <3>3 DEF HandOffOrPark
  <2> QED
    BY <2>1, <2>4, <2>5
<1> QED
  BY <1>2, <1>3, <1>4 DEF dialIdle

\* Idle connections are dropped.
LEMMA IdleDrops ==
    ASSUME AllInv, NEW D \in SUBSET pool, pool' = pool \ D, closed' = closed,
           held' = held,
           \A c \in Callers : \/ chan'[c] = chan[c]
                              \/ chan'[c] \notin Conns /\ chan[c] \notin Conns
    PROVE  LeaseStep
<1>0. TypeOK /\ TypeInv /\ QueueInv /\ OwnInv
  BY DEF AllInv, TypeInv
<1>1. LeaseBar' = LeaseBar
  BY BarAt, BarSame
<1>2. Vals(chan') = Vals(chan)
  BY DEF Vals
<1>3. LiveBar' = LiveBar \ D
  BY <1>0, <1>2, ChargedParts, LiveBarVals
<1>4. LiveBar \ LentBar = pool
  BY <1>0, BarFacts
<1> QED
  BY <1>1, <1>3, <1>4, ShedStep

LEMMA LeaseNext == AllInv /\ [Next]_vars => LeaseStep
<1> SUFFICES ASSUME AllInv, [Next]_vars PROVE LeaseStep
  OBVIOUS
<1> USE DEF callerVars, bgVars
<1>0. TypeOK /\ TypeInv /\ QueueInv /\ OwnInv /\ SlotInv /\ Bounded
  BY DEF AllInv, TypeInv
<1>h. \A c \in Callers : pc[c] \notin {"use", "reclaim"} => held[c] \notin Conns
  BY <1>0 DEF TypeInv, HeldWhileUsed
<1>m. \A c \in Callers : pc[c] # "wait" => chan[c] \notin Conns
  BY <1>0, Sentinels DEF QueueInv, QueueOK
<1>1. ASSUME NEW c \in Callers,
             \/ StartCall(c) \/ Refused(c) \/ DialFailed(c) \/ AbandonQueued(c)
             \/ Forward(c)
      PROVE  LeaseStep
  <2>1. UNCHANGED <<pool, closed, held>> /\ (UNCHANGED chan \/ wakeOneWaiterLocked)
    BY <1>1 DEF StartCall, Refused, DialFailed, AbandonQueued, Forward
  <2> QED
    BY <1>0, <2>1, WakeMoves, MovesNothing
<1>2. ASSUME NEW c \in Callers, Reuse(c) PROVE LeaseStep
  <2>1. PICK cn \in pool \ expired, D \in SUBSET (pool \cap expired) :
          /\ pool' = pool \ (D \cup {cn})
          /\ held' = [held EXCEPT ![c] = cn]
    BY <1>2 DEF Reuse
  <2>2. /\ ~closed /\ UNCHANGED <<closed, chan>> /\ cn \in Conns
        /\ held[c] \notin Conns /\ chan[c] \notin Conns
    BY <1>0, <1>2, <1>h, <1>m DEF Reuse, InGetConn, TypeOK
  <2>3. LiveBar \ LentBar = pool /\ LeaseBar[c] = NoConn
    BY <1>0, <2>2, BarFacts
  <2>4. held'[c] = cn /\ \A d \in Callers \ {c} : held'[d] = held[d]
    BY <1>0, <2>1 DEF TypeOK
  <2>5. LeaseBar' = [LeaseBar EXCEPT ![c] = cn]
    BY <2>2, <2>4, BarAt, BarExcept
  <2>6. Vals(held') = Vals(held) \cup {cn}
    BY <2>2, <2>4, ValsAdd DEF Update
  <2>7. LiveBar' = LiveBar \ D
    BY <1>0, <2>1, <2>2, <2>6, ChargedParts, LiveBarVals
  <2> QED
    BY <2>2, <2>3, <2>5, <2>7, LendStep
<1>3. ASSUME NEW c \in Callers, Reserve(c) \/ Enqueue(c) PROVE LeaseStep
  <2>1. pool' = {} /\ UNCHANGED <<closed, held, chan>> /\ pool \ pool = {}
    BY <1>3 DEF Reserve, Enqueue, Emptied
  <2> QED
    BY <2>1, IdleDrops
<1>4. ASSUME NEW c \in Callers, DialOk(c) PROVE LeaseStep
  <2>1. PICK cn \in Conns \ open : held' = [held EXCEPT ![c] = cn]
    BY <1>4 DEF DialOk
  <2>2. /\ UNCHANGED <<pool, closed, chan>> /\ c \in Dials(pc, bg)
        /\ held[c] \notin Conns /\ chan[c] \notin Conns
    BY <1>4, <1>h, <1>m DEF DialOk, Dials
  <2>3. LeaseBar[c] = NoConn
    BY <1>0, <2>2, BarFacts
  <2>4. held'[c] = cn /\ \A d \in Callers \ {c} : held'[d] = held[d]
    BY <1>0, <2>1 DEF TypeOK
  <2>5. LeaseBar' = [LeaseBar EXCEPT ![c] = cn]
    BY <2>2, <2>4, BarAt, BarExcept
  <2>6. Vals(held') = Vals(held) \cup {cn}
    BY <2>2, <2>4, ValsAdd DEF Update
  <2>7. LiveBar' = LiveBar \cup {cn} /\ cn \notin LiveBar
    BY <1>0, <2>2, <2>6, ChargedParts, LiveBarVals
  <2>8. Cardinality(LiveBar) < PoolSize
    BY <1>0, <2>2, Room
  <2> QED
    BY <2>2, <2>3, <2>5, <2>7, <2>8, ConnectStep
<1>5. ASSUME NEW c \in Callers, Receive(c) \/ AbandonDrained(c) PROVE LeaseStep
  <2>1. /\ UNCHANGED <<pool, closed>> /\ held[c] \notin Conns
        /\ chan' = [chan EXCEPT ![c] = Empty]
    BY <1>5, <1>h DEF Receive, AbandonDrained
  <2>2. chan'[c] = Empty /\ \A d \in Callers \ {c} : chan'[d] = chan[d]
    BY <1>0, <2>1 DEF TypeOK
  <2>3. CASE chan[c] \in Conns
    <3>1. held' = [held EXCEPT ![c] = chan[c]]
      BY <1>5, <2>3, Sentinels DEF Receive, AbandonDrained, Drain
    <3>2. held'[c] = chan[c] /\ \A d \in Callers \ {c} : held'[d] = held[d]
      BY <1>0, <3>1 DEF TypeOK
    <3>3. LeaseBar' = LeaseBar
      BY <2>2, <2>3, <3>2, Sentinels, BarAt, BarSame
    <3>4. Vals(held') = Vals(held) \cup {chan[c]}
      BY <2>1, <2>3, <3>2, ValsAdd DEF Update
    <3>5. \A d \in Callers : d # c => chan[d] # chan[c]
      BY <1>0, <2>3 DEF OwnInv, OwnOK, Exclusive
    <3>6. Vals(chan') = Vals(chan) \ {chan[c]} /\ chan[c] \in Vals(chan)
      BY <2>2, <2>3, <3>5, ValsRemove, Sentinels DEF Update
    <3>7. LiveBar' = LiveBar
      BY <2>1, <3>4, <3>6, LiveBarVals
    <3> QED
      BY <2>1, <3>3, <3>7, NoStep
  <2>4. CASE chan[c] \notin Conns
    <3>1. held' = held
      BY <1>5, <2>4 DEF Receive, AbandonDrained, Drain
    <3> QED
      BY <1>0, <2>1, <2>2, <2>4, <3>1, MovesNothing, Sentinels
  <2> QED
    BY <2>3, <2>4
<1>6. ASSUME NEW c \in Callers, putConn(c) PROVE LeaseStep
  BY <1>6, PutLease
<1>7. ASSUME NEW c \in Callers, removeConn(c) PROVE LeaseStep
  <2>1. /\ held[c] \in Conns /\ held' = [held EXCEPT ![c] = NoConn]
        /\ UNCHANGED <<pool, closed>>
        /\ wakeOneWaiterLocked \/ UNCHANGED chan
    BY <1>0, <1>7 DEF TypeInv, HeldWhileUsed, removeConn, Release
  <2> QED
    BY <1>0, <2>1, Drops
<1>8. ASSUME NEW t \in Background, dialIdle(t) PROVE LeaseStep
  BY <1>8, DialIdleLease
<1>9. CASE reapStaleConns
  <2>1. UNCHANGED <<closed, held, chan>>
    BY <1>9 DEF reapStaleConns
  <2>2. pool' = pool \/ pool' = pool \ (pool \cap expired)
    BY <1>9 DEF reapStaleConns
  <2> QED
    BY <1>0, <2>1, <2>2, IdleDrops, MovesNothing
<1>10. CASE \/ ensureMinIdle \/ ReaperExit
            \/ \E t \in Threads : closeAll(t)
            \/ \E cn \in Conns : Expire(cn)
            \/ UNCHANGED vars
  <2>1. UNCHANGED <<pool, closed, held, chan>>
    BY <1>10 DEF ensureMinIdle, ReaperExit, closeAll, Expire, vars
  <2> QED
    BY <1>0, <2>1, MovesNothing
<1>11. ASSUME NEW k \in Closers, Close(k) PROVE LeaseStep
  <2>1. closed' /\ UNCHANGED <<pool, held, chan>>
    BY <1>11 DEF Close
  <2>2. LiveBar' = LiveBar /\ LeaseBar' = LeaseBar
    BY <2>1, LiveBarVals, BarAt, BarSame
  <2> QED
    BY <2>1, <2>2, ShutdownStep
<1>12. ASSUME NEW k \in Closers, Teardown(k) PROVE LeaseStep
  <2>1. /\ pool' = {} /\ UNCHANGED <<closed, held>> /\ pool \ pool = {}
        /\ chan' = [c \in Callers |-> IF c \in Elems(waiters) THEN Shut ELSE chan[c]]
    BY <1>12 DEF Teardown, Elems
  <2>2. \A c \in Callers : \/ chan'[c] = chan[c]
                           \/ chan'[c] \notin Conns /\ chan[c] \notin Conns
    BY <1>0, <2>1, Sentinels DEF QueueInv, QueueOK
  <2> QED
    BY <2>1, <2>2, IdleDrops
<1> QED
  BY <1>1, <1>2, <1>3, <1>4, <1>5, <1>6, <1>7, <1>8, <1>9, <1>10, <1>11, <1>12
  DEF Next, CallerStep, getConn, dialConn, abandonWaiter

LEMMA LeaseInit == Init => Lease!Init
<1> SUFFICES ASSUME Init PROVE Lease!Init
  OBVIOUS
<1>1. /\ Leased = {} /\ InChannels = {} /\ pool = {} /\ closed = FALSE
      /\ [c \in Callers |-> IF chan[c] \in Conns THEN chan[c] ELSE held[c]]
           = [c \in Callers |-> NoConn]
  BY Sentinels DEF Init, Leased, InChannels
<1> QED
  BY <1>1 DEF Lease!Init

\* The pool implements exclusive leases.
THEOREM PoolImplementsLease == Spec => ImplementsLease
<1>1. AllInv /\ [Next]_vars => [Lease!Next]_(Lease!leaseVars)
  BY LeaseNext DEF LeaseStep
<1> QED
  BY <1>1, LeaseInit, TypeInvAlways, QueueInvAlways, OwnInvAlways, SlotInvAlways,
     BoundedAlways, PTL
  DEF Spec, ImplementsLease, Lease!Spec, AllInv

=============================================================================
