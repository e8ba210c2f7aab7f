---------------------------- MODULE ConnPoolSlots ----------------------------
(***************************************************************************)
(* Who owns a connection of the pool, what active counts, and that it      *)
(* stays within PoolSize, for every number of callers, every PoolSize and  *)
(* every MinIdle.                                                          *)
(*                                                                         *)
(* The moves a connection makes are lemmas about constants: o is the set   *)
(* of open sockets, p the idle pool, h what callers hold, m what the       *)
(* waiters' channels hold and z what threads have yet to close.            *)
(***************************************************************************)
EXTENDS ConnPoolProofs

-----------------------------------------------------------------------------
(* One owner.                                                              *)

\* OneOwner, one connection at a time: what is owned is open, has no second
\* owner, and what is open has an owner.
OwnedOpen(o, p, h, m, z) ==
    /\ o \subseteq Conns /\ p \subseteq o
    /\ \A c \in Callers : h[c] \in Conns => h[c] \in o \ p
    /\ \A c \in Callers : m[c] \in Conns => m[c] \in o \ p
    /\ \A t \in Threads : z[t] \subseteq o \ p

Exclusive(h, m, z) ==
    /\ \A c, d \in Callers : h[c] \in Conns => h[c] # m[d]
    /\ \A c \in Callers, t \in Threads : h[c] \in Conns => h[c] \notin z[t]
    /\ \A c \in Callers, t \in Threads : m[c] \in Conns => m[c] \notin z[t]
    /\ \A c, d \in Callers : c # d /\ h[c] \in Conns => h[c] # h[d]
    /\ \A c, d \in Callers : c # d /\ m[c] \in Conns => m[c] # m[d]
    /\ \A t, u \in Threads : t # u => z[t] \cap z[u] = {}

OpenOwned(o, p, h, m, z) ==
    \A x \in o : \/ x \in p
                 \/ \E c \in Callers : h[c] = x
                 \/ \E c \in Callers : m[c] = x
                 \/ \E t \in Threads : x \in z[t]

OwnOK(o, p, h, m, z) ==
    /\ OwnedOpen(o, p, h, m, z)
    /\ Exclusive(h, m, z)
    /\ OpenOwned(o, p, h, m, z)

Holdings == [Callers -> Conns \cup {NoConn}]
Debts    == [Threads -> SUBSET Conns]

\* Idle connections are dropped: thread t will close them.
LEMMA OwnDrop ==
    ASSUME NEW o, NEW p, NEW h, NEW m, NEW z \in Debts, OwnOK(o, p, h, m, z),
           NEW t \in Threads, z[t] = {}, NEW D \in SUBSET p
    PROVE  OwnOK(o, p \ D, h, m, [z EXCEPT ![t] = D])
<1>1. OwnedOpen(o, p \ D, h, m, [z EXCEPT ![t] = D])
  BY DEF OwnOK, OwnedOpen, Exclusive, Debts
<1>2. Exclusive(h, m, [z EXCEPT ![t] = D])
  BY DEF OwnOK, OwnedOpen, Exclusive, Debts
<1>3. OpenOwned(o, p \ D, h, m, [z EXCEPT ![t] = D])
  BY DEF OwnOK, OpenOwned, OwnedOpen, Debts
<1> QED
  BY <1>1, <1>2, <1>3 DEF OwnOK

\* A caller takes an idle connection.
LEMMA OwnTake ==
    ASSUME NEW o, NEW p, NEW h \in Holdings, NEW m, NEW z, OwnOK(o, p, h, m, z),
           NEW c \in Callers, h[c] \notin Conns, NEW x \in p, x \in Conns
    PROVE  OwnOK(o, p \ {x}, [h EXCEPT ![c] = x], m, z)
<1>1. OwnedOpen(o, p \ {x}, [h EXCEPT ![c] = x], m, z)
  BY DEF OwnOK, OwnedOpen, Exclusive, Holdings
<1>2. Exclusive([h EXCEPT ![c] = x], m, z)
  BY DEF OwnOK, OwnedOpen, Exclusive, Holdings
<1>3. OpenOwned(o, p \ {x}, [h EXCEPT ![c] = x], m, z)
  BY DEF OwnOK, OpenOwned, OwnedOpen, Holdings
<1> QED
  BY <1>1, <1>2, <1>3 DEF OwnOK

\* A caller dials.
LEMMA OwnDial ==
    ASSUME NEW o, NEW p, NEW h \in Holdings, NEW m, NEW z, OwnOK(o, p, h, m, z),
           NEW c \in Callers, h[c] \notin Conns, NEW x \in Conns \ o
    PROVE  OwnOK(o \cup {x}, p, [h EXCEPT ![c] = x], m, z)
<1>1. OwnedOpen(o \cup {x}, p, [h EXCEPT ![c] = x], m, z)
  BY DEF OwnOK, OwnedOpen, Exclusive, Holdings
<1>2. Exclusive([h EXCEPT ![c] = x], m, z)
  BY DEF OwnOK, OwnedOpen, Exclusive, Holdings
<1>3. OpenOwned(o \cup {x}, p, [h EXCEPT ![c] = x], m, z)
  BY DEF OwnOK, OpenOwned, OwnedOpen, Holdings
<1> QED
  BY <1>1, <1>2, <1>3 DEF OwnOK

\* A caller takes the connection its channel holds.
LEMMA OwnReceive ==
    ASSUME NEW o, NEW p, NEW h \in Holdings, NEW m \in [Callers -> Messages],
           NEW z, OwnOK(o, p, h, m, z),
           NEW c \in Callers, h[c] \notin Conns, m[c] \in Conns
    PROVE  OwnOK(o, p, [h EXCEPT ![c] = m[c]], [m EXCEPT ![c] = Empty], z)
<1>1. OwnedOpen(o, p, [h EXCEPT ![c] = m[c]], [m EXCEPT ![c] = Empty], z)
  BY Sentinels DEF OwnOK, OwnedOpen, Exclusive, Holdings, Messages
<1>2. Exclusive([h EXCEPT ![c] = m[c]], [m EXCEPT ![c] = Empty], z)
  BY Sentinels DEF OwnOK, OwnedOpen, Exclusive, Holdings, Messages
<1>3. OpenOwned(o, p, [h EXCEPT ![c] = m[c]], [m EXCEPT ![c] = Empty], z)
  BY Sentinels DEF OwnOK, OpenOwned, OwnedOpen, Holdings, Messages
<1> QED
  BY <1>1, <1>2, <1>3 DEF OwnOK

\* A channel without a connection gets another message without one.
LEMMA OwnSignal ==
    ASSUME NEW o, NEW p, NEW h, NEW m \in [Callers -> Messages], NEW z,
           OwnOK(o, p, h, m, z),
           NEW c \in Callers, m[c] \notin Conns, NEW msg, msg \notin Conns
    PROVE  OwnOK(o, p, h, [m EXCEPT ![c] = msg], z)
<1>1. OwnedOpen(o, p, h, [m EXCEPT ![c] = msg], z)
  BY DEF OwnOK, OwnedOpen, Exclusive, Messages
<1>2. Exclusive(h, [m EXCEPT ![c] = msg], z)
  BY DEF OwnOK, OwnedOpen, Exclusive, Messages
<1>3. OpenOwned(o, p, h, [m EXCEPT ![c] = msg], z)
  BY DEF OwnOK, OpenOwned, OwnedOpen, Messages
<1> QED
  BY <1>1, <1>2, <1>3 DEF OwnOK

\* A caller's connection is sent to a channel that holds none.
LEMMA OwnHandOff ==
    ASSUME NEW o, NEW p, NEW h \in Holdings, NEW m \in [Callers -> Messages],
           NEW z, OwnOK(o, p, h, m, z),
           NEW c \in Callers, h[c] \in Conns, NEW d \in Callers, m[d] \notin Conns
    PROVE  OwnOK(o, p, [h EXCEPT ![c] = NoConn], [m EXCEPT ![d] = h[c]], z)
<1>1. OwnedOpen(o, p, [h EXCEPT ![c] = NoConn], [m EXCEPT ![d] = h[c]], z)
  BY Sentinels DEF OwnOK, OwnedOpen, Exclusive, Holdings, Messages
<1>2. Exclusive([h EXCEPT ![c] = NoConn], [m EXCEPT ![d] = h[c]], z)
  BY Sentinels DEF OwnOK, OwnedOpen, Exclusive, Holdings, Messages
<1>3. OpenOwned(o, p, [h EXCEPT ![c] = NoConn], [m EXCEPT ![d] = h[c]], z)
  BY Sentinels DEF OwnOK, OpenOwned, OwnedOpen, Holdings, Messages
<1> QED
  BY <1>1, <1>2, <1>3 DEF OwnOK

\* A caller's connection is parked.
LEMMA OwnPark ==
    ASSUME NEW o, NEW p, NEW h \in Holdings, NEW m, NEW z, OwnOK(o, p, h, m, z),
           NEW c \in Callers, h[c] \in Conns
    PROVE  OwnOK(o, p \cup {h[c]}, [h EXCEPT ![c] = NoConn], m, z)
<1>1. OwnedOpen(o, p \cup {h[c]}, [h EXCEPT ![c] = NoConn], m, z)
  BY Sentinels DEF OwnOK, OwnedOpen, Exclusive, Holdings
<1>2. Exclusive([h EXCEPT ![c] = NoConn], m, z)
  BY Sentinels DEF OwnOK, OwnedOpen, Exclusive, Holdings
<1>3. OpenOwned(o, p \cup {h[c]}, [h EXCEPT ![c] = NoConn], m, z)
  BY Sentinels DEF OwnOK, OpenOwned, OwnedOpen, Holdings
<1> QED
  BY <1>1, <1>2, <1>3 DEF OwnOK

\* A caller's connection is retired.
LEMMA OwnRetire ==
    ASSUME NEW o, NEW p, NEW h \in Holdings, NEW m, NEW z \in Debts,
           OwnOK(o, p, h, m, z),
           NEW c \in Callers, h[c] \in Conns, NEW t \in Threads, z[t] = {}
    PROVE  OwnOK(o, p, [h EXCEPT ![c] = NoConn], m, [z EXCEPT ![t] = {h[c]}])
<1>1. OwnedOpen(o, p, [h EXCEPT ![c] = NoConn], m, [z EXCEPT ![t] = {h[c]}])
  BY Sentinels DEF OwnOK, OwnedOpen, Exclusive, Holdings, Debts
<1>2. Exclusive([h EXCEPT ![c] = NoConn], m, [z EXCEPT ![t] = {h[c]}])
  BY Sentinels DEF OwnOK, OwnedOpen, Exclusive, Holdings, Debts
<1>3. OpenOwned(o, p, [h EXCEPT ![c] = NoConn], m, [z EXCEPT ![t] = {h[c]}])
  BY Sentinels DEF OwnOK, OpenOwned, OwnedOpen, Holdings, Debts
<1> QED
  BY <1>1, <1>2, <1>3 DEF OwnOK

\* A background dial ends in the pool, in a channel or retired.
LEMMA OwnWarm ==
    ASSUME NEW o, NEW p, NEW h, NEW m \in [Callers -> Messages], NEW z \in Debts,
           OwnOK(o, p, h, m, z), NEW x \in Conns \ o
    PROVE  /\ OwnOK(o \cup {x}, p \cup {x}, h, m, z)
           /\ \A d \in Callers :
                m[d] \notin Conns => OwnOK(o \cup {x}, p, h, [m EXCEPT ![d] = x], z)
           /\ \A t \in Threads :
                z[t] = {} => OwnOK(o \cup {x}, p, h, m, [z EXCEPT ![t] = {x}])
<1> USE DEF OwnOK, OwnedOpen, Messages, Debts
<1>1. OwnOK(o \cup {x}, p \cup {x}, h, m, z)
  BY DEF OpenOwned
<1>2. ASSUME NEW d \in Callers, m[d] \notin Conns
      PROVE  OwnOK(o \cup {x}, p, h, [m EXCEPT ![d] = x], z)
  <2>1. OwnedOpen(o \cup {x}, p, h, [m EXCEPT ![d] = x], z)
    BY <1>2
  <2>2. Exclusive(h, [m EXCEPT ![d] = x], z)
    BY <1>2 DEF Exclusive
  <2>3. OpenOwned(o \cup {x}, p, h, [m EXCEPT ![d] = x], z)
    BY <1>2 DEF OpenOwned
  <2> QED
    BY <2>1, <2>2, <2>3
<1>3. ASSUME NEW t \in Threads, z[t] = {}
      PROVE  OwnOK(o \cup {x}, p, h, m, [z EXCEPT ![t] = {x}])
  <2>1. OwnedOpen(o \cup {x}, p, h, m, [z EXCEPT ![t] = {x}])
    BY <1>3
  <2>2. Exclusive(h, m, [z EXCEPT ![t] = {x}])
    BY <1>3 DEF Exclusive
  <2>3. OpenOwned(o \cup {x}, p, h, m, [z EXCEPT ![t] = {x}])
    BY <1>3 DEF OpenOwned
  <2> QED
    BY <2>1, <2>2, <2>3
<1> QED
  BY <1>1, <1>2, <1>3

\* A thread closes what it retired.
LEMMA OwnClose ==
    ASSUME NEW o, NEW p, NEW h, NEW m, NEW z \in Debts, OwnOK(o, p, h, m, z),
           NEW t \in Threads
    PROVE  OwnOK(o \ z[t], p, h, m, [z EXCEPT ![t] = {}])
<1>1. OwnedOpen(o \ z[t], p, h, m, [z EXCEPT ![t] = {}])
  BY DEF OwnOK, OwnedOpen, Exclusive, Debts
<1>2. Exclusive(h, m, [z EXCEPT ![t] = {}])
  BY DEF OwnOK, OwnedOpen, Exclusive, Debts
<1>3. OpenOwned(o \ z[t], p, h, m, [z EXCEPT ![t] = {}])
  BY DEF OwnOK, OpenOwned, OwnedOpen, Debts
<1> QED
  BY <1>1, <1>2, <1>3 DEF OwnOK

\* Close empties the pool and shuts the channels of those who wait.
LEMMA OwnTeardown ==
    ASSUME NEW o, NEW p, NEW h, NEW m, NEW z, OwnOK(o, p, h, m, z),
           NEW n, \A c \in Callers : n[c] = m[c] \/ (n[c] = Shut /\ m[c] \notin Conns)
    PROVE  OwnOK(o \ p, {}, h, n, z)
<1>1. OwnedOpen(o \ p, {}, h, n, z)
  BY Sentinels DEF OwnOK, OwnedOpen, Exclusive
<1>2. Exclusive(h, n, z)
  BY Sentinels DEF OwnOK, OwnedOpen, Exclusive
<1>3. OpenOwned(o \ p, {}, h, n, z)
  BY Sentinels DEF OwnOK, OpenOwned, OwnedOpen
<1> QED
  BY <1>1, <1>2, <1>3 DEF OwnOK

OwnInv == OwnOK(open, pool, held, chan, toClose)

LEMMA OwnInvIsOneOwner == TypeOK /\ OwnInv => OneOwner
<1> SUFFICES ASSUME TypeOK, OwnInv PROVE OneOwner
  OBVIOUS
<1> USE DEF OwnInv, OwnOK, Leased, InChannels, Retired
<1>1. open = pool \cup Leased \cup InChannels \cup Retired
  BY DEF OwnedOpen, OpenOwned
<1>2. /\ pool \cap (Leased \cup InChannels \cup Retired) = {}
      /\ Leased \cap (InChannels \cup Retired) = {}
      /\ InChannels \cap Retired = {}
  BY DEF OwnedOpen, Exclusive
<1> QED
  BY <1>1, <1>2 DEF OneOwner, Exclusive

\* The channel of the head waiter is empty, so a send on it loses nothing.
LEMMA HeadEmpty ==
    ASSUME TypeOK, QueueInv, waiters # <<>>
    PROVE  Head(waiters) \in Callers /\ chan[Head(waiters)] = Empty
BY TailElems DEF TypeOK, QueueInv, QueueOK

\* A wake-up moves no connection.
LEMMA OwnWake ==
    ASSUME TypeOK, QueueInv, wakeOneWaiterLocked, NEW o, NEW p, NEW h, NEW z,
           OwnOK(o, p, h, chan, z)
    PROVE  OwnOK(o, p, h, chan', z)
<1>1. CASE Send(Retry)
  <2>1. Head(waiters) \in Callers /\ chan[Head(waiters)] \notin Conns
    BY <1>1, HeadEmpty, Sentinels DEF Send
  <2> QED
    BY <1>1, <2>1, OwnSignal, Sentinels DEF Send, TypeOK, Messages
<1>2. CASE UNCHANGED chan
  BY <1>2
<1> QED
  BY <1>1, <1>2 DEF wakeOneWaiterLocked

LEMMA OwnInvInit == Init => OwnInv
BY Sentinels DEF Init, OwnInv, OwnOK, OwnedOpen, Exclusive, OpenOwned

\* A step that touches neither sockets nor owners.
LEMMA OwnStutter ==
    OwnInv /\ UNCHANGED <<open, pool, held, chan, toClose>> => OwnInv'
BY DEF OwnInv

\* putConn gives its connection exactly one new owner.
LEMMA OwnPut ==
    ASSUME TypeInv, QueueInv, OwnInv, NEW c \in Callers, putConn(c)
    PROVE  OwnInv'
<1>1. /\ TypeOK /\ held \in Holdings /\ toClose \in Debts
      /\ chan \in [Callers -> Messages] /\ c \in Threads
  BY DEF TypeInv, TypeOK, Holdings, Debts, Messages, Threads
<1>2. held[c] \in Conns /\ held' = [held EXCEPT ![c] = NoConn] /\ toClose[c] = {}
  BY DEF TypeInv, HeldWhileUsed, putConn, Release, Ready
<1>3. open' = open /\ OwnOK(open, pool, held, chan, toClose)
  BY DEF putConn, OwnInv
<1>4. CASE PutClosed(c)
  BY <1>1, <1>2, <1>3, <1>4, OwnRetire DEF PutClosed, Retire, OwnInv
<1>5. CASE PutExpired(c)
  <2>1. OwnOK(open, pool, held, chan', toClose)
    BY <1>1, <1>3, <1>5, OwnWake DEF PutExpired
  <2> QED
    BY <1>1, <1>2, <1>3, <1>5, <2>1, OwnRetire DEF PutExpired, Retire, OwnInv
<1>6. CASE PutFresh(c)
  <2>1. toClose' = toClose /\ HandOffOrPark(held[c])
    BY <1>6 DEF PutFresh
  <2>2. CASE Send(held[c]) /\ UNCHANGED pool
    <3>1. /\ Head(waiters) \in Callers /\ chan[Head(waiters)] \notin Conns
          /\ chan' = [chan EXCEPT ![Head(waiters)] = held[c]]
      BY <1>1, <2>2, HeadEmpty, Sentinels DEF Send
    <3> QED
      BY <1>1, <1>2, <1>3, <2>1, <2>2, <3>1, OwnHandOff DEF OwnInv
  <2>3. CASE pool' = pool \cup {held[c]} /\ UNCHANGED chan
    BY <1>1, <1>2, <1>3, <2>1, <2>3, OwnPark DEF OwnInv
  <2> QED
    BY <2>1, <2>2, <2>3 DEF HandOffOrPark
<1> QED
  BY <1>4, <1>5, <1>6 DEF putConn

\* So does a background dial.
LEMMA OwnDialIdle ==
    ASSUME TypeInv, QueueInv, OwnInv, NEW t \in Background, dialIdle(t)
    PROVE  OwnInv'
<1>1. /\ TypeOK /\ toClose \in Debts /\ chan \in [Callers -> Messages]
      /\ t \in Threads
  BY DEF TypeInv, TypeOK, Debts, Messages, Threads
<1>2. OwnOK(open, pool, held, chan, toClose)
  BY DEF OwnInv
<1>3. CASE DialIdleReserve(t)
  BY <1>3, OwnStutter DEF DialIdleReserve, callerVars
<1>4. CASE DialIdleFailed(t)
  BY <1>1, <1>2, <1>4, OwnWake DEF DialIdleFailed, callerVars, OwnInv
<1>5. CASE DialIdleDone(t)
  <2>1. PICK cn \in Conns \ open : DialIdleDone(t)!2!(cn)
    BY <1>5 DEF DialIdleDone
  <2>2. open' = open \cup {cn} /\ held' = held /\ toClose[t] = {}
    BY <1>5, <2>1 DEF DialIdleDone, Dialled, callerVars, Ready
  <2>3. CASE Retire(t, {cn}) /\ UNCHANGED <<pool, chan>>
    BY <1>1, <1>2, <2>2, <2>3, OwnWarm DEF Retire, OwnInv
  <2>4. CASE Send(cn) /\ UNCHANGED <<pool, toClose>>
    <3>1. /\ Head(waiters) \in Callers /\ chan[Head(waiters)] \notin Conns
          /\ chan' = [chan EXCEPT ![Head(waiters)] = cn]
      BY <1>1, <2>4, HeadEmpty, Sentinels DEF Send
    <3> QED
      BY <1>1, <1>2, <2>2, <2>4, <3>1, OwnWarm DEF OwnInv
  <2>5. CASE pool' = pool \cup {cn} /\ UNCHANGED <<chan, toClose>>
    BY <1>1, <1>2, <2>2, <2>5, OwnWarm DEF OwnInv
  <2> QED
    BY <2>1, <2>3, <2>4, <2>5 DEF HandOffOrPark
<1> QED
  BY <1>3, <1>4, <1>5 DEF dialIdle

\* Every step gives every open socket exactly one owner.
LEMMA OwnInvStep == TypeInv /\ QueueInv /\ OwnInv /\ [Next]_vars => OwnInv'
<1> SUFFICES ASSUME TypeInv, QueueInv, OwnInv, [Next]_vars PROVE OwnInv'
  OBVIOUS
<1> USE DEF callerVars, bgVars
<1>0. /\ TypeOK /\ held \in Holdings /\ toClose \in Debts
      /\ chan \in [Callers -> Messages] /\ Callers \subseteq Threads
      /\ pool \subseteq Conns
  BY DEF TypeInv, TypeOK, Holdings, Debts, Messages, Threads
<1>o. OwnOK(open, pool, held, chan, toClose)
  BY DEF OwnInv
<1>h. \A c \in Callers : pc[c] \notin {"use", "reclaim"} => held[c] \notin Conns
  BY DEF TypeInv, HeldWhileUsed
<1>1. ASSUME NEW c \in Callers, StartCall(c) \/ Refused(c) \/ AbandonQueued(c)
      PROVE  OwnInv'
  BY <1>1, OwnStutter DEF StartCall, Refused, AbandonQueued
<1>2. ASSUME NEW c \in Callers, Reuse(c) PROVE OwnInv'
  <2>1. PICK cn \in pool \ expired, D \in SUBSET (pool \cap expired) :
          /\ pool' = pool \ (D \cup {cn})
          /\ held' = [held EXCEPT ![c] = cn]
          /\ toClose' = [toClose EXCEPT ![c] = D]
    BY <1>2 DEF Reuse, Retire
  <2>2. toClose[c] = {} /\ held[c] \notin Conns /\ UNCHANGED <<open, chan>>
    BY <1>2, <1>h DEF Reuse, InGetConn, Ready
  <2>3. OwnOK(open, pool \ D, held, chan, toClose')
    BY <1>0, <1>o, <2>1, <2>2, OwnDrop
  <2>4. OwnOK(open, (pool \ D) \ {cn}, held', chan, toClose')
    BY <1>0, <2>1, <2>2, <2>3, OwnTake
  <2>5. (pool \ D) \ {cn} = pool'
    BY <2>1
  <2> QED
    BY <2>2, <2>4, <2>5 DEF OwnInv
<1>3. ASSUME NEW c \in Callers, Reserve(c) \/ Enqueue(c) PROVE OwnInv'
  <2>1. /\ pool' = {} /\ toClose' = [toClose EXCEPT ![c] = pool]
        /\ toClose[c] = {} /\ UNCHANGED <<open, held, chan>>
    BY <1>3 DEF Reserve, Enqueue, Emptied, InGetConn, Ready, Retire
  <2>2. OwnOK(open, pool \ pool, held, chan, toClose')
    BY <1>0, <1>o, <2>1, OwnDrop
  <2>3. pool \ pool = pool'
    BY <2>1
  <2> QED
    BY <2>1, <2>2, <2>3 DEF OwnInv
<1>4. ASSUME NEW c \in Callers, DialOk(c) PROVE OwnInv'
  <2>1. PICK cn \in Conns \ open :
          open' = open \cup {cn} /\ held' = [held EXCEPT ![c] = cn]
    BY <1>4 DEF DialOk, Dialled
  <2>2. held[c] \notin Conns /\ UNCHANGED <<pool, chan, toClose>>
    BY <1>4, <1>h DEF DialOk
  <2> QED
    BY <1>0, <1>o, <2>1, <2>2, OwnDial DEF OwnInv
<1>5. ASSUME NEW c \in Callers, DialFailed(c) PROVE OwnInv'
  BY <1>0, <1>o, <1>5, OwnWake DEF DialFailed, OwnInv
<1>6. ASSUME NEW c \in Callers, Receive(c) \/ AbandonDrained(c) PROVE OwnInv'
  <2>1. /\ UNCHANGED <<open, pool, toClose>> /\ held[c] \notin Conns
        /\ chan' = [chan EXCEPT ![c] = Empty]
    BY <1>6, <1>h DEF Receive, AbandonDrained
  <2>2. CASE chan[c] \in Conns
    <3>1. held' = [held EXCEPT ![c] = chan[c]]
      BY <1>6, <2>2, Sentinels DEF Receive, AbandonDrained, Drain
    <3> QED
      BY <1>0, <1>o, <2>1, <2>2, <3>1, OwnReceive DEF OwnInv
  <2>3. CASE chan[c] \notin Conns
    <3>1. held' = held
      BY <1>6, <2>3 DEF Receive, AbandonDrained, Drain
    <3> QED
      BY <1>0, <1>o, <2>1, <2>3, <3>1, OwnSignal, Sentinels DEF OwnInv
  <2> QED
    BY <2>2, <2>3
<1>7. ASSUME NEW c \in Callers, Forward(c) PROVE OwnInv'
  <2>1. UNCHANGED <<open, pool, held, toClose>>
    BY <1>7 DEF Forward
  <2>2. CASE wakeOneWaiterLocked
    BY <1>0, <1>o, <2>1, <2>2, OwnWake DEF OwnInv
  <2>3. CASE UNCHANGED chan
    BY <2>1, <2>3, OwnStutter
  <2> QED
    BY <1>7, <2>2, <2>3 DEF Forward
<1>8. ASSUME NEW c \in Callers, putConn(c) PROVE OwnInv'
  BY <1>8, OwnPut
<1>9. ASSUME NEW c \in Callers, removeConn(c) PROVE OwnInv'
  <2>1. /\ held[c] \in Conns /\ toClose[c] = {} /\ UNCHANGED <<open, pool>>
        /\ held' = [held EXCEPT ![c] = NoConn]
        /\ toClose' = [toClose EXCEPT ![c] = {held[c]}]
    BY <1>9 DEF TypeInv, HeldWhileUsed, removeConn, Ready, Release, Retire
  <2>2. OwnOK(open, pool, held, chan', toClose)
    BY <1>0, <1>o, <1>9, OwnWake DEF removeConn
  <2>3. c \in Threads /\ chan' \in [Callers -> Messages]
    BY <1>0, <1>9, SendTyped DEF removeConn, wakeOneWaiterLocked, Messages
  <2> QED
    BY <1>0, <2>1, <2>2, <2>3, OwnRetire DEF OwnInv
<1>10. ASSUME NEW t \in Background, dialIdle(t) PROVE OwnInv'
  BY <1>10, OwnDialIdle
<1>11. CASE reapStaleConns
  <2>1. UNCHANGED <<open, held, chan>> /\ toClose["reaper"] = {} /\ "reaper" \in Threads
    BY <1>11 DEF reapStaleConns, Ready, Threads, Background
  <2>2. CASE UNCHANGED <<pool, toClose>>
    BY <2>1, <2>2, OwnStutter
  <2>3. CASE /\ pool' = pool \ expired
             /\ toClose' = [toClose EXCEPT !["reaper"] = pool \cap expired]
    <3>1. OwnOK(open, pool \ (pool \cap expired), held, chan, toClose')
      BY <1>0, <1>o, <2>1, <2>3, OwnDrop
    <3>2. pool \ (pool \cap expired) = pool'
      BY <2>3
    <3> QED
      BY <2>1, <3>1, <3>2 DEF OwnInv
  <2> QED
    BY <1>11, <2>2, <2>3 DEF reapStaleConns, Retire
<1>12. CASE ensureMinIdle \/ ReaperExit
  BY <1>12, OwnStutter DEF ensureMinIdle, ReaperExit
<1>13. ASSUME NEW t \in Threads, closeAll(t) PROVE OwnInv'
  BY <1>0, <1>o, <1>13, OwnClose DEF closeAll, Retire, OwnInv
<1>14. ASSUME NEW cn \in Conns, Expire(cn) PROVE OwnInv'
  BY <1>14, OwnStutter DEF Expire
<1>15. ASSUME NEW k \in Closers, Close(k) PROVE OwnInv'
  BY <1>15, OwnStutter DEF Close
<1>16. ASSUME NEW k \in Closers, Teardown(k) PROVE OwnInv'
  <2>1. /\ open' = open \ pool /\ pool' = {} /\ UNCHANGED <<held, toClose>>
        /\ chan' = [c \in Callers |-> IF c \in Elems(waiters) THEN Shut ELSE chan[c]]
    BY <1>16 DEF Teardown, Elems
  <2>2. \A c \in Callers : \/ chan'[c] = chan[c]
                           \/ chan'[c] = Shut /\ chan[c] \notin Conns
    BY <2>1, Sentinels DEF QueueInv, QueueOK
  <2> QED
    BY <1>o, <2>1, <2>2, OwnTeardown DEF OwnInv
<1>17. CASE UNCHANGED vars
  BY <1>17, OwnStutter DEF vars
<1> QED
  BY <1>1, <1>2, <1>3, <1>4, <1>5, <1>6, <1>7, <1>8, <1>9, <1>10, <1>11, <1>12, <1>13,
     <1>14, <1>15, <1>16, <1>17
  DEF Next, CallerStep, getConn, dialConn, abandonWaiter

LEMMA OwnInvAlways == Spec => []OwnInv
BY TypeInvAlways, QueueInvAlways, OwnInvInit, OwnInvStep, PTL DEF Spec

\* An open socket always has exactly one owner, whatever cancel, hand-off,
\* expiry and Close do at the same time.
THEOREM OneOwnerAlways == Spec => []OneOwner
BY TypeInvAlways, OwnInvAlways, OwnInvIsOneOwner, PTL DEF TypeInv

-----------------------------------------------------------------------------
(* Pieces of Charged.                                                      *)

\* The connections a function on the callers names.
Vals(f) == {f[c] : c \in Callers} \cap Conns

\* The threads that dial.
Dials(p, b) == {c \in Callers : p[c] = "dial"} \cup {t \in Background : b[t] = "dial"}

\* g is f but for what it gives x0.
Update(D, f, g, x0, v) == g[x0] = v /\ \A x \in D \ {x0} : g[x] = f[x]

LEMMA ValsAdd ==
    ASSUME NEW f, NEW c \in Callers, f[c] \notin Conns, NEW x,
           NEW g, Update(Callers, f, g, c, x)
    PROVE  /\ x \in Conns => Vals(g) = Vals(f) \cup {x}
           /\ x \notin Conns => Vals(g) = Vals(f)
<1>2. x \in Conns => Vals(g) = Vals(f) \cup {x}
  BY DEF Vals, Update
<1>3. x \notin Conns => Vals(g) = Vals(f)
  BY DEF Vals, Update
<1> QED
  BY <1>2, <1>3

LEMMA ValsRemove ==
    ASSUME NEW f, NEW c \in Callers, f[c] \in Conns,
           \A d \in Callers : d # c => f[d] # f[c],
           NEW x, x \notin Conns, NEW g, Update(Callers, f, g, c, x)
    PROVE  Vals(g) = Vals(f) \ {f[c]} /\ f[c] \in Vals(f)
<1>2. Vals(g) = Vals(f) \ {f[c]} /\ f[c] \in Vals(f)
  BY DEF Vals, Update
<1> QED
  BY <1>2

-----------------------------------------------------------------------------
(* Counting.                                                               *)

\* SlotAccounting, and that there is something to count.
Counts(n, S) == IsFiniteSet(S) /\ n = Cardinality(S)

SlotInv == Counts(active, Charged)

LEMMA CountAdd ==
    ASSUME NEW n, NEW S, Counts(n, S), NEW x, x \notin S
    PROVE  Counts(n + 1, S \cup {x})
BY FS_AddElement DEF Counts

LEMMA CountRemove ==
    ASSUME NEW n, NEW S, Counts(n, S), NEW x \in S
    PROVE  Counts(n - 1, S \ {x})
BY FS_RemoveElement DEF Counts

LEMMA CountDrop ==
    ASSUME NEW n, NEW S, Counts(n, S), NEW D \in SUBSET S
    PROVE  Counts(n - Cardinality(D), S \ D)
<1>1. S \cap D = D
  OBVIOUS
<1> QED
  BY <1>1, FS_Difference DEF Counts

\* The parts of Charged do not overlap.
LEMMA ChargedParts ==
    ASSUME TypeOK, OwnInv
    PROVE  /\ Charged = pool \cup Vals(held) \cup Vals(chan) \cup Dials(pc, bg)
           /\ pool \cap Vals(held) = {} /\ pool \cap Vals(chan) = {}
           /\ Vals(held) \cap Vals(chan) = {}
           /\ pool \cup Vals(held) \cup Vals(chan) \subseteq open
           /\ open \subseteq Conns
           /\ Dials(pc, bg) \subseteq Threads /\ Threads \cap Conns = {}
<1>1. OneOwner
  BY OwnInvIsOneOwner
<1>2. Vals(held) = Leased /\ Vals(chan) = InChannels /\ Dials(pc, bg) = Dialling
  BY DEF Vals, Dials, Leased, InChannels, Dialling
<1>3. Dials(pc, bg) \subseteq Threads
  BY DEF Dials, Threads
<1>4. Threads \cap Conns = {}
  BY ConnsAssumption
<1>5. open \subseteq Conns
  BY DEF TypeOK
<1>6. Charged = pool \cup Vals(held) \cup Vals(chan) \cup Dials(pc, bg)
  BY <1>2 DEF Charged
<1> QED
  BY <1>1, <1>2, <1>3, <1>4, <1>5, <1>6 DEF OneOwner

LEMMA ChargedNext ==
    Charged' = pool' \cup Vals(held') \cup Vals(chan') \cup Dials(pc', bg')
BY DEF Charged, Vals, Dials, Leased, InChannels, Dialling

\* A wake-up hands nothing off.
LEMMA WakeVals ==
    ASSUME TypeOK, QueueInv, wakeOneWaiterLocked
    PROVE  Vals(chan') = Vals(chan)
<1>1. CASE Send(Retry)
  <2>1. Head(waiters) \in Callers /\ chan[Head(waiters)] \notin Conns
    BY <1>1, HeadEmpty, Sentinels DEF Send
  <2>2. Update(Callers, chan, chan', Head(waiters), Retry) /\ Retry \notin Conns
    BY <1>1, <2>1, Sentinels DEF Send, TypeOK, Update
  <2> QED
    BY <2>1, <2>2, ValsAdd
<1>2. CASE UNCHANGED chan
  BY <1>2
<1> QED
  BY <1>1, <1>2 DEF wakeOneWaiterLocked

\* A usable connection goes to a channel or to the pool.
LEMMA HandOffOrParkVals ==
    ASSUME TypeOK, QueueInv, NEW cn \in Conns, HandOffOrPark(cn)
    PROVE  pool' \cup Vals(chan') = pool \cup Vals(chan) \cup {cn}
<1>1. CASE Send(cn) /\ UNCHANGED pool
  <2>1. Head(waiters) \in Callers /\ chan[Head(waiters)] \notin Conns
    BY <1>1, HeadEmpty, Sentinels DEF Send
  <2>2. Update(Callers, chan, chan', Head(waiters), cn)
    BY <1>1, <2>1 DEF Send, TypeOK, Update
  <2>3. Vals(chan') = Vals(chan) \cup {cn}
    BY <2>1, <2>2, ValsAdd
  <2> QED
    BY <1>1, <2>3
<1>2. CASE pool' = pool \cup {cn} /\ UNCHANGED chan
  BY <1>2
<1> QED
  BY <1>1, <1>2 DEF HandOffOrPark

-----------------------------------------------------------------------------
(* Steps.                                                                  *)

LEMMA SlotInvInit == Init => SlotInv
<1> SUFFICES ASSUME Init PROVE SlotInv
  OBVIOUS
<1>1. Leased = {} /\ InChannels = {} /\ Dialling = {}
  BY Sentinels DEF Init, Leased, InChannels, Dialling, Background
<1>2. Charged = {}
  BY <1>1 DEF Init, Charged
<1> QED
  BY <1>2, FS_EmptySet DEF Init, SlotInv, Counts

\* Releasing or retiring the connection of a caller frees its place.
LEMMA ReleaseVals ==
    ASSUME TypeInv, OwnInv, NEW c \in Callers, held[c] \in Conns,
           held' = [held EXCEPT ![c] = NoConn]
    PROVE  Vals(held') = Vals(held) \ {held[c]} /\ held[c] \in Vals(held)
<1>1. held \in Holdings /\ NoConn \notin Conns
  BY Sentinels DEF TypeInv, TypeOK, Holdings
<1>2. \A d \in Callers : d # c => held[d] # held[c]
  BY DEF OwnInv, OwnOK, Exclusive
<1>3. Update(Callers, held, held', c, NoConn)
  BY <1>1 DEF Update, Holdings
<1> QED
  BY <1>1, <1>2, <1>3, ValsRemove

\* A caller moves.
LEMMA GotoDials ==
    ASSUME TypeOK, NEW c \in Callers, NEW l, Goto(c, l), bg' = bg
    PROVE  /\ pc[c] # "dial" /\ l # "dial" => Dials(pc', bg') = Dials(pc, bg)
           /\ pc[c] # "dial" /\ l = "dial" =>
                Dials(pc', bg') = Dials(pc, bg) \cup {c} /\ c \notin Dials(pc, bg)
           /\ pc[c] = "dial" /\ l # "dial" =>
                Dials(pc', bg') = Dials(pc, bg) \ {c} /\ c \in Dials(pc, bg)
<1>1. Update(Callers, pc, pc', c, l)
  BY DEF TypeOK, Goto, Update
<1>2. c \notin Background
  BY CallersAssumption
<1> QED
  BY <1>1, <1>2 DEF Dials, Update

\* A background goroutine moves.
LEMMA BgGotoDials ==
    ASSUME TypeOK, NEW t \in Background, NEW l, BgGoto(t, l), pc' = pc
    PROVE  /\ bg[t] # "dial" /\ l # "dial" => Dials(pc', bg') = Dials(pc, bg)
           /\ bg[t] # "dial" /\ l = "dial" =>
                Dials(pc', bg') = Dials(pc, bg) \cup {t} /\ t \notin Dials(pc, bg)
           /\ bg[t] = "dial" /\ l # "dial" =>
                Dials(pc', bg') = Dials(pc, bg) \ {t} /\ t \in Dials(pc, bg)
<1>1. Update(Background, bg, bg', t, l)
  BY DEF TypeOK, BgGoto, Update
<1>2. t \notin Callers
  BY CallersAssumption
<1> QED
  BY <1>1, <1>2 DEF Dials, Update

\* putConn gives its slot back or leaves it to the next owner.
LEMMA SlotPut ==
    ASSUME TypeInv, QueueInv, OwnInv, SlotInv, NEW c \in Callers, putConn(c)
    PROVE  SlotInv'
<1>1. TypeOK /\ pc \in [Callers -> Locations]
  BY DEF TypeInv, TypeOK, Locations
<1>2. /\ held[c] \in Conns /\ held' = [held EXCEPT ![c] = NoConn]
      /\ pc[c] # "dial" /\ Goto(c, "idle") /\ bg' = bg
  BY DEF TypeInv, HeldWhileUsed, putConn, Release, bgVars
<1>3. Vals(held') = Vals(held) \ {held[c]} /\ held[c] \in Vals(held)
  BY <1>2, ReleaseVals
<1>4. Dials(pc', bg') = Dials(pc, bg)
  BY <1>1, <1>2, GotoDials
<1>5. CASE PutClosed(c) \/ PutExpired(c)
  <2>1. active' = active - 1 /\ pool' = pool /\ Vals(chan') = Vals(chan)
    BY <1>1, <1>5, WakeVals DEF PutClosed, PutExpired
  <2>2. Charged' = Charged \ {held[c]} /\ held[c] \in Charged
    BY <1>1, <1>2, <1>3, <1>4, <2>1, ChargedParts, ChargedNext
  <2> QED
    BY <2>1, <2>2, CountRemove DEF SlotInv
<1>6. CASE PutFresh(c)
  <2>1. active' = active /\ pool' \cup Vals(chan') = pool \cup Vals(chan) \cup {held[c]}
    BY <1>1, <1>2, <1>6, HandOffOrParkVals DEF PutFresh
  <2>2. Charged' = Charged
    BY <1>1, <1>3, <1>4, <2>1, ChargedParts, ChargedNext
  <2> QED
    BY <2>1, <2>2 DEF SlotInv
<1> QED
  BY <1>5, <1>6 DEF putConn

\* A background dial reserves a slot and keeps it for its connection or gives
\* it back.
LEMMA SlotDialIdle ==
    ASSUME TypeInv, QueueInv, OwnInv, SlotInv, NEW t \in Background, dialIdle(t)
    PROVE  SlotInv'
<1>1. /\ TypeOK /\ bg \in [Background -> BgLocations] /\ held' = held /\ pc' = pc
  BY DEF TypeInv, TypeOK, BgLocations, dialIdle, DialIdleReserve, DialIdleFailed,
     DialIdleDone, callerVars
<1>2. ASSUME NEW l \in {"sleep", "ensure", "reserve", "exited"}, BgGoto(t, l),
             bg[t] = "dial"
      PROVE  Dials(pc', bg') = Dials(pc, bg) \ {t} /\ t \in Dials(pc, bg)
  BY <1>1, <1>2, BgGotoDials
<1>3. CASE DialIdleReserve(t)
  <2>1. pool' = pool /\ chan' = chan /\ bg[t] = "reserve"
    BY <1>3 DEF DialIdleReserve
  <2>2. CASE active' = active /\ GiveUp(t)
    <3>1. Dials(pc', bg') = Dials(pc, bg)
      <4>1. PICK l \in {"exited", "sleep"} : BgGoto(t, l)
        BY <2>2 DEF GiveUp
      <4> QED
        BY <1>1, <2>1, <4>1, BgGotoDials
    <3>2. Charged' = Charged
      BY <1>1, <2>1, <3>1, ChargedParts, ChargedNext
    <3> QED
      BY <2>2, <3>2 DEF SlotInv
  <2>3. CASE active' = active + 1 /\ BgGoto(t, "dial")
    <3>1. Dials(pc', bg') = Dials(pc, bg) \cup {t} /\ t \notin Dials(pc, bg)
      BY <1>1, <2>1, <2>3, BgGotoDials
    <3>2. Charged' = Charged \cup {t} /\ t \notin Charged
      BY <1>1, <2>1, <3>1, ChargedParts, ChargedNext DEF Threads
    <3> QED
      BY <2>3, <3>2, CountAdd DEF SlotInv
  <2> QED
    BY <1>3, <2>2, <2>3 DEF DialIdleReserve
<1>4. CASE DialIdleFailed(t)
  <2>1. pool' = pool /\ Vals(chan') = Vals(chan) /\ active' = active - 1
    BY <1>1, <1>4, WakeVals DEF DialIdleFailed
  <2>2. Dials(pc', bg') = Dials(pc, bg) \ {t} /\ t \in Dials(pc, bg)
    BY <1>2, <1>4 DEF DialIdleFailed, GiveUp
  <2>3. Charged' = Charged \ {t} /\ t \in Charged
    BY <1>1, <2>1, <2>2, ChargedParts, ChargedNext DEF Threads
  <2> QED
    BY <2>1, <2>3, CountRemove DEF SlotInv
<1>5. CASE DialIdleDone(t)
  <2>1. PICK cn \in Conns \ open : DialIdleDone(t)!2!(cn)
    BY <1>5 DEF DialIdleDone
  <2>2. bg[t] = "dial" /\ cn \notin Charged
    BY <1>1, <1>5, ChargedParts DEF DialIdleDone, Threads
  <2>3. CASE GiveUp(t) /\ active' = active - 1 /\ UNCHANGED <<pool, chan>>
    <3>1. Dials(pc', bg') = Dials(pc, bg) \ {t} /\ t \in Dials(pc, bg)
      BY <1>2, <2>2, <2>3 DEF GiveUp
    <3>2. Charged' = Charged \ {t} /\ t \in Charged
      BY <1>1, <2>3, <3>1, ChargedParts, ChargedNext DEF Threads
    <3> QED
      BY <2>3, <3>2, CountRemove DEF SlotInv
  <2>4. CASE HandOffOrPark(cn) /\ DialIdleTrue(t) /\ active' = active
    <3>1. pool' \cup Vals(chan') = pool \cup Vals(chan) \cup {cn}
      BY <1>1, <2>4, HandOffOrParkVals
    <3>2. Dials(pc', bg') = Dials(pc, bg) \ {t} /\ t \in Dials(pc, bg)
      BY <1>2, <2>2, <2>4 DEF DialIdleTrue
    <3>3. Charged' = (Charged \ {t}) \cup {cn} /\ t \in Charged
      BY <1>1, <3>1, <3>2, ChargedParts, ChargedNext DEF Threads
    <3>4. Counts(active - 1 + 1, (Charged \ {t}) \cup {cn})
      BY <2>2, <3>3, CountRemove, CountAdd DEF SlotInv
    <3>5. active - 1 + 1 = active
      BY <1>1 DEF TypeOK
    <3> QED
      BY <2>4, <3>3, <3>4, <3>5 DEF SlotInv
  <2> QED
    BY <2>1, <2>3, <2>4
<1> QED
  BY <1>3, <1>4, <1>5 DEF dialIdle

\* Every step counts what it takes and what it gives back.
LEMMA SlotInvStep ==
    TypeInv /\ QueueInv /\ OwnInv /\ SlotInv /\ [Next]_vars => SlotInv'
<1> SUFFICES ASSUME TypeInv, QueueInv, OwnInv, SlotInv, [Next]_vars PROVE SlotInv'
  OBVIOUS
<1> USE DEF callerVars, bgVars
<1>0. TypeOK /\ active \in Int
  BY DEF TypeInv, TypeOK
<1>h. \A c \in Callers : pc[c] \notin {"use", "reclaim"} => held[c] \notin Conns
  BY DEF TypeInv, HeldWhileUsed
\* A step that leaves every part of Charged alone.
<1>s. ASSUME active' = active, pool' = pool, Vals(held') = Vals(held),
             Vals(chan') = Vals(chan), Dials(pc', bg') = Dials(pc, bg)
      PROVE  SlotInv'
  <2>1. Charged' = Charged
    BY <1>0, <1>s, ChargedParts, ChargedNext
  <2> QED
    BY <1>s, <2>1 DEF SlotInv
<1>t. \A c \in Callers, x \in Conns :
        /\ held[c] \notin Conns
        /\ held' = [held EXCEPT ![c] = x]
        => Vals(held') = Vals(held) \cup {x}
  <2>1. SUFFICES ASSUME NEW c \in Callers, NEW x \in Conns, held[c] \notin Conns,
                        held' = [held EXCEPT ![c] = x]
                 PROVE  Vals(held') = Vals(held) \cup {x}
    OBVIOUS
  <2>2. Update(Callers, held, held', c, x)
    BY <1>0, <2>1 DEF Update, TypeOK
  <2> QED
    BY <2>1, <2>2, ValsAdd
<1>1. ASSUME NEW c \in Callers, StartCall(c) \/ Refused(c) \/ AbandonQueued(c) \/ Forward(c)
      PROVE  SlotInv'
  <2>1. /\ UNCHANGED <<active, pool, held, bg>>
        /\ pc[c] # "dial" /\ \E l \in {"acquire", "idle"} : Goto(c, l)
    BY <1>1 DEF StartCall, Refused, AbandonQueued, Forward, InGetConn
  <2>2. Vals(chan') = Vals(chan)
    BY <1>0, <1>1, WakeVals DEF StartCall, Refused, AbandonQueued, Forward
  <2>3. Dials(pc', bg') = Dials(pc, bg)
    BY <1>0, <2>1, GotoDials
  <2> QED
    BY <1>s, <2>1, <2>2, <2>3
<1>2. ASSUME NEW c \in Callers, Reuse(c) PROVE SlotInv'
  <2>1. PICK cn \in pool \ expired, D \in SUBSET (pool \cap expired) :
          /\ pool' = pool \ (D \cup {cn})
          /\ held' = [held EXCEPT ![c] = cn]
          /\ active' = active - Cardinality(D)
    BY <1>2 DEF Reuse
  <2>2. held[c] \notin Conns /\ pc[c] # "dial" /\ Goto(c, "use") /\ UNCHANGED <<bg, chan>>
    BY <1>2, <1>h DEF Reuse, InGetConn
  <2>3. Vals(held') = Vals(held) \cup {cn}
    BY <1>0, <1>t, <2>1, <2>2 DEF TypeOK
  <2>4. Dials(pc', bg') = Dials(pc, bg)
    BY <1>0, <2>2, GotoDials
  <2>5. Charged' = Charged \ D /\ D \in SUBSET Charged
    BY <1>0, <2>1, <2>2, <2>3, <2>4, ChargedParts, ChargedNext
  <2> QED
    BY <2>1, <2>5, CountDrop DEF SlotInv
<1>3. ASSUME NEW c \in Callers, Reserve(c) PROVE SlotInv'
  <2>1. /\ pool' = {} /\ active' = active - Cardinality(pool) + 1
        /\ pc[c] # "dial" /\ Goto(c, "dial") /\ UNCHANGED <<bg, chan, held>>
    BY <1>3 DEF Reserve, Emptied, InGetConn
  <2>2. Dials(pc', bg') = Dials(pc, bg) \cup {c} /\ c \notin Dials(pc, bg)
    BY <1>0, <2>1, GotoDials
  <2>3. /\ Charged' = (Charged \ pool) \cup {c} /\ c \notin Charged
        /\ pool \in SUBSET Charged
    BY <1>0, <2>1, <2>2, ChargedParts, ChargedNext DEF Threads
  <2>4. Counts(active - Cardinality(pool), Charged \ pool)
    BY <2>3, CountDrop DEF SlotInv
  <2> QED
    BY <2>1, <2>3, <2>4, CountAdd DEF SlotInv
<1>4. ASSUME NEW c \in Callers, Enqueue(c) PROVE SlotInv'
  <2>1. /\ pool' = {} /\ active' = active - Cardinality(pool)
        /\ pc[c] # "dial" /\ Goto(c, "wait") /\ UNCHANGED <<bg, chan, held>>
    BY <1>4 DEF Enqueue, Emptied, InGetConn
  <2>2. Dials(pc', bg') = Dials(pc, bg)
    BY <1>0, <2>1, GotoDials
  <2>3. Charged' = Charged \ pool /\ pool \in SUBSET Charged
    BY <1>0, <2>1, <2>2, ChargedParts, ChargedNext
  <2> QED
    BY <2>1, <2>3, CountDrop DEF SlotInv
<1>5. ASSUME NEW c \in Callers, DialOk(c) PROVE SlotInv'
  <2>1. PICK cn \in Conns \ open : held' = [held EXCEPT ![c] = cn]
    BY <1>5 DEF DialOk
  <2>2. /\ held[c] \notin Conns /\ pc[c] = "dial" /\ Goto(c, "use")
        /\ UNCHANGED <<active, bg, chan, pool>>
    BY <1>5, <1>h DEF DialOk
  <2>3. Vals(held') = Vals(held) \cup {cn}
    BY <1>t, <2>1, <2>2
  <2>4. Dials(pc', bg') = Dials(pc, bg) \ {c} /\ c \in Dials(pc, bg)
    BY <1>0, <2>2, GotoDials
  <2>5. Charged' = (Charged \ {c}) \cup {cn} /\ c \in Charged /\ cn \notin Charged
    BY <1>0, <2>1, <2>2, <2>3, <2>4, ChargedParts, ChargedNext DEF Threads
  <2>6. Counts(active - 1, Charged \ {c}) /\ cn \notin Charged \ {c}
    BY <2>5, CountRemove DEF SlotInv
  <2>7. Counts(active - 1 + 1, (Charged \ {c}) \cup {cn})
    BY <2>6, CountAdd
  <2>8. active - 1 + 1 = active
    BY <1>0
  <2> QED
    BY <2>2, <2>5, <2>7, <2>8 DEF SlotInv
<1>6. ASSUME NEW c \in Callers, DialFailed(c) PROVE SlotInv'
  <2>1. /\ pc[c] = "dial" /\ Goto(c, "idle") /\ active' = active - 1
        /\ UNCHANGED <<bg, held, pool>>
    BY <1>6 DEF DialFailed
  <2>2. Vals(chan') = Vals(chan)
    BY <1>0, <1>6, WakeVals DEF DialFailed
  <2>3. Dials(pc', bg') = Dials(pc, bg) \ {c} /\ c \in Dials(pc, bg)
    BY <1>0, <2>1, GotoDials
  <2>4. Charged' = Charged \ {c} /\ c \in Charged
    BY <1>0, <2>1, <2>2, <2>3, ChargedParts, ChargedNext DEF Threads
  <2> QED
    BY <2>1, <2>4, CountRemove DEF SlotInv
<1>7. ASSUME NEW c \in Callers, Receive(c) \/ AbandonDrained(c) PROVE SlotInv'
  <2>1. /\ UNCHANGED <<active, bg, pool>> /\ held[c] \notin Conns
        /\ pc[c] # "dial"
        /\ \E l \in {"use", "retry", "idle", "reclaim", "forward"} : Goto(c, l)
        /\ chan' = [chan EXCEPT ![c] = Empty] /\ Empty \notin Conns
    BY <1>7, <1>h, Sentinels DEF Receive, AbandonDrained, Drain
  <2>2. Dials(pc', bg') = Dials(pc, bg)
    BY <1>0, <2>1, GotoDials
  <2>3. Update(Callers, chan, chan', c, Empty)
    BY <1>0, <2>1 DEF Update, TypeOK
  <2>4. CASE chan[c] \in Conns
    <3>1. held' = [held EXCEPT ![c] = chan[c]]
      BY <1>7, <2>4, Sentinels DEF Receive, AbandonDrained, Drain
    <3>2. Vals(held') = Vals(held) \cup {chan[c]}
      BY <1>t, <2>1, <2>4, <3>1
    <3>3. \A d \in Callers : d # c => chan[d] # chan[c]
      BY <2>4 DEF OwnInv, OwnOK, Exclusive
    <3>4. Vals(chan') = Vals(chan) \ {chan[c]} /\ chan[c] \in Vals(chan)
      BY <2>1, <2>3, <2>4, <3>3, ValsRemove
    <3>5. Charged' = Charged
      BY <1>0, <2>1, <2>2, <3>2, <3>4, ChargedParts, ChargedNext
    <3> QED
      BY <2>1, <3>5 DEF SlotInv
  <2>5. CASE chan[c] \notin Conns
    <3>1. held' = held
      BY <1>7, <2>5 DEF Receive, AbandonDrained, Drain
    <3>2. Vals(chan') = Vals(chan)
      BY <2>1, <2>3, <2>5, ValsAdd
    <3> QED
      BY <1>s, <2>1, <2>2, <3>1, <3>2
  <2> QED
    BY <2>4, <2>5
<1>8. ASSUME NEW c \in Callers, putConn(c) PROVE SlotInv'
  BY <1>8, SlotPut
<1>9. ASSUME NEW c \in Callers, removeConn(c) PROVE SlotInv'
  <2>1. /\ held[c] \in Conns /\ held' = [held EXCEPT ![c] = NoConn]
        /\ pc[c] # "dial" /\ Goto(c, "idle") /\ active' = active - 1
        /\ UNCHANGED <<bg, pool>>
    BY <1>9 DEF TypeInv, HeldWhileUsed, removeConn, Release
  <2>2. Vals(held') = Vals(held) \ {held[c]} /\ held[c] \in Vals(held)
    BY <2>1, ReleaseVals
  <2>3. Vals(chan') = Vals(chan)
    BY <1>0, <1>9, WakeVals DEF removeConn
  <2>4. Dials(pc', bg') = Dials(pc, bg)
    BY <1>0, <2>1, GotoDials
  <2>5. Charged' = Charged \ {held[c]} /\ held[c] \in Charged
    BY <1>0, <2>1, <2>2, <2>3, <2>4, ChargedParts, ChargedNext
  <2> QED
    BY <2>1, <2>5, CountRemove DEF SlotInv
<1>10. ASSUME NEW t \in Background, dialIdle(t) PROVE SlotInv'
  BY <1>10, SlotDialIdle
<1>11. CASE reapStaleConns \/ ensureMinIdle \/ ReaperExit
  <2>1. /\ UNCHANGED <<held, chan, pc>> /\ bg["reaper"] # "dial"
        /\ \E l \in {"ensure", "sleep", "reserve", "exited"} : BgGoto("reaper", l)
    BY <1>11 DEF reapStaleConns, ensureMinIdle, ReaperExit
  <2>2. Dials(pc', bg') = Dials(pc, bg)
    BY <1>0, <2>1, BgGotoDials DEF Background
  <2>3. CASE UNCHANGED <<active, pool>>
    BY <1>s, <2>1, <2>2, <2>3
  <2>4. CASE /\ pool' = pool \ expired
             /\ active' = active - Cardinality(pool \cap expired)
    <3>1. Charged' = Charged \ (pool \cap expired) /\ pool \cap expired \in SUBSET Charged
      BY <1>0, <2>1, <2>2, <2>4, ChargedParts, ChargedNext
    <3> QED
      BY <2>4, <3>1, CountDrop DEF SlotInv
  <2> QED
    BY <1>11, <2>3, <2>4 DEF reapStaleConns, ensureMinIdle, ReaperExit
<1>12. ASSUME NEW t \in Threads, closeAll(t) PROVE SlotInv'
  BY <1>s, <1>12 DEF closeAll
<1>13. ASSUME NEW cn \in Conns, Expire(cn) PROVE SlotInv'
  BY <1>s, <1>13 DEF Expire
<1>14. ASSUME NEW k \in Closers, Close(k) PROVE SlotInv'
  BY <1>s, <1>14 DEF Close
<1>15. ASSUME NEW k \in Closers, Teardown(k) PROVE SlotInv'
  <2>1. /\ active' = active - Cardinality(pool) /\ pool' = {} /\ UNCHANGED <<held, pc, bg>>
        /\ chan' = [c \in Callers |-> IF c \in Elems(waiters) THEN Shut ELSE chan[c]]
    BY <1>15 DEF Teardown, Elems
  <2>2. \A c \in Callers : \/ chan'[c] = chan[c]
                           \/ chan'[c] \notin Conns /\ chan[c] \notin Conns
    BY <2>1, Sentinels DEF QueueInv, QueueOK
  <2>3. Vals(chan') = Vals(chan)
    BY <2>2 DEF Vals
  <2>4. Charged' = Charged \ pool /\ pool \in SUBSET Charged
    BY <1>0, <2>1, <2>3, ChargedParts, ChargedNext
  <2> QED
    BY <2>1, <2>4, CountDrop DEF SlotInv
<1>16. CASE UNCHANGED vars
  BY <1>s, <1>16 DEF vars
<1> QED
  BY <1>1, <1>2, <1>3, <1>4, <1>5, <1>6, <1>7, <1>8, <1>9, <1>10, <1>11, <1>12, <1>13,
     <1>14, <1>15, <1>16
  DEF Next, CallerStep, getConn, dialConn, abandonWaiter

LEMMA SlotInvAlways == Spec => []SlotInv
BY TypeInvAlways, QueueInvAlways, OwnInvAlways, SlotInvInit, SlotInvStep, PTL DEF Spec

\* active counts exactly the idle, leased, handed-off and reserved slots.
THEOREM SlotAccountingAlways == Spec => []SlotAccounting
<1>1. SlotInv => SlotAccounting
  BY DEF SlotInv, Counts, SlotAccounting
<1> QED
  BY <1>1, SlotInvAlways, PTL

-----------------------------------------------------------------------------
(* The bound.                                                              *)

Bounded == active <= PoolSize

LEMMA BoundedInit == Init => Bounded
BY SizesAssumption DEF Init, Bounded

\* Only the two sections that look at PoolSize raise active.
LEMMA BoundedStep == TypeInv /\ Bounded /\ [Next]_vars => Bounded'
<1> SUFFICES ASSUME TypeInv, Bounded, [Next]_vars PROVE Bounded'
  OBVIOUS
<1> USE SizesAssumption DEF Bounded, callerVars, bgVars
<1>0. active \in Int /\ \A D \in SUBSET pool : Cardinality(D) \in Nat
  BY FS_Subset, FS_CardinalityType DEF TypeInv, TypeOK
<1>1. ASSUME NEW c \in Callers, CallerStep(c) PROVE Bounded'
  <2>1. CASE StartCall(c) \/ Refused(c) \/ DialOk(c) \/ Receive(c)
             \/ AbandonQueued(c) \/ AbandonDrained(c) \/ Forward(c)
    BY <2>1 DEF StartCall, Refused, DialOk, Receive, AbandonQueued, AbandonDrained, Forward
  <2>2. CASE Reuse(c)
    <3>1. PICK D \in SUBSET pool : active' = active - Cardinality(D)
      BY <2>2 DEF Reuse
    <3> QED
      BY <1>0, <3>1
  <2>3. CASE Reserve(c)
    BY <1>0, <2>3 DEF Reserve
  <2>4. CASE Enqueue(c)
    BY <1>0, <2>4 DEF Enqueue
  <2>5. CASE DialFailed(c) \/ putConn(c) \/ removeConn(c)
    <3>1. active' \in {active, active - 1}
      BY <2>5 DEF DialFailed, putConn, removeConn, PutClosed, PutExpired, PutFresh
    <3> QED
      BY <1>0, <3>1
  <2> QED
    BY <1>1, <2>1, <2>2, <2>3, <2>4, <2>5 DEF CallerStep, getConn, dialConn, abandonWaiter
<1>2. ASSUME NEW t \in Background, dialIdle(t) PROVE Bounded'
  <2>1. \/ active' \in {active, active - 1}
        \/ active < PoolSize /\ active' = active + 1
    BY <1>2 DEF dialIdle, DialIdleReserve, DialIdleFailed, DialIdleDone
  <2> QED
    BY <1>0, <2>1
<1>3. CASE reapStaleConns
  BY <1>0, <1>3 DEF reapStaleConns
<1>4. ASSUME NEW k \in Closers, Teardown(k) PROVE Bounded'
  BY <1>0, <1>4 DEF Teardown
<1>5. CASE \/ ensureMinIdle \/ ReaperExit
           \/ \E t \in Threads : closeAll(t)
           \/ \E cn \in Conns : Expire(cn)
           \/ \E k \in Closers : Close(k)
           \/ UNCHANGED vars
  BY <1>5 DEF ensureMinIdle, ReaperExit, closeAll, Expire, Close, vars
<1> QED
  BY <1>1, <1>2, <1>3, <1>4, <1>5 DEF Next

LEMMA BoundedAlways == Spec => []Bounded
BY TypeInvAlways, BoundedInit, BoundedStep, PTL DEF Spec

\* The pool never has more than PoolSize slots taken, nor less than none: a
\* slot is never given back twice, because what active counts is a set.
THEOREM ActiveWithinPoolSizeAlways == Spec => []ActiveWithinPoolSize
<1>1. SlotInv /\ Bounded => ActiveWithinPoolSize
  BY FS_CardinalityType, SizesAssumption DEF SlotInv, Counts, Bounded, ActiveWithinPoolSize
<1> QED
  BY <1>1, SlotInvAlways, BoundedAlways, PTL

=============================================================================
