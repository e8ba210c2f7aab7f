---------------------------- MODULE ConnPoolProofs ----------------------------
(***************************************************************************)
(* What holds of the connection pool for every number of callers, every    *)
(* PoolSize and every MinIdle.                                             *)
(***************************************************************************)
EXTENDS ConnPool, FiniteSetTheorems, SequenceTheorems, TLAPS

-----------------------------------------------------------------------------
(* Sequences without duplicates.                                           *)

Elems(s) == {s[i] : i \in 1..Len(s)}
Distinct(s) == \A i, j \in 1..Len(s) : s[i] = s[j] => i = j

\* s without its i-th element, as abandonWaiter builds it.
Without(s, i) == SubSeq(s, 1, i - 1) \o SubSeq(s, i + 1, Len(s))

\* Popping the head keeps the rest, in order.
LEMMA TailElems ==
    ASSUME NEW S, NEW s \in Seq(S), s # <<>>, Distinct(s)
    PROVE  /\ Tail(s) \in Seq(S)
           /\ Head(s) \in S
           /\ Head(s) \in Elems(s)
           /\ Distinct(Tail(s))
           /\ Elems(Tail(s)) = Elems(s) \ {Head(s)}
<1>1. /\ Tail(s) \in Seq(S) /\ Head(s) \in S /\ Head(s) = s[1]
      /\ Len(s) \in Nat /\ Len(s) >= 1
      /\ Len(Tail(s)) = Len(s) - 1
      /\ \A i \in 1..Len(Tail(s)) : Tail(s)[i] = s[i + 1]
  OBVIOUS
<1>2. Distinct(Tail(s))
  BY <1>1 DEF Distinct
<1>3. Elems(Tail(s)) \subseteq Elems(s) \ {Head(s)}
  BY <1>1 DEF Elems, Distinct
<1>4. ASSUME NEW i \in 1..Len(s), s[i] # Head(s)
      PROVE  s[i] \in Elems(Tail(s))
  <2>1. i - 1 \in 1..Len(Tail(s)) /\ Tail(s)[i - 1] = s[i]
    BY <1>1, <1>4
  <2> QED
    BY <2>1 DEF Elems
<1> QED
  BY <1>1, <1>2, <1>3, <1>4 DEF Elems

\* Appending a newcomer adds it.
LEMMA AppendElems ==
    ASSUME NEW S, NEW s \in Seq(S), NEW e \in S, Distinct(s), e \notin Elems(s)
    PROVE  /\ Append(s, e) \in Seq(S)
           /\ Distinct(Append(s, e))
           /\ Elems(Append(s, e)) = Elems(s) \cup {e}
<1>1. /\ Append(s, e) \in Seq(S) /\ Len(s) \in Nat
      /\ Len(Append(s, e)) = Len(s) + 1
      /\ \A i \in 1..Len(s) : Append(s, e)[i] = s[i]
      /\ Append(s, e)[Len(s) + 1] = e
  OBVIOUS
<1>2. Distinct(Append(s, e))
  BY <1>1 DEF Distinct, Elems
<1>3. Elems(Append(s, e)) \subseteq Elems(s) \cup {e}
  BY <1>1 DEF Elems
<1>4. Elems(s) \cup {e} \subseteq Elems(Append(s, e))
  <2>1. 1..Len(s) \subseteq 1..Len(Append(s, e)) /\ Len(s) + 1 \in 1..Len(Append(s, e))
    BY <1>1
  <2> QED
    BY <1>1, <2>1 DEF Elems
<1> QED
  BY <1>1, <1>2, <1>3, <1>4

\* Taking an element out removes that element only.
LEMMA WithoutElems ==
    ASSUME NEW S, NEW s \in Seq(S), NEW i \in 1..Len(s), Distinct(s)
    PROVE  /\ Without(s, i) \in Seq(S)
           /\ Distinct(Without(s, i))
           /\ Elems(Without(s, i)) = Elems(s) \ {s[i]}
<1> DEFINE a == SubSeq(s, 1, i - 1)
           b == SubSeq(s, i + 1, Len(s))
           w == Without(s, i)
<1>1. /\ a \in Seq(S) /\ Len(a) = i - 1 /\ \A j \in 1..(i - 1) : a[j] = s[j]
      /\ b \in Seq(S) /\ Len(b) = Len(s) - i
      /\ \A j \in 1..(Len(s) - i) : b[j] = s[i + j]
  BY SubSeqProperties
<1>2. /\ w \in Seq(S)
      /\ Len(w) = Len(s) - 1
      /\ \A j \in 1..Len(w) : w[j] = IF j < i THEN s[j] ELSE s[j + 1]
  <2>1. /\ w \in Seq(S) /\ Len(w) = Len(a) + Len(b)
        /\ \A j \in 1..(Len(a) + Len(b)) :
             w[j] = IF j <= Len(a) THEN a[j] ELSE b[j - Len(a)]
    BY <1>1, ConcatProperties DEF Without
  <2> HIDE DEF a, b, w
  <2>2. Len(w) = Len(s) - 1 /\ Len(s) \in Nat
    BY <1>1, <2>1
  <2>3. ASSUME NEW j \in 1..Len(w)
        PROVE  w[j] = IF j < i THEN s[j] ELSE s[j + 1]
    <3>1. CASE j < i
      BY <1>1, <2>1, <2>2, <3>1
    <3>2. CASE ~(j < i)
      <4>1. j - Len(a) \in 1..(Len(s) - i) /\ i + (j - Len(a)) = j + 1
        BY <1>1, <2>1, <2>2, <3>2
      <4> QED
        BY <1>1, <2>1, <2>2, <3>2, <4>1
    <3> QED
      BY <3>1, <3>2
  <2> QED
    BY <2>1, <2>2, <2>3
<1> DEFINE at(j) == IF j < i THEN j ELSE j + 1
<1> HIDE DEF a, b, w
<1>n. Len(s) \in Nat /\ i \in 1..Len(s) /\ Len(w) = Len(s) - 1
  BY <1>2
<1>m. ASSUME NEW j \in 1..Len(w)
      PROVE  /\ at(j) \in 1..Len(s) /\ at(j) # i
             /\ w[j] = s[at(j)]
  <2>1. w[j] = IF j < i THEN s[j] ELSE s[j + 1]
    BY <1>2
  <2>2. CASE j < i
    BY <1>n, <2>1, <2>2
  <2>3. CASE ~(j < i)
    BY <1>n, <2>1, <2>3
  <2> QED
    BY <2>2, <2>3
<1>3. Distinct(w)
  <2>1. SUFFICES ASSUME NEW j \in 1..Len(w), NEW k \in 1..Len(w), w[j] = w[k]
                 PROVE  j = k
    BY DEF Distinct
  <2>2. /\ at(j) \in 1..Len(s) /\ at(k) \in 1..Len(s)
        /\ s[at(j)] = s[at(k)]
    BY <1>m, <2>1
  <2>3. at(j) = at(k)
    <3> HIDE DEF at
    <3> QED
      BY <2>2 DEF Distinct
  <2> QED
    BY <1>n, <2>1, <2>3
<1>4. Elems(w) \subseteq Elems(s) \ {s[i]}
  <2>1. SUFFICES ASSUME NEW j \in 1..Len(w)
                 PROVE  w[j] \in Elems(s) \ {s[i]}
    BY DEF Elems
  <2>2. at(j) \in 1..Len(s) /\ at(j) # i /\ w[j] = s[at(j)]
    BY <1>m
  <2> HIDE DEF at
  <2> QED
    BY <1>n, <2>2 DEF Elems, Distinct
<1>5. ASSUME NEW j \in 1..Len(s), s[j] # s[i]
      PROVE  s[j] \in Elems(w)
  <2>1. CASE j < i
    <3>1. j \in 1..Len(w) /\ w[j] = s[j]
      BY <1>2, <2>1
    <3> QED
      BY <3>1 DEF Elems
  <2>2. CASE j > i
    <3>1. j - 1 \in 1..Len(w) /\ w[j - 1] = s[j]
      BY <1>2, <2>2
    <3> QED
      BY <3>1 DEF Elems
  <2> QED
    BY <1>5, <2>1, <2>2
<1> QED
  BY <1>2, <1>3, <1>4, <1>5 DEF w, Elems

-----------------------------------------------------------------------------
(* Types.                                                                  *)

\* A caller holds a connection exactly while it uses or reclaims one.
HeldWhileUsed ==
    \A c \in Callers : held[c] \in Conns <=> pc[c] \in {"use", "reclaim"}

\* TypeOK is not inductive: putConn retires held[c], which must be a
\* connection, and counters change by the cardinality of a set of idle
\* connections, which must be finite.
TypeInv == TypeOK /\ IsFiniteSet(pool) /\ HeldWhileUsed

\* The sentinels are neither connections nor threads.
LEMMA Sentinels ==
    /\ NoConn \notin Conns /\ Empty \notin Conns
    /\ Retry \notin Conns /\ Shut \notin Conns
    /\ Empty # Retry /\ Empty # Shut /\ Retry # Shut
BY ConnsAssumption DEF NoConn, Empty, Retry, Shut

\* What a wake-up or a hand-off leaves behind is well typed.
LEMMA SendTyped ==
    ASSUME TypeOK, NEW msg \in Conns \cup {Retry},
           Send(msg) \/ (waiters = <<>> /\ UNCHANGED <<waiters, chan>>)
    PROVE  /\ waiters' \in Seq(Callers)
           /\ chan' \in [Callers -> Conns \cup {Empty, Retry, Shut}]
<1>1. CASE Send(msg)
  BY <1>1, HeadTailProperties DEF TypeOK, Send
<1>2. CASE waiters = <<>> /\ UNCHANGED <<waiters, chan>>
  BY <1>2 DEF TypeOK
<1> QED
  BY <1>1, <1>2

Locations == {"idle", "acquire", "retry", "dial", "wait", "use", "reclaim", "forward"}
BgLocations == {"sleep", "ensure", "reserve", "dial", "exited"}

\* A caller that moves from where it holds nothing to where it holds nothing.
LEMMA GotoTyped ==
    ASSUME TypeInv, NEW c \in Callers, NEW l \in Locations \ {"use", "reclaim"},
           Goto(c, l), pc[c] \notin {"use", "reclaim"} /\ UNCHANGED held
    PROVE  pc' \in [Callers -> Locations] /\ HeldWhileUsed'
BY DEF TypeInv, TypeOK, HeldWhileUsed, Goto, Locations

\* A caller that gives up its connection.
LEMMA ReleaseTyped ==
    ASSUME TypeInv, NEW c \in Callers, Release(c)
    PROVE  /\ pc' \in [Callers -> Locations]
           /\ held' \in [Callers -> Conns \cup {NoConn}]
           /\ HeldWhileUsed'
BY Sentinels DEF TypeInv, TypeOK, HeldWhileUsed, Release, Goto, Locations

\* A background goroutine that moves on.
LEMMA BgGotoTyped ==
    ASSUME TypeOK, NEW t \in Background, NEW l \in BgLocations, BgGoto(t, l)
    PROVE  bg' \in [Background -> BgLocations]
BY DEF TypeOK, BgGoto, BgLocations

LEMMA GiveUpTyped ==
    ASSUME TypeOK, NEW t \in Background, GiveUp(t)
    PROVE  bg' \in [Background -> BgLocations]
BY BgGotoTyped DEF GiveUp, BgLocations

LEMMA DialIdleTrueTyped ==
    ASSUME TypeOK, NEW t \in Background, DialIdleTrue(t)
    PROVE  bg' \in [Background -> BgLocations] /\ warmed' \in Nat
<1>1. CASE t = "warmup"
  <2>1. warmed' \in Nat /\ BgGoto(t, IF warmed + 1 < Target THEN "reserve" ELSE "exited")
    BY <1>1 DEF DialIdleTrue, TypeOK
  <2> QED
    BY <2>1, BgGotoTyped DEF BgLocations
<1>2. CASE t # "warmup"
  <2>1. warmed' \in Nat /\ BgGoto(t, "ensure")
    BY <1>2 DEF DialIdleTrue, TypeOK
  <2> QED
    BY <2>1, BgGotoTyped DEF BgLocations
<1> QED
  BY <1>1, <1>2

\* A thread notes the connections it will close.
LEMMA RetireTyped ==
    ASSUME TypeOK, NEW t \in Threads, NEW D \in SUBSET Conns, Retire(t, D)
    PROVE  toClose' \in [Threads -> SUBSET Conns]
BY DEF TypeOK, Retire

LEMMA TypeInvInit == Init => TypeInv
<1> SUFFICES ASSUME Init PROVE TypeInv
  OBVIOUS
<1>1. bg \in [Background -> {"sleep", "ensure", "reserve", "dial", "exited"}]
  BY DEF Init, Background
<1>2. IsFiniteSet(pool)
  BY FS_EmptySet DEF Init
<1>3. /\ pc \in [Callers -> {"idle", "acquire", "retry", "dial", "wait", "use",
                              "reclaim", "forward"}]
      /\ held \in [Callers -> Conns \cup {NoConn}]
      /\ HeldWhileUsed
  BY Sentinels DEF Init, HeldWhileUsed
<1>4. /\ chan \in [Callers -> Conns \cup {Empty, Retry, Shut}]
      /\ calls \in [Callers -> 0..MaxCalls]
      /\ closer \in [Closers -> {"open", "stopping", "released", "returned"}]
      /\ toClose \in [Threads -> SUBSET Conns]
  BY SizesAssumption DEF Init
<1>5. waiters \in Seq(Callers) /\ active \in Int /\ warmed \in Nat
  BY DEF Init
<1> QED
  BY <1>1, <1>2, <1>3, <1>4, <1>5 DEF Init, TypeInv, TypeOK

\* Every step of the pool preserves the types.
LEMMA TypeInvStep == TypeInv /\ [Next]_vars => TypeInv'
<1> SUFFICES ASSUME TypeInv, [Next]_vars PROVE TypeInv'
  OBVIOUS
<1> USE Sentinels DEF callerVars, bgVars
<1>0. \A D \in SUBSET pool : Cardinality(D) \in Nat /\ IsFiniteSet(pool \ D)
  BY FS_Subset, FS_CardinalityType DEF TypeInv
<1>1. ASSUME NEW c \in Callers, StartCall(c) PROVE TypeInv'
  BY <1>1, SizesAssumption DEF TypeInv, TypeOK, HeldWhileUsed, StartCall, Goto
<1>2. ASSUME NEW c \in Callers, Refused(c) PROVE TypeInv'
  BY <1>2 DEF TypeInv, TypeOK, HeldWhileUsed, Refused, InGetConn, Goto
<1>3. ASSUME NEW c \in Callers, Reuse(c) PROVE TypeInv'
  <2>1. IsFiniteSet(pool') /\ pool' \subseteq Conns /\ active' \in Int
    BY <1>3, <1>0, FS_Subset DEF TypeInv, TypeOK, Reuse
  <2> QED
    <3>1. /\ held' \in [Callers -> Conns \cup {NoConn}] /\ pc' \in [Callers -> Locations]
          /\ HeldWhileUsed'
      BY <1>3 DEF TypeInv, TypeOK, HeldWhileUsed, Reuse, Goto, Locations
    <3>2. toClose' \in [Threads -> SUBSET Conns]
      <4>1. PICK D \in SUBSET pool : Retire(c, D)
        BY <1>3 DEF Reuse
      <4> QED
        BY <4>1, RetireTyped DEF TypeInv, TypeOK, Threads
    <3> QED
      BY <1>3, <2>1, <3>1, <3>2 DEF TypeInv, TypeOK, Reuse, Locations
<1>4. ASSUME NEW c \in Callers, Reserve(c) PROVE TypeInv'
  <2>1. IsFiniteSet(pool') /\ pool' \subseteq Conns /\ active' \in Int
    BY <1>4, <1>0, FS_EmptySet DEF TypeInv, TypeOK, Reserve, Emptied
  <2> QED
    BY <1>4, <2>1 DEF TypeInv, TypeOK, HeldWhileUsed, Reserve, Emptied, InGetConn, Goto, Retire
<1>5. ASSUME NEW c \in Callers, Enqueue(c) PROVE TypeInv'
  <2>1. IsFiniteSet(pool') /\ pool' \subseteq Conns /\ active' \in Int
    BY <1>5, <1>0, FS_EmptySet DEF TypeInv, TypeOK, Enqueue, Emptied
  <2>2. waiters' \in Seq(Callers)
    BY <1>5, AppendProperties DEF TypeInv, TypeOK, Enqueue
  <2> QED
    BY <1>5, <2>1, <2>2 DEF TypeInv, TypeOK, HeldWhileUsed, Enqueue, Emptied, InGetConn, Goto, Retire
<1>6. ASSUME NEW c \in Callers, DialOk(c) PROVE TypeInv'
  <2>1. PICK cn \in Conns \ open : DialOk(c)!2!(cn)
    BY <1>6 DEF DialOk
  <2>2. open' \subseteq Conns /\ expired' \subseteq Conns
    BY <2>1 DEF TypeInv, TypeOK, Dialled
  <2> QED
    BY <1>6, <2>1, <2>2 DEF TypeInv, TypeOK, HeldWhileUsed, DialOk, Goto
<1>7. ASSUME NEW c \in Callers, DialFailed(c) PROVE TypeInv'
  <2>1. /\ waiters' \in Seq(Callers)
        /\ chan' \in [Callers -> Conns \cup {Empty, Retry, Shut}]
    BY <1>7, SendTyped DEF TypeInv, DialFailed, wakeOneWaiterLocked
  <2> QED
    <3>1. pc' \in [Callers -> Locations] /\ HeldWhileUsed'
      BY <1>7, GotoTyped DEF DialFailed, Locations
    <3> QED
      BY <1>7, <2>1, <3>1 DEF TypeInv, TypeOK, DialFailed, Locations
<1>8. ASSUME NEW c \in Callers, Receive(c) PROVE TypeInv'
  BY <1>8 DEF TypeInv, TypeOK, HeldWhileUsed, Receive, Goto
<1>9. ASSUME NEW c \in Callers, AbandonQueued(c) PROVE TypeInv'
  <2>1. waiters' \in Seq(Callers)
    BY <1>9, SubSeqProperties, ConcatProperties DEF TypeInv, TypeOK, AbandonQueued
  <2> QED
    BY <1>9, <2>1 DEF TypeInv, TypeOK, HeldWhileUsed, AbandonQueued, Goto
<1>10. ASSUME NEW c \in Callers, AbandonDrained(c) PROVE TypeInv'
  BY <1>10 DEF TypeInv, TypeOK, HeldWhileUsed, AbandonDrained, Drain, Goto
<1>11. ASSUME NEW c \in Callers, Forward(c) PROVE TypeInv'
  <2>1. /\ waiters' \in Seq(Callers)
        /\ chan' \in [Callers -> Conns \cup {Empty, Retry, Shut}]
    BY <1>11, SendTyped DEF TypeInv, TypeOK, Forward, wakeOneWaiterLocked
  <2> QED
    BY <1>11, <2>1 DEF TypeInv, TypeOK, HeldWhileUsed, Forward, Goto
<1>12. ASSUME NEW c \in Callers, putConn(c) PROVE TypeInv'
  <2>1. held[c] \in Conns
    BY <1>12 DEF TypeInv, HeldWhileUsed, putConn
  <2>2. /\ waiters' \in Seq(Callers)
        /\ chan' \in [Callers -> Conns \cup {Empty, Retry, Shut}]
    BY <1>12, <2>1, SendTyped DEF TypeInv, TypeOK, putConn, PutClosed, PutExpired, PutFresh,
       HandOffOrPark, wakeOneWaiterLocked
  <2>3. IsFiniteSet(pool') /\ pool' \subseteq Conns
    <3>1. pool' \in {pool, pool \cup {held[c]}}
      BY <1>12 DEF putConn, PutClosed, PutExpired, PutFresh, HandOffOrPark
    <3>2. IsFiniteSet(pool \cup {held[c]})
      BY FS_AddElement DEF TypeInv
    <3> QED
      BY <2>1, <3>1, <3>2 DEF TypeInv, TypeOK
  <2>4. active' \in Int
    BY <1>12 DEF TypeInv, TypeOK, putConn, PutClosed, PutExpired, PutFresh
  <2>5. toClose' \in [Threads -> SUBSET Conns]
    <3>1. Retire(c, {held[c]}) \/ UNCHANGED toClose
      BY <1>12 DEF putConn, PutClosed, PutExpired, PutFresh
    <3> QED
      BY <2>1, <3>1, RetireTyped DEF TypeInv, TypeOK, Threads
  <2> QED
    BY <1>12, <2>2, <2>3, <2>4, <2>5, ReleaseTyped
    DEF TypeInv, TypeOK, putConn, Locations
<1>13. ASSUME NEW c \in Callers, removeConn(c) PROVE TypeInv'
  <2>1. held[c] \in Conns
    BY <1>13 DEF TypeInv, HeldWhileUsed, removeConn
  <2>2. /\ waiters' \in Seq(Callers)
        /\ chan' \in [Callers -> Conns \cup {Empty, Retry, Shut}]
    BY <1>13, SendTyped DEF TypeInv, TypeOK, removeConn, wakeOneWaiterLocked
  <2> QED
    <3>1. /\ pc' \in [Callers -> Locations]
          /\ held' \in [Callers -> Conns \cup {NoConn}]
          /\ HeldWhileUsed'
      BY <1>13, ReleaseTyped DEF removeConn
    <3>2. toClose' \in [Threads -> SUBSET Conns]
      BY <1>13, <2>1, RetireTyped DEF TypeInv, removeConn, Threads
    <3> QED
      BY <1>13, <2>2, <3>1, <3>2 DEF TypeInv, TypeOK, removeConn, Locations
<1>14. ASSUME NEW t \in Background, DialIdleReserve(t) PROVE TypeInv'
  <2>1. bg' \in [Background -> BgLocations] /\ active' \in Int
    BY <1>14, GiveUpTyped, BgGotoTyped DEF TypeInv, TypeOK, DialIdleReserve, BgLocations
  <2> QED
    BY <1>14, <2>1 DEF TypeInv, TypeOK, HeldWhileUsed, DialIdleReserve, BgLocations
<1>15. ASSUME NEW t \in Background, DialIdleFailed(t) PROVE TypeInv'
  <2>1. /\ waiters' \in Seq(Callers)
        /\ chan' \in [Callers -> Conns \cup {Empty, Retry, Shut}]
    BY <1>15, SendTyped DEF TypeInv, DialIdleFailed, wakeOneWaiterLocked
  <2> QED
    BY <1>15, <2>1, GiveUpTyped DEF TypeInv, TypeOK, HeldWhileUsed, DialIdleFailed, BgLocations
<1>16. ASSUME NEW t \in Background, DialIdleDone(t) PROVE TypeInv'
  <2>1. PICK cn \in Conns \ open : DialIdleDone(t)!2!(cn)
    BY <1>16 DEF DialIdleDone
  <2>2. /\ waiters' \in Seq(Callers)
        /\ chan' \in [Callers -> Conns \cup {Empty, Retry, Shut}]
    BY <2>1, SendTyped DEF TypeInv, TypeOK, HandOffOrPark
  <2>3. IsFiniteSet(pool') /\ pool' \subseteq Conns
    <3>1. pool' \in {pool, pool \cup {cn}}
      BY <2>1 DEF HandOffOrPark
    <3>2. IsFiniteSet(pool \cup {cn})
      BY FS_AddElement DEF TypeInv
    <3> QED
      BY <3>1, <3>2 DEF TypeInv, TypeOK
  <2>4. active' \in Int /\ open' \subseteq Conns /\ expired' \subseteq Conns
    BY <2>1 DEF TypeInv, TypeOK, Dialled
  <2>5. toClose' \in [Threads -> SUBSET Conns]
    BY <2>1, RetireTyped DEF TypeInv, TypeOK, Threads
  <2>6. bg' \in [Background -> BgLocations] /\ warmed' \in Nat
    BY <2>1, GiveUpTyped, DialIdleTrueTyped DEF TypeInv, TypeOK
  <2> QED
    BY <1>16, <2>2, <2>3, <2>4, <2>5, <2>6
    DEF TypeInv, TypeOK, HeldWhileUsed, DialIdleDone, BgLocations
<1>17. CASE reapStaleConns
  <2>1. IsFiniteSet(pool') /\ pool' \subseteq Conns /\ active' \in Int
    <3>1. Cardinality(pool \cap expired) \in Nat /\ IsFiniteSet(pool \ expired)
      <4>1. IsFiniteSet(pool \cap expired) /\ IsFiniteSet(pool \ expired)
        BY FS_Subset DEF TypeInv
      <4> QED
        BY <4>1, FS_CardinalityType
    <3>2. CASE closed
      BY <1>17, <3>2 DEF TypeInv, TypeOK, reapStaleConns
    <3>3. CASE ~closed
      <4>1. pool' = pool \ expired /\ active' = active - Cardinality(pool \cap expired)
        BY <1>17, <3>3 DEF reapStaleConns
      <4>2. active' \in Int
        BY <3>1, <4>1 DEF TypeInv, TypeOK
      <4> QED
        BY <3>1, <4>1, <4>2 DEF TypeInv, TypeOK
    <3> QED
      BY <3>2, <3>3
  <2>2. bg' \in [Background -> BgLocations]
    BY <1>17, BgGotoTyped DEF TypeInv, reapStaleConns, Background, BgLocations
  <2>3. toClose' \in [Threads -> SUBSET Conns]
    BY <1>17, RetireTyped DEF TypeInv, TypeOK, reapStaleConns, Threads, Background
  <2> QED
    BY <1>17, <2>1, <2>2, <2>3 DEF TypeInv, TypeOK, HeldWhileUsed, reapStaleConns, BgLocations
<1>18. CASE ensureMinIdle \/ ReaperExit
  BY <1>18 DEF TypeInv, TypeOK, HeldWhileUsed, ensureMinIdle, ReaperExit, BgGoto
<1>19. ASSUME NEW t \in Threads, closeAll(t) PROVE TypeInv'
  BY <1>19 DEF TypeInv, TypeOK, HeldWhileUsed, closeAll, Retire
<1>20. ASSUME NEW cn \in Conns, Expire(cn) PROVE TypeInv'
  BY <1>20 DEF TypeInv, TypeOK, HeldWhileUsed, Expire
<1>21. ASSUME NEW k \in Closers, Close(k) PROVE TypeInv'
  BY <1>21 DEF TypeInv, TypeOK, HeldWhileUsed, Close
<1>22. ASSUME NEW k \in Closers, Teardown(k) PROVE TypeInv'
  <2>1. IsFiniteSet(pool') /\ active' \in Int /\ waiters' \in Seq(Callers)
    BY <1>22, <1>0, FS_EmptySet DEF TypeInv, TypeOK, Teardown
  <2> QED
    BY <1>22, <2>1 DEF TypeInv, TypeOK, HeldWhileUsed, Teardown
<1>23. CASE UNCHANGED vars
  BY <1>23 DEF TypeInv, TypeOK, HeldWhileUsed, vars
<1> QED
  BY <1>1, <1>2, <1>3, <1>4, <1>5, <1>6, <1>7, <1>8, <1>9, <1>10, <1>11, <1>12, <1>13,
     <1>14, <1>15, <1>16, <1>17, <1>18, <1>19, <1>20, <1>21, <1>22, <1>23
  DEF Next, CallerStep, getConn, dialConn, abandonWaiter, dialIdle

LEMMA TypeInvAlways == Spec => []TypeInv
BY TypeInvInit, TypeInvStep, PTL DEF Spec

\* Every variable keeps its type.
THEOREM TypeCorrect == Spec => []TypeOK
<1>1. TypeInv => TypeOK
  BY DEF TypeInv
<1> QED
  BY <1>1, TypeInvAlways, PTL

-----------------------------------------------------------------------------
(* The queue.                                                              *)

\* OneSendPerWaiter of a queue q, channels ch and locations p.
QueueOK(q, ch, p) ==
    /\ Distinct(q)
    /\ \A c \in Callers : c \in Elems(q) <=> (p[c] = "wait" /\ ch[c] = Empty)
    /\ \A c \in Callers : ch[c] # Empty => p[c] = "wait"

QueueInv == QueueOK(waiters, chan, pc)

Messages == Conns \cup {Empty, Retry, Shut}

LEMMA QueueInvIsOneSend == QueueInv <=> OneSendPerWaiter
BY DEF QueueInv, QueueOK, OneSendPerWaiter, Distinct, Elems, Queued

\* Moving a caller that does not wait to where it does not wait.
LEMMA QueueMove ==
    ASSUME NEW q, NEW ch, NEW p \in [Callers -> Locations], QueueOK(q, ch, p),
           NEW c \in Callers, p[c] # "wait", NEW l, l # "wait"
    PROVE  QueueOK(q, ch, [p EXCEPT ![c] = l])
BY DEF QueueOK

\* Popping the head and sending it a message.
LEMMA QueueSend ==
    ASSUME NEW q \in Seq(Callers), NEW ch \in [Callers -> Messages], NEW p,
           QueueOK(q, ch, p), q # <<>>, NEW msg, msg # Empty
    PROVE  QueueOK(Tail(q), [ch EXCEPT ![Head(q)] = msg], p)
<1>1. /\ Head(q) \in Elems(q) /\ Distinct(Tail(q)) /\ Head(q) \in Callers
      /\ Elems(Tail(q)) = Elems(q) \ {Head(q)}
  BY TailElems DEF QueueOK
<1> QED
  BY <1>1 DEF QueueOK

\* A caller that does not wait joins the queue.
LEMMA QueueJoin ==
    ASSUME NEW q \in Seq(Callers), NEW ch \in [Callers -> Messages],
           NEW p \in [Callers -> Locations], QueueOK(q, ch, p),
           NEW c \in Callers, p[c] # "wait"
    PROVE  QueueOK(Append(q, c), ch, [p EXCEPT ![c] = "wait"])
<1>1. c \notin Elems(q) /\ ch[c] = Empty
  BY DEF QueueOK
<1>2. Distinct(Append(q, c)) /\ Elems(Append(q, c)) = Elems(q) \cup {c}
  BY <1>1, AppendElems DEF QueueOK
<1> QED
  BY <1>1, <1>2 DEF QueueOK

\* A queued caller takes itself out.
LEMMA QueueLeave ==
    ASSUME NEW q \in Seq(Callers), NEW ch \in [Callers -> Messages],
           NEW p \in [Callers -> Locations], QueueOK(q, ch, p),
           NEW i \in 1..Len(q), NEW l, l # "wait"
    PROVE  QueueOK(Without(q, i), ch, [p EXCEPT ![q[i]] = l])
<1>1. Distinct(Without(q, i)) /\ Elems(Without(q, i)) = Elems(q) \ {q[i]}
  BY WithoutElems DEF QueueOK
<1>2. q[i] \in Elems(q) /\ q[i] \in Callers
  BY DEF Elems
<1> QED
  BY <1>1, <1>2 DEF QueueOK

\* A caller that was sent something takes it and leaves.
LEMMA QueueTake ==
    ASSUME NEW q \in Seq(Callers), NEW ch \in [Callers -> Messages],
           NEW p \in [Callers -> Locations], QueueOK(q, ch, p),
           NEW c \in Callers, c \notin Elems(q), NEW l, l # "wait"
    PROVE  QueueOK(q, [ch EXCEPT ![c] = Empty], [p EXCEPT ![c] = l])
BY DEF QueueOK

\* A section that wakes the head waiter, hands it a connection or does
\* nothing, by a caller that does not wait before or after it.
LEMMA QueueSendOrNot ==
    ASSUME TypeOK, QueueInv, NEW msg \in Conns \cup {Retry},
           Send(msg) \/ UNCHANGED <<waiters, chan>>
    PROVE  QueueOK(waiters', chan', pc)
<1>1. CASE Send(msg)
  <2>1. msg # Empty
    BY Sentinels
  <2> QED
    BY <1>1, <2>1, QueueSend DEF TypeOK, QueueInv, Send, Messages
<1>2. CASE UNCHANGED <<waiters, chan>>
  BY <1>2 DEF QueueInv
<1> QED
  BY <1>1, <1>2

LEMMA QueueSection ==
    ASSUME TypeOK, QueueInv, NEW msg \in Conns \cup {Retry},
           Send(msg) \/ UNCHANGED <<waiters, chan>>,
           NEW c \in Callers, pc[c] # "wait", NEW l, l # "wait", Goto(c, l)
    PROVE  QueueInv'
<1>1. QueueOK(waiters', chan', pc)
  BY QueueSendOrNot
<1>2. pc \in [Callers -> Locations]
  BY DEF TypeOK, Locations
<1> QED
  BY <1>1, <1>2, QueueMove DEF QueueInv, Goto

LEMMA QueueInvInit == Init => QueueInv
BY DEF Init, QueueInv, QueueOK, Distinct, Elems

\* Every step keeps the queue and the channels in agreement.
LEMMA QueueInvStep == TypeInv /\ QueueInv /\ [Next]_vars => QueueInv'
<1> SUFFICES ASSUME TypeInv, QueueInv, [Next]_vars PROVE QueueInv'
  OBVIOUS
<1> USE DEF callerVars, bgVars
<1>0. /\ TypeOK
      /\ waiters \in Seq(Callers)
      /\ chan \in [Callers -> Messages]
      /\ pc \in [Callers -> Locations]
  BY DEF TypeInv, TypeOK, Messages, Locations
<1>a. ASSUME NEW c \in Callers, pc[c] # "wait", NEW l, l # "wait", Goto(c, l),
             UNCHANGED <<waiters, chan>>
      PROVE  QueueInv'
  BY <1>0, <1>a, QueueSection
<1>b. ASSUME NEW c \in Callers, pc[c] # "wait", NEW l, l # "wait", Goto(c, l),
             wakeOneWaiterLocked
      PROVE  QueueInv'
  BY <1>0, <1>b, QueueSection DEF wakeOneWaiterLocked
<1>c. ASSUME NEW msg \in Conns \cup {Retry}, Send(msg) \/ UNCHANGED <<waiters, chan>>,
             UNCHANGED pc
      PROVE  QueueInv'
  BY <1>0, <1>c, QueueSendOrNot DEF QueueInv
<1>1. ASSUME NEW c \in Callers, StartCall(c) \/ Refused(c) \/ Reuse(c) \/ Reserve(c)
      PROVE  QueueInv'
  <2>1. CASE StartCall(c)
    BY <1>a, <2>1 DEF StartCall
  <2>2. CASE Refused(c)
    BY <1>a, <2>2 DEF Refused, InGetConn
  <2>3. CASE Reuse(c)
    BY <1>a, <2>3 DEF Reuse, InGetConn
  <2>4. CASE Reserve(c)
    BY <1>a, <2>4 DEF Reserve, Emptied, InGetConn
  <2> QED
    BY <1>1, <2>1, <2>2, <2>3, <2>4
<1>2. ASSUME NEW c \in Callers, Enqueue(c) PROVE QueueInv'
  BY <1>0, <1>2, QueueJoin DEF Enqueue, Emptied, InGetConn, Goto, QueueInv
<1>3. ASSUME NEW c \in Callers, DialOk(c) PROVE QueueInv'
  BY <1>a, <1>3 DEF DialOk
<1>4. ASSUME NEW c \in Callers, DialFailed(c) PROVE QueueInv'
  BY <1>b, <1>4 DEF DialFailed
<1>5. ASSUME NEW c \in Callers, Receive(c) PROVE QueueInv'
  <2>1. PICK l \in {"use", "retry", "idle"} : Goto(c, l)
    BY <1>5 DEF Receive
  <2>2. c \notin Elems(waiters)
    BY <1>5 DEF Receive, QueueInv, QueueOK
  <2> QED
    BY <1>0, <1>5, <2>1, <2>2, QueueTake DEF Receive, Goto, QueueInv
<1>6. ASSUME NEW c \in Callers, AbandonQueued(c) PROVE QueueInv'
  <2>1. PICK i \in 1..Len(waiters) : waiters[i] = c /\ waiters' = Without(waiters, i)
    BY <1>6 DEF AbandonQueued, Without
  <2> QED
    BY <1>0, <1>6, <2>1, QueueLeave DEF AbandonQueued, Goto, QueueInv
<1>7. ASSUME NEW c \in Callers, AbandonDrained(c) PROVE QueueInv'
  <2>1. PICK l \in {"reclaim", "forward", "idle"} : Goto(c, l)
    BY <1>7 DEF AbandonDrained, Drain
  <2>2. c \notin Elems(waiters)
    BY <1>7 DEF AbandonDrained, Elems
  <2> QED
    BY <1>0, <1>7, <2>1, <2>2, QueueTake DEF AbandonDrained, Goto, QueueInv
<1>8. ASSUME NEW c \in Callers, Forward(c) PROVE QueueInv'
  BY <1>a, <1>b, <1>8 DEF Forward
<1>9. ASSUME NEW c \in Callers, putConn(c) PROVE QueueInv'
  <2>1. held[c] \in Conns /\ pc[c] # "wait" /\ Goto(c, "idle")
    BY <1>9 DEF TypeInv, HeldWhileUsed, putConn, Release
  <2>2. CASE PutClosed(c)
    BY <1>a, <2>1, <2>2 DEF PutClosed
  <2>3. CASE PutExpired(c)
    BY <1>b, <2>1, <2>3 DEF PutExpired
  <2>4. CASE PutFresh(c)
    BY <1>0, <2>1, <2>4, QueueSection DEF PutFresh, HandOffOrPark
  <2> QED
    BY <1>9, <2>2, <2>3, <2>4 DEF putConn
<1>10. ASSUME NEW c \in Callers, removeConn(c) PROVE QueueInv'
  BY <1>a, <1>b, <1>10 DEF removeConn, Release
<1>11. ASSUME NEW t \in Background, dialIdle(t) PROVE QueueInv'
  <2>1. CASE DialIdleReserve(t)
    BY <1>c, <2>1 DEF DialIdleReserve
  <2>2. CASE DialIdleFailed(t)
    BY <1>c, <2>2 DEF DialIdleFailed, wakeOneWaiterLocked
  <2>3. CASE DialIdleDone(t)
    BY <1>c, <2>3 DEF DialIdleDone, HandOffOrPark
  <2> QED
    BY <1>11, <2>1, <2>2, <2>3 DEF dialIdle
<1>12. CASE reapStaleConns \/ ensureMinIdle \/ ReaperExit
  BY <1>c, <1>12 DEF reapStaleConns, ensureMinIdle, ReaperExit
<1>13. ASSUME NEW t \in Threads, closeAll(t) PROVE QueueInv'
  BY <1>c, <1>13 DEF closeAll
<1>14. ASSUME NEW cn \in Conns, Expire(cn) PROVE QueueInv'
  BY <1>c, <1>14 DEF Expire
<1>15. ASSUME NEW k \in Closers, Close(k) PROVE QueueInv'
  BY <1>c, <1>15 DEF Close
<1>16. ASSUME NEW k \in Closers, Teardown(k) PROVE QueueInv'
  <2>1. chan' = [c \in Callers |-> IF c \in Elems(waiters) THEN Shut ELSE chan[c]]
    BY <1>16 DEF Teardown, Elems
  <2>2. waiters' = <<>> /\ pc' = pc
    BY <1>16 DEF Teardown
  <2>3. Elems(<<>>) = {} /\ Distinct(<<>>)
    BY DEF Elems, Distinct
  <2> QED
    BY <2>1, <2>2, <2>3, Sentinels DEF QueueInv, QueueOK
<1>17. CASE UNCHANGED vars
  BY <1>c, <1>17 DEF vars
<1> QED
  BY <1>1, <1>2, <1>3, <1>4, <1>5, <1>6, <1>7, <1>8, <1>9, <1>10, <1>11, <1>12, <1>13,
     <1>14, <1>15, <1>16, <1>17
  DEF Next, CallerStep, getConn, dialConn, abandonWaiter

LEMMA QueueInvAlways == Spec => []QueueInv
BY TypeInvAlways, QueueInvInit, QueueInvStep, PTL DEF Spec

\* Each channel gets at most one send or close, and a caller is queued exactly
\* until then.
THEOREM OneSendPerWaiterAlways == Spec => []OneSendPerWaiter
BY QueueInvAlways, QueueInvIsOneSend, PTL

-----------------------------------------------------------------------------
(* Shutdown.                                                               *)

\* NothingParkedAfterClose is inductive once Close's swap is known to precede
\* its section: from then on nothing is parked or queued.
ShutInv ==
    /\ \A k \in Closers : closer[k] # "open" => closed
    /\ NothingParkedAfterClose

LEMMA ShutInvInit == Init => ShutInv
BY DEF Init, ShutInv, NothingParkedAfterClose, Released

\* Every step but those of Close: it parks and queues nothing once closed.
LEMMA ParksNothing ==
    ASSUME TypeOK, ShutInv, closer' = closer, closed' = closed,
           closed => /\ pool' \subseteq pool
                     /\ waiters = <<>> => waiters' = <<>>
    PROVE  ShutInv'
<1>1. Released => closed
  BY DEF ShutInv, Released
<1>2. Released' = Released
  BY DEF Released
<1> QED
  BY <1>1, <1>2 DEF ShutInv, NothingParkedAfterClose

LEMMA ShutInvStep == TypeInv /\ ShutInv /\ [Next]_vars => ShutInv'
<1> SUFFICES ASSUME TypeInv, ShutInv, [Next]_vars PROVE ShutInv'
  OBVIOUS
<1> USE DEF callerVars, bgVars
<1>0. TypeOK
  BY DEF TypeInv
<1>w. wakeOneWaiterLocked => (waiters = <<>> => waiters' = <<>>)
  BY DEF wakeOneWaiterLocked, Send
<1>1. ASSUME NEW c \in Callers, CallerStep(c) PROVE ShutInv'
  <2>0. closer' = closer /\ closed' = closed
    BY <1>1 DEF CallerStep, getConn, dialConn, abandonWaiter, StartCall, Refused, Reuse,
       Reserve, Enqueue, DialOk, DialFailed, Receive, AbandonQueued, AbandonDrained,
       Forward, putConn, removeConn
  <2>1. CASE StartCall(c) \/ Refused(c) \/ DialOk(c) \/ Receive(c) \/ AbandonDrained(c)
    BY <1>0, <2>0, <2>1, ParksNothing
    DEF StartCall, Refused, DialOk, Receive, AbandonDrained
  <2>2. CASE Reuse(c) \/ Reserve(c) \/ Enqueue(c)
    <3>1. ~closed
      BY <2>2 DEF Reuse, Reserve, Enqueue, Emptied
    <3> QED
      BY <1>0, <2>0, <3>1, ParksNothing
  <2>3. CASE AbandonQueued(c)
    <3>1. waiters # <<>> /\ pool' = pool
      BY <2>3 DEF AbandonQueued
    <3> QED
      BY <1>0, <2>0, <3>1, ParksNothing
  <2>4. CASE DialFailed(c) \/ Forward(c) \/ removeConn(c)
    <3>1. pool' = pool /\ (waiters = <<>> => waiters' = <<>>)
      BY <1>w, <2>4 DEF DialFailed, Forward, removeConn
    <3> QED
      BY <1>0, <2>0, <3>1, ParksNothing
  <2>5. CASE putConn(c)
    <3>1. closed => PutClosed(c)
      BY <2>5 DEF putConn, PutExpired, PutFresh
    <3> QED
      BY <1>0, <2>0, <3>1, ParksNothing DEF PutClosed
  <2> QED
    BY <1>1, <2>1, <2>2, <2>3, <2>4, <2>5 DEF CallerStep, getConn, dialConn, abandonWaiter
<1>2. ASSUME NEW t \in Background, dialIdle(t) PROVE ShutInv'
  <2>1. /\ closer' = closer /\ closed' = closed
        /\ closed => pool' = pool
        /\ closed => UNCHANGED waiters \/ wakeOneWaiterLocked
    BY <1>2 DEF dialIdle, DialIdleReserve, DialIdleFailed, DialIdleDone
  <2> QED
    BY <1>0, <1>w, <2>1, ParksNothing
<1>3. CASE reapStaleConns \/ ensureMinIdle \/ ReaperExit
  BY <1>0, <1>3, ParksNothing DEF reapStaleConns, ensureMinIdle, ReaperExit
<1>4. ASSUME NEW t \in Threads, closeAll(t) PROVE ShutInv'
  BY <1>0, <1>4, ParksNothing DEF closeAll
<1>5. ASSUME NEW cn \in Conns, Expire(cn) PROVE ShutInv'
  BY <1>0, <1>5, ParksNothing DEF Expire
<1>6. ASSUME NEW k \in Closers, Close(k) PROVE ShutInv'
  <2>1. closed' /\ UNCHANGED <<pool, waiters>>
    BY <1>6 DEF Close
  <2>2. Released' => Released
    BY <1>0, <1>6 DEF Close, Released, TypeOK
  <2> QED
    BY <2>1, <2>2 DEF ShutInv, NothingParkedAfterClose
<1>7. ASSUME NEW k \in Closers, Teardown(k) PROVE ShutInv'
  <2>1. pool' = {} /\ waiters' = <<>> /\ closed' = closed /\ closed
    BY <1>7 DEF Teardown, ShutInv
  <2> QED
    BY <2>1 DEF ShutInv, NothingParkedAfterClose
<1>8. CASE UNCHANGED vars
  BY <1>0, <1>8, ParksNothing DEF vars
<1> QED
  BY <1>1, <1>2, <1>3, <1>4, <1>5, <1>6, <1>7, <1>8 DEF Next

\* Nothing is parked and nobody queued once the section of Close is over.
THEOREM NothingParkedAfterCloseAlways == Spec => []NothingParkedAfterClose
<1>1. ShutInv => NothingParkedAfterClose
  BY DEF ShutInv
<1> QED
  BY <1>1, TypeInvAlways, ShutInvInit, ShutInvStep, PTL DEF Spec

-----------------------------------------------------------------------------
(* Staleness.                                                              *)

\* Only open connections have expired: one just dialled is new to expired.
StaleInv == expired \subseteq open

LEMMA StaleInvInit == Init => StaleInv
BY DEF Init, StaleInv

LEMMA StaleInvStep == TypeInv /\ StaleInv /\ [Next]_vars => StaleInv'
<1> SUFFICES ASSUME TypeInv, StaleInv, [Next]_vars PROVE StaleInv'
  OBVIOUS
<1> USE DEF StaleInv, callerVars, bgVars
<1>1. ASSUME NEW c \in Callers, CallerStep(c) PROVE StaleInv'
  <2>1. CASE DialOk(c)
    BY <2>1 DEF DialOk, Dialled
  <2>2. ASSUME ~DialOk(c) PROVE open \subseteq open' /\ expired' \subseteq expired
    BY <1>1, <2>2 DEF CallerStep, getConn, dialConn, abandonWaiter, StartCall, Refused,
       Reuse, Reserve, Enqueue, DialFailed, Receive, AbandonQueued, AbandonDrained,
       Forward, putConn, removeConn
  <2> QED
    BY <2>1, <2>2
<1>2. ASSUME NEW t \in Background, dialIdle(t) PROVE StaleInv'
  <2>1. CASE DialIdleReserve(t) \/ DialIdleFailed(t)
    BY <2>1 DEF DialIdleReserve, DialIdleFailed
  <2>2. CASE DialIdleDone(t)
    BY <2>2 DEF DialIdleDone, Dialled
  <2> QED
    BY <1>2, <2>1, <2>2 DEF dialIdle
<1>3. CASE reapStaleConns \/ ensureMinIdle \/ ReaperExit
  BY <1>3 DEF reapStaleConns, ensureMinIdle, ReaperExit
<1>4. ASSUME NEW t \in Threads, closeAll(t) PROVE StaleInv'
  BY <1>4 DEF closeAll
<1>5. ASSUME NEW cn \in Conns, Expire(cn) PROVE StaleInv'
  BY <1>5 DEF Expire
<1>6. ASSUME NEW k \in Closers, Close(k) \/ Teardown(k) PROVE StaleInv'
  BY <1>6 DEF Close, Teardown
<1>7. CASE UNCHANGED vars
  BY <1>7 DEF vars
<1> QED
  BY <1>1, <1>2, <1>3, <1>4, <1>5, <1>6, <1>7 DEF Next

\* cn goes nowhere but where it was sent.
Stays(cn) ==
    /\ cn \in pool' => cn \in pool
    /\ \A c \in Callers :
         /\ chan'[c] = cn => chan[c] = cn
         /\ held'[c] = cn => cn \in {held[c], chan[c]}

ExpiredStay == \A cn \in expired : Stays(cn)

\* A send hands on nothing but its message.
LEMMA SendStays ==
    ASSUME TypeOK, NEW cn \in Conns, NEW msg, msg # cn, Send(msg),
           NEW c \in Callers, chan'[c] = cn
    PROVE  chan[c] = cn
BY DEF TypeOK, Send

LEMMA WakeStays ==
    ASSUME TypeOK, NEW cn \in Conns, wakeOneWaiterLocked,
           NEW c \in Callers, chan'[c] = cn
    PROVE  chan[c] = cn
BY SendStays, Sentinels DEF wakeOneWaiterLocked

LEMMA HandOffStays ==
    ASSUME TypeOK, NEW cn \in Conns, NEW d \in Conns, d # cn, HandOffOrPark(d)
    PROVE  /\ cn \in pool' => cn \in pool
           /\ \A c \in Callers : chan'[c] = cn => chan[c] = cn
BY SendStays DEF HandOffOrPark

\* A step that moves no connection.
LEMMA NothingMoves ==
    ASSUME TypeOK, NEW cn \in Conns, pool' \subseteq pool, UNCHANGED held,
           wakeOneWaiterLocked \/ UNCHANGED chan
    PROVE  Stays(cn)
BY WakeStays DEF Stays

LEMMA CallerStays ==
    ASSUME TypeInv, StaleInv, NEW c \in Callers, CallerStep(c), NEW cn \in expired
    PROVE  Stays(cn)
<1>0. TypeOK /\ cn \in Conns /\ cn \in open /\ cn # NoConn
  BY Sentinels DEF TypeInv, TypeOK, StaleInv
<1>1. CASE \/ StartCall(c) \/ Refused(c) \/ Reserve(c) \/ Enqueue(c) \/ AbandonQueued(c)
           \/ DialFailed(c) \/ Forward(c)
  BY <1>0, <1>1, NothingMoves
  DEF StartCall, Refused, Reserve, Emptied, Enqueue, AbandonQueued, DialFailed, Forward
<1>2. CASE Reuse(c)
  BY <1>0, <1>2 DEF Reuse, Stays, TypeOK
<1>3. CASE DialOk(c)
  BY <1>0, <1>3 DEF DialOk, Stays, TypeOK
<1>4. CASE Receive(c) \/ AbandonDrained(c)
  <2>1. /\ chan' = [chan EXCEPT ![c] = Empty]
        /\ held' \in {held, [held EXCEPT ![c] = chan[c]]}
        /\ pool' = pool
    BY <1>4 DEF Receive, AbandonDrained, Drain
  <2> QED
    BY <1>0, <2>1, Sentinels DEF Stays, TypeOK
<1>5. CASE putConn(c) \/ removeConn(c)
  <2>1. held' = [held EXCEPT ![c] = NoConn]
    BY <1>5 DEF putConn, removeConn, Release
  <2>2. \A d \in Callers : held'[d] = cn => held[d] = cn
    BY <1>0, <2>1 DEF TypeOK
  <2>3. CASE pool' = pool /\ (wakeOneWaiterLocked \/ UNCHANGED chan)
    BY <1>0, <2>2, <2>3, WakeStays DEF Stays
  <2>4. CASE putConn(c) /\ PutFresh(c)
    <3>1. held[c] \in Conns /\ held[c] # cn /\ HandOffOrPark(held[c])
      BY <2>4 DEF putConn, PutFresh, TypeInv, HeldWhileUsed
    <3> QED
      BY <1>0, <2>2, <3>1, HandOffStays DEF Stays
  <2> QED
    BY <1>5, <2>3, <2>4 DEF putConn, removeConn, PutClosed, PutExpired
<1> QED
  BY <1>1, <1>2, <1>3, <1>4, <1>5 DEF CallerStep, getConn, dialConn, abandonWaiter

LEMMA ExpiredStayStep == TypeInv /\ StaleInv /\ [Next]_vars => ExpiredStay
<1> SUFFICES ASSUME TypeInv, StaleInv, [Next]_vars, NEW cn \in expired
             PROVE  Stays(cn)
  BY DEF ExpiredStay
<1> USE DEF callerVars, bgVars
<1>0. TypeOK /\ cn \in Conns /\ cn \in open
  BY DEF TypeInv, TypeOK, StaleInv
<1>1. ASSUME NEW c \in Callers, CallerStep(c) PROVE Stays(cn)
  BY <1>1, CallerStays
<1>2. ASSUME NEW t \in Background, dialIdle(t) PROVE Stays(cn)
  <2>1. CASE DialIdleReserve(t) \/ DialIdleFailed(t)
    BY <1>0, <2>1, NothingMoves DEF DialIdleReserve, DialIdleFailed
  <2>2. CASE DialIdleDone(t)
    <3>1. PICK d \in Conns \ open : HandOffOrPark(d) \/ UNCHANGED <<pool, chan>>
      BY <2>2 DEF DialIdleDone
    <3>2. UNCHANGED held
      BY <2>2 DEF DialIdleDone
    <3>3. CASE HandOffOrPark(d)
      BY <1>0, <3>1, <3>2, <3>3, HandOffStays DEF Stays
    <3>4. CASE UNCHANGED <<pool, chan>>
      BY <3>2, <3>4 DEF Stays
    <3> QED
      BY <3>1, <3>3, <3>4
  <2> QED
    BY <1>2, <2>1, <2>2 DEF dialIdle
<1>3. ASSUME NEW k \in Closers, Teardown(k) PROVE Stays(cn)
  <2>1. \A c \in Callers : chan'[c] \in {chan[c], Shut}
    BY <1>3 DEF Teardown
  <2>2. pool' = {} /\ held' = held
    BY <1>3 DEF Teardown
  <2> QED
    BY <1>0, <2>1, <2>2, Sentinels DEF Stays
<1>4. CASE \/ reapStaleConns \/ ensureMinIdle \/ ReaperExit
           \/ \E t \in Threads : closeAll(t)
           \/ \E d \in Conns : Expire(d)
           \/ \E k \in Closers : Close(k)
           \/ UNCHANGED vars
  BY <1>0, <1>4, NothingMoves
  DEF reapStaleConns, ensureMinIdle, ReaperExit, closeAll, Expire, Close, vars
<1> QED
  BY <1>1, <1>2, <1>3, <1>4 DEF Next

\* No step parks a connection that has expired, sends it to a waiter or takes it
\* out of the idle pool for a caller, but for the one dialIdle has just made.
THEOREM NeverHandStaleAlways == Spec => NeverHandStale
<1>1. TypeInv /\ StaleInv /\ [Next]_vars => [ExpiredStay]_vars
  BY ExpiredStayStep
<1>2. Spec => []StaleInv
  BY TypeInvAlways, StaleInvInit, StaleInvStep, PTL DEF Spec
<1>3. Spec => [][ExpiredStay]_vars
  BY <1>1, <1>2, TypeInvAlways, PTL DEF Spec
<1> QED
  BY <1>3 DEF NeverHandStale, ExpiredStay, Stays

-----------------------------------------------------------------------------
(* No wake-up is lost.                                                     *)


\* Signalled of channels ch and locations p.
Sig(ch, p) == {c \in Callers : ch[c] = Retry \/ p[c] \in {"retry", "forward"}}

\* Signals can be counted.
LEMMA SigFinite ==
    ASSUME NEW ch, NEW p
    PROVE  IsFiniteSet(Sig(ch, p)) /\ Cardinality(Sig(ch, p)) \in Nat
<1>1. Sig(ch, p) \in SUBSET Callers
  BY DEF Sig
<1>2. IsFiniteSet(Sig(ch, p))
  BY <1>1, CallersAssumption, FS_Subset
<1> QED
  BY <1>2, FS_CardinalityType

\* More callers are told of a slot, and there are more of them.
LEMMA SigGrows ==
    ASSUME NEW ch, NEW p, NEW ch2, NEW p2, Sig(ch, p) \subseteq Sig(ch2, p2)
    PROVE  Cardinality(Sig(ch, p)) <= Cardinality(Sig(ch2, p2))
BY SigFinite, FS_Subset

\* The head waiter is told of a slot it did not know of.
LEMMA SigSend ==
    ASSUME TypeOK, QueueInv, Send(Retry)
    PROVE  /\ Cardinality(Sig(chan', pc)) = Cardinality(Sig(chan, pc)) + 1
           /\ \A c \in Callers : pc[c] # "wait" => chan'[c] = chan[c]
<1> DEFINE d == Head(waiters)
<1>1. d \in Callers /\ d \in Elems(waiters) /\ chan' = [chan EXCEPT ![d] = Retry]
  BY TailElems DEF TypeOK, QueueInv, QueueOK, Send
<1> HIDE DEF d
<1>2. pc[d] = "wait" /\ chan[d] # Retry
  BY <1>1, Sentinels DEF QueueInv, QueueOK
<1>3. chan'[d] = Retry /\ \A c \in Callers \ {d} : chan'[c] = chan[c]
  BY <1>1 DEF TypeOK
<1>4. Sig(chan', pc) = Sig(chan, pc) \cup {d} /\ d \notin Sig(chan, pc)
  BY <1>1, <1>2, <1>3 DEF Sig
<1> QED
  BY <1>2, <1>3, <1>4, SigFinite, FS_AddElement

\* A hand-off takes away no signal: its receiver was queued and knew of none.
LEMMA SigHandOff ==
    ASSUME TypeOK, QueueInv, NEW msg, Send(msg)
    PROVE  Sig(chan, pc) \subseteq Sig(chan', pc)
<1> DEFINE d == Head(waiters)
<1>1. d \in Callers /\ d \in Elems(waiters) /\ chan' = [chan EXCEPT ![d] = msg]
  BY TailElems DEF TypeOK, QueueInv, QueueOK, Send
<1> HIDE DEF d
<1>2. pc[d] = "wait" /\ chan[d] # Retry
  BY <1>1, Sentinels DEF QueueInv, QueueOK
<1>3. \A c \in Callers \ {d} : chan'[c] = chan[c]
  BY <1>1 DEF TypeOK
<1> QED
  BY <1>1, <1>2, <1>3 DEF Sig

\* A caller moves; l is not where it knows of a slot.
LEMMA SigLeave ==
    ASSUME TypeOK, NEW ch, NEW c \in Callers, NEW l, Goto(c, l)
    PROVE  /\ Sig(ch, pc) \ {c} \subseteq Sig(ch, pc')
           /\ pc[c] \notin {"retry", "forward"} => Sig(ch, pc) \subseteq Sig(ch, pc')
<1>1. \A d \in Callers \ {c} : pc'[d] = pc[d]
  BY DEF TypeOK, Goto
<1> QED
  BY <1>1 DEF Sig

\* One signal less.
LEMMA SigMinusOne ==
    ASSUME NEW ch, NEW p, NEW ch2, NEW p2, NEW c, Sig(ch, p) \ {c} \subseteq Sig(ch2, p2)
    PROVE  Cardinality(Sig(ch, p)) - 1 <= Cardinality(Sig(ch2, p2))
<1>0. IsFiniteSet(Sig(ch, p)) /\ Cardinality(Sig(ch, p)) \in Nat
  BY SigFinite
<1>1. /\ IsFiniteSet(Sig(ch, p) \ {c})
      /\ Cardinality(Sig(ch, p) \ {c}) >= Cardinality(Sig(ch, p)) - 1
  BY <1>0, FS_RemoveElement
<1>2. /\ Cardinality(Sig(ch, p) \ {c}) <= Cardinality(Sig(ch2, p2))
      /\ Cardinality(Sig(ch, p) \ {c}) \in Nat
  BY <1>1, SigFinite, FS_Subset, FS_CardinalityType
<1> QED
  BY <1>1, <1>2, SigFinite

-----------------------------------------------------------------------------

\* NoLostWakeup, which is inductive next to QueueInv.
WakeInv ==
    waiters # <<>> =>
       /\ pool = {}
       /\ ~closed => PoolSize - active <= Cardinality(Sig(chan, pc))

LEMMA WakeInvInit == Init => WakeInv
BY DEF Init, WakeInv

\* A step that frees no slot, forgets no signal and queues nobody.
LEMMA FreesNothing ==
    ASSUME TypeOK, WakeInv, active' \in Int, closed' = closed,
           waiters' # <<>> => /\ waiters # <<>> /\ pool' \subseteq pool
                              /\ ~closed => /\ active <= active'
                                            /\ Sig(chan, pc) \subseteq Sig(chan', pc')
    PROVE  WakeInv'
<1> SUFFICES ASSUME waiters' # <<>>
             PROVE  /\ pool' = {}
                    /\ ~closed => PoolSize - active' <= Cardinality(Sig(chan', pc'))
  BY DEF WakeInv
<1>1. pool' = {}
  BY DEF WakeInv
<1>2. ASSUME ~closed PROVE PoolSize - active' <= Cardinality(Sig(chan', pc'))
  <2>1. PoolSize - active <= Cardinality(Sig(chan, pc)) /\ active <= active'
    BY <1>2 DEF WakeInv
  <2>2. Cardinality(Sig(chan, pc)) <= Cardinality(Sig(chan', pc'))
    BY <1>2, SigGrows
  <2>3. /\ Cardinality(Sig(chan, pc)) \in Nat /\ Cardinality(Sig(chan', pc')) \in Nat
        /\ active \in Int /\ PoolSize \in Int
    BY SigFinite, SizesAssumption DEF TypeOK
  <2> QED
    BY <2>1, <2>2, <2>3
<1> QED
  BY <1>1, <1>2

\* A section that frees a slot and wakes the head waiter, by a caller that
\* was told of none.
LEMMA FreesAndWakes ==
    ASSUME TypeOK, QueueInv, WakeInv, wakeOneWaiterLocked, active' = active - 1,
           pool' = pool, closed' = closed,
           Sig(chan', pc) \subseteq Sig(chan', pc')
    PROVE  WakeInv'
<1> SUFFICES ASSUME waiters' # <<>>
             PROVE  /\ pool' = {}
                    /\ ~closed => PoolSize - active' <= Cardinality(Sig(chan', pc'))
  BY DEF WakeInv
<1>1. Send(Retry)
  BY DEF wakeOneWaiterLocked
<1>2. waiters # <<>>
  BY <1>1 DEF Send
<1>3. ASSUME ~closed PROVE PoolSize - active' <= Cardinality(Sig(chan', pc'))
  <2>1. PoolSize - active <= Cardinality(Sig(chan, pc))
    BY <1>2, <1>3 DEF WakeInv
  <2>2. Cardinality(Sig(chan', pc)) = Cardinality(Sig(chan, pc)) + 1
    BY <1>1, SigSend
  <2>3. Cardinality(Sig(chan', pc)) <= Cardinality(Sig(chan', pc'))
    BY SigGrows
  <2>4. /\ Cardinality(Sig(chan, pc)) \in Nat /\ Cardinality(Sig(chan', pc')) \in Nat
        /\ active \in Int /\ PoolSize \in Int
    BY SigFinite, SizesAssumption DEF TypeOK
  <2> QED
    BY <2>1, <2>2, <2>3, <2>4
<1> QED
  BY <1>2, <1>3 DEF WakeInv

LEMMA WakeInvStep == TypeInv /\ QueueInv /\ WakeInv /\ [Next]_vars => WakeInv'
<1> SUFFICES ASSUME TypeInv, QueueInv, WakeInv, [Next]_vars PROVE WakeInv'
  OBVIOUS
<1> USE DEF callerVars, bgVars
<1>0. /\ TypeOK /\ active \in Int /\ PoolSize \in Int
      /\ \A D \in SUBSET pool : Cardinality(D) \in Nat
  BY FS_Subset, FS_CardinalityType, SizesAssumption DEF TypeInv, TypeOK
<1>1. ASSUME NEW c \in Callers, StartCall(c) \/ DialOk(c) PROVE WakeInv'
  <2>1. /\ UNCHANGED <<active, pool, waiters, closed, chan>>
        /\ pc[c] \notin {"retry", "forward"} /\ \E l \in Locations : Goto(c, l)
    BY <1>1 DEF StartCall, DialOk, Locations
  <2>2. Sig(chan, pc) \subseteq Sig(chan', pc')
    BY <1>0, <2>1, SigLeave
  <2> QED
    BY <1>0, <2>1, <2>2, FreesNothing
<1>2. ASSUME NEW c \in Callers, Refused(c) PROVE WakeInv'
  BY <1>0, <1>2, FreesNothing DEF Refused
<1>3. ASSUME NEW c \in Callers, Reuse(c) PROVE WakeInv'
  <2>1. pool # {} /\ waiters' = waiters
    BY <1>3 DEF Reuse
  <2> QED
    BY <2>1 DEF WakeInv
<1>4. ASSUME NEW c \in Callers, Reserve(c) PROVE WakeInv'
  <2>1. /\ UNCHANGED <<waiters, closed, chan>> /\ Goto(c, "dial") /\ pool' = {}
        /\ active' = active - Cardinality(pool) + 1
    BY <1>4 DEF Reserve, Emptied
  <2>2. SUFFICES ASSUME waiters # <<>>, ~closed
                 PROVE  PoolSize - active' <= Cardinality(Sig(chan', pc'))
    BY <2>1 DEF WakeInv
  <2>3. pool = {} /\ PoolSize - active <= Cardinality(Sig(chan, pc))
    BY <2>2 DEF WakeInv
  <2>4. active' = active + 1
    BY <1>0, <2>1, <2>3, FS_EmptySet
  <2>5. Cardinality(Sig(chan, pc)) - 1 <= Cardinality(Sig(chan', pc'))
    BY <1>0, <2>1, SigLeave, SigMinusOne
  <2> QED
    BY <1>0, <2>3, <2>4, <2>5, SigFinite
<1>5. ASSUME NEW c \in Callers, Enqueue(c) PROVE WakeInv'
  <2>1. pool' = {} /\ active' >= PoolSize /\ active' \in Int
    BY <1>0, <1>5 DEF Enqueue, Emptied
  <2> QED
    BY <1>0, <2>1, SigFinite DEF WakeInv
<1>6. ASSUME NEW c \in Callers, DialFailed(c) PROVE WakeInv'
  <2>1. Sig(chan', pc) \subseteq Sig(chan', pc')
    BY <1>0, <1>6, SigLeave DEF DialFailed
  <2> QED
    BY <1>0, <1>6, <2>1, FreesAndWakes DEF DialFailed
<1>7. ASSUME NEW c \in Callers, Receive(c) \/ AbandonDrained(c) PROVE WakeInv'
  <2>1. UNCHANGED <<active, pool, waiters, closed>>
    BY <1>7 DEF Receive, AbandonDrained
  <2>2. /\ pc[c] = "wait" /\ chan' = [chan EXCEPT ![c] = Empty]
        /\ \E l \in Locations : Goto(c, l)
        /\ chan[c] = Retry => Goto(c, "retry") \/ Goto(c, "forward")
    BY <1>7, Sentinels DEF Receive, AbandonDrained, Drain, Locations
  <2>3. /\ \A d \in Callers \ {c} : pc'[d] = pc[d] /\ chan'[d] = chan[d]
        /\ chan[c] = Retry => pc'[c] \in {"retry", "forward"}
    BY <1>0, <2>2 DEF TypeOK, Goto
  <2>4. Sig(chan, pc) \subseteq Sig(chan', pc')
    BY <2>2, <2>3 DEF Sig
  <2> QED
    BY <1>0, <2>1, <2>4, FreesNothing
<1>8. ASSUME NEW c \in Callers, AbandonQueued(c) PROVE WakeInv'
  <2>1. /\ UNCHANGED <<active, pool, closed, chan>> /\ waiters # <<>>
        /\ pc[c] = "wait" /\ Goto(c, "idle")
    BY <1>8 DEF AbandonQueued
  <2>2. Sig(chan, pc) \subseteq Sig(chan', pc')
    BY <1>0, <2>1, SigLeave
  <2> QED
    BY <1>0, <2>1, <2>2, FreesNothing
<1>9. ASSUME NEW c \in Callers, Forward(c) PROVE WakeInv'
  <2>1. UNCHANGED <<active, pool, closed>> /\ Goto(c, "idle")
    BY <1>9 DEF Forward
  <2>2. CASE closed
    BY <1>0, <1>9, <2>1, <2>2, FreesNothing DEF Forward
  <2>3. CASE ~closed /\ waiters' # <<>>
    <3>1. Send(Retry) /\ waiters # <<>>
      BY <1>9, <2>3 DEF Forward, wakeOneWaiterLocked, Send
    <3>2. Cardinality(Sig(chan', pc)) = Cardinality(Sig(chan, pc)) + 1
      BY <1>0, <3>1, SigSend
    <3>3. Cardinality(Sig(chan', pc)) - 1 <= Cardinality(Sig(chan', pc'))
      BY <1>0, <2>1, SigLeave, SigMinusOne
    <3>4. pool = {} /\ PoolSize - active <= Cardinality(Sig(chan, pc))
      BY <2>3, <3>1 DEF WakeInv
    <3>5. PoolSize - active <= Cardinality(Sig(chan', pc'))
      BY <1>0, <3>2, <3>3, <3>4, SigFinite
    <3> QED
      BY <2>1, <3>4, <3>5 DEF WakeInv
  <2>4. CASE waiters' = <<>>
    BY <2>4 DEF WakeInv
  <2> QED
    BY <2>2, <2>3, <2>4
<1>10. ASSUME NEW c \in Callers, putConn(c) PROVE WakeInv'
  <2>1. closed' = closed /\ pc[c] \notin {"retry", "forward"} /\ Goto(c, "idle")
    BY <1>10 DEF putConn, Release
  <2>2. Sig(chan', pc) \subseteq Sig(chan', pc')
    BY <1>0, <2>1, SigLeave
  <2>3. CASE PutClosed(c)
    <3>1. closed /\ UNCHANGED <<pool, waiters>> /\ active' \in Int
      BY <1>0, <2>3 DEF PutClosed
    <3> QED
      BY <1>0, <2>1, <3>1, FreesNothing
  <2>4. CASE PutExpired(c)
    BY <1>0, <2>1, <2>2, <2>4, FreesAndWakes DEF PutExpired
  <2>5. CASE PutFresh(c)
    <3>1. active' = active /\ HandOffOrPark(held[c])
      BY <2>5 DEF PutFresh
    <3>2. CASE Send(held[c]) /\ UNCHANGED pool
      <4>1. Sig(chan, pc) \subseteq Sig(chan', pc) /\ waiters # <<>>
        BY <1>0, <3>2, SigHandOff DEF Send
      <4> QED
        BY <1>0, <2>1, <2>2, <3>1, <3>2, <4>1, FreesNothing
    <3>3. CASE waiters' = <<>>
      BY <3>3 DEF WakeInv
    <3> QED
      BY <3>1, <3>2, <3>3 DEF HandOffOrPark
  <2> QED
    BY <1>10, <2>3, <2>4, <2>5 DEF putConn
<1>11. ASSUME NEW c \in Callers, removeConn(c) PROVE WakeInv'
  <2>1. /\ closed' = closed /\ pool' = pool /\ active' = active - 1
        /\ pc[c] \notin {"retry", "forward"} /\ Goto(c, "idle")
    BY <1>11 DEF removeConn, Release
  <2>2. Sig(chan', pc) \subseteq Sig(chan', pc')
    BY <1>0, <2>1, SigLeave
  <2>3. CASE closed /\ UNCHANGED waiters
    BY <1>0, <2>1, <2>3, FreesNothing
  <2>4. CASE wakeOneWaiterLocked
    BY <1>0, <2>1, <2>2, <2>4, FreesAndWakes
  <2> QED
    BY <1>11, <2>3, <2>4 DEF removeConn
<1>12. ASSUME NEW t \in Background, dialIdle(t) PROVE WakeInv'
  <2>0. pc' = pc /\ closed' = closed
    BY <1>12 DEF dialIdle, DialIdleReserve, DialIdleFailed, DialIdleDone
  <2>1. CASE DialIdleReserve(t)
    <3>1. UNCHANGED <<pool, waiters, chan>> /\ active' \in {active, active + 1}
      BY <2>1 DEF DialIdleReserve
    <3> QED
      BY <1>0, <2>0, <3>1, FreesNothing
  <2>2. CASE DialIdleFailed(t)
    BY <1>0, <2>0, <2>2, FreesAndWakes DEF DialIdleFailed
  <2>3. CASE DialIdleDone(t)
    <3>1. PICK cn \in Conns \ open :
            \/ closed /\ active' = active - 1 /\ UNCHANGED <<pool, waiters, chan>>
            \/ HandOffOrPark(cn) /\ active' = active
      BY <2>3 DEF DialIdleDone
    <3>2. CASE closed /\ active' = active - 1 /\ UNCHANGED <<pool, waiters, chan>>
      BY <1>0, <2>0, <3>2, FreesNothing
    <3>3. CASE Send(cn) /\ UNCHANGED pool /\ active' = active
      <4>1. Sig(chan, pc) \subseteq Sig(chan', pc) /\ waiters # <<>>
        BY <1>0, <3>3, SigHandOff DEF Send
      <4> QED
        BY <1>0, <2>0, <3>3, <4>1, FreesNothing
    <3>4. CASE waiters' = <<>>
      BY <3>4 DEF WakeInv
    <3> QED
      BY <3>1, <3>2, <3>3, <3>4 DEF HandOffOrPark
  <2> QED
    BY <1>12, <2>1, <2>2, <2>3 DEF dialIdle
<1>13. CASE reapStaleConns
  <2>1. UNCHANGED <<waiters, closed, chan, pc>>
    BY <1>13 DEF reapStaleConns
  <2>2. pool = {} => pool' = {} /\ active' = active
    <3>1. pool = {} => pool \cap expired = {} /\ pool \ expired = {}
      OBVIOUS
    <3> QED
      BY <1>0, <1>13, <3>1, FS_EmptySet DEF reapStaleConns
  <2> QED
    BY <2>1, <2>2 DEF WakeInv
<1>14. CASE ensureMinIdle \/ ReaperExit
  BY <1>14 DEF ensureMinIdle, ReaperExit, WakeInv
<1>15. ASSUME NEW t \in Threads, closeAll(t) PROVE WakeInv'
  BY <1>15 DEF closeAll, WakeInv
<1>16. ASSUME NEW cn \in Conns, Expire(cn) PROVE WakeInv'
  BY <1>16 DEF Expire, WakeInv
<1>17. ASSUME NEW k \in Closers, Close(k) PROVE WakeInv'
  BY <1>17 DEF Close, WakeInv
<1>18. ASSUME NEW k \in Closers, Teardown(k) PROVE WakeInv'
  BY <1>18 DEF Teardown, WakeInv
<1>19. CASE UNCHANGED vars
  BY <1>19 DEF vars, WakeInv
<1> QED
  BY <1>1, <1>2, <1>3, <1>4, <1>5, <1>6, <1>7, <1>8, <1>9, <1>10, <1>11, <1>12, <1>13,
     <1>14, <1>15, <1>16, <1>17, <1>18, <1>19
  DEF Next, CallerStep, getConn, dialConn, abandonWaiter

\* No caller sleeps in the queue while a connection lies idle or a slot is free
\* that nobody was told of.
THEOREM NoLostWakeupAlways == Spec => []NoLostWakeup
<1>1. WakeInv => NoLostWakeup
  BY DEF WakeInv, NoLostWakeup, Signalled, Sig
<1> QED
  BY <1>1, TypeInvAlways, QueueInvAlways, WakeInvInit, WakeInvStep, PTL DEF Spec

=============================================================================
