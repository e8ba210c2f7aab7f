-------------------------- MODULE IdleClockProofs --------------------------
(***************************************************************************)
(* What holds of expiry for every Option, every set of callers and         *)
(* connections, and every reaperInterval.                                  *)
(***************************************************************************)
EXTENDS IdleClock, SequenceTheorems, TLAPS

-----------------------------------------------------------------------------
(* Options.                                                                *)

\* A limit is a number of time units, 0 when it is disabled.
LEMMA Limits ==
    ASSUME option \in OptionSet
    PROVE  /\ idleTimeout \in Nat /\ maxConnAge \in Nat
           /\ reaperInterval \in Nat \ {0}
BY DefaultsAssumption, OptionsAssumption
   DEF idleTimeout, maxConnAge, Resolve, opts, Create

\* The client's limits stay what they are.
LEMMA SameLimits ==
    ASSUME UNCHANGED option
    PROVE  idleTimeout' = idleTimeout /\ maxConnAge' = maxConnAge
BY DEF idleTimeout, maxConnAge, Resolve, opts, Create

\* What isExpired says is what the documentation of Options says.
LEMMA ExpiredMeans ==
    ASSUME option \in OptionSet, NEW cn \in Conns, isExpired(cn)
    PROVE  \/ /\ option.IdleTimeout >= 0
              /\ Outlived(used[cn], option.IdleTimeout, defaultIdleTimeout)
           \/ /\ option.MaxConnAge >= 0
              /\ Outlived(age[cn], option.MaxConnAge, defaultMaxConnAge)
BY DefaultsAssumption, OptionsAssumption
   DEF isExpired, Outlived, idleTimeout, maxConnAge, Resolve, opts, Create

-----------------------------------------------------------------------------
(* Sequences.                                                              *)

Distinct(s) == \A i, j \in 1..Len(s) : s[i] = s[j] => i = j

\* t has elements of s, those at the positions at, each position once.
Picks(t, s, at) ==
    /\ at \in [1..Len(t) -> 1..Len(s)]
    /\ \A i, j \in 1..Len(t) : at[i] = at[j] => i = j
    /\ \A i \in 1..Len(t) : t[i] = s[at[i]]

LEMMA PicksDistinct ==
    ASSUME NEW s, NEW t, NEW at, Picks(t, s, at), Distinct(s)
    PROVE  /\ Distinct(t)
           /\ \A k \in 1..Len(s) : k \notin Range(at) =>
                \A i \in 1..Len(t) : t[i] # s[k]
<1>1. \A i \in 1..Len(t) : at[i] \in 1..Len(s) /\ t[i] = s[at[i]]
  BY DEF Picks
<1>2. Distinct(t)
  <2>1. SUFFICES ASSUME NEW i \in 1..Len(t), NEW j \in 1..Len(t), t[i] = t[j]
                 PROVE  i = j
    BY DEF Distinct
  <2>2. at[i] = at[j]
    BY <1>1, <2>1 DEF Distinct
  <2> QED
    BY <2>2 DEF Picks
<1>3. ASSUME NEW k \in 1..Len(s), k \notin Range(at), NEW i \in 1..Len(t), t[i] = s[k]
      PROVE  FALSE
  <2>1. at[i] = k
    BY <1>1, <1>3 DEF Distinct
  <2>2. at[i] \in Range(at)
    BY DEF Picks, Range
  <2> QED
    BY <1>3, <2>1, <2>2
<1> QED
  BY <1>2, <1>3

\* Popping the head.
LEMMA TailPicks ==
    ASSUME NEW S, NEW s \in Seq(S), s # <<>>, Distinct(s)
    PROVE  /\ Tail(s) \in Seq(S) /\ Head(s) \in S
           /\ Len(s) >= 1 /\ Head(s) = s[1]
           /\ Distinct(Tail(s))
           /\ \A i \in 1..Len(Tail(s)) :
                Tail(s)[i] # Head(s) /\ \E j \in 1..Len(s) : Tail(s)[i] = s[j]
<1>1. /\ Tail(s) \in Seq(S) /\ Head(s) \in S /\ Head(s) = s[1]
      /\ Len(s) \in Nat /\ Len(s) >= 1
      /\ Len(Tail(s)) = Len(s) - 1
      /\ \A i \in 1..Len(Tail(s)) : Tail(s)[i] = s[i + 1]
  OBVIOUS
<1>2. Distinct(Tail(s))
  BY <1>1 DEF Distinct
<1>3. ASSUME NEW i \in 1..Len(Tail(s))
      PROVE  Tail(s)[i] # Head(s) /\ Tail(s)[i] = s[i + 1] /\ i + 1 \in 1..Len(s)
  BY <1>1 DEF Distinct
<1> QED
  BY <1>1, <1>2, <1>3

\* s without its k-th element, as abandonWaiter builds it.
Without(s, k) == SubSeq(s, 1, k - 1) \o SubSeq(s, k + 1, Len(s))

\* Taking out one element in the middle.
LEMMA WithoutPicks ==
    ASSUME NEW S, NEW s \in Seq(S), NEW k \in 1..Len(s), Distinct(s)
    PROVE  /\ Without(s, k) \in Seq(S)
           /\ Distinct(Without(s, k))
           /\ \A i \in 1..Len(Without(s, k)) :
                /\ Without(s, k)[i] # s[k]
                /\ \E j \in 1..Len(s) : Without(s, k)[i] = s[j]
<1> DEFINE a == SubSeq(s, 1, k - 1)
           b == SubSeq(s, k + 1, Len(s))
           w == Without(s, k)
           at == [i \in 1..Len(w) |-> IF i < k THEN i ELSE i + 1]
<1>1. /\ Len(s) \in Nat
      /\ a \in Seq(S) /\ Len(a) = k - 1 /\ \A j \in 1..(k - 1) : a[j] = s[j]
      /\ b \in Seq(S) /\ Len(b) = Len(s) - k
      /\ \A j \in 1..(Len(s) - k) : b[j] = s[k + j]
  BY SubSeqProperties
<1>2. /\ w \in Seq(S) /\ Len(w) = Len(a) + Len(b)
      /\ \A j \in 1..(Len(a) + Len(b)) :
           w[j] = IF j <= Len(a) THEN a[j] ELSE b[j - Len(a)]
  BY <1>1, ConcatProperties DEF Without
<1> HIDE DEF a, b, w
<1>3. Len(w) = Len(s) - 1
  BY <1>1, <1>2
<1>4. ASSUME NEW i \in 1..Len(w)
      PROVE  at[i] \in 1..Len(s) /\ at[i] # k /\ w[i] = s[at[i]]
  <2>1. CASE i < k
    BY <1>1, <1>2, <1>3, <2>1
  <2>2. CASE ~(i < k)
    <3>1. i - Len(a) \in 1..(Len(s) - k) /\ k + (i - Len(a)) = i + 1
      BY <1>1, <1>2, <1>3, <2>2
    <3> QED
      BY <1>1, <1>2, <1>3, <2>2, <3>1
  <2> QED
    BY <2>1, <2>2
<1>5. Picks(w, s, at)
  <2>1. \A i, j \in 1..Len(w) : at[i] = at[j] => i = j
    BY <1>1, <1>3
  <2> HIDE DEF at
  <2>2. at \in [1..Len(w) -> 1..Len(s)]
    BY <1>4 DEF at
  <2> QED
    BY <1>4, <2>1, <2>2 DEF Picks
<1>6. k \notin Range(at)
  <2>1. DOMAIN at = 1..Len(w)
    OBVIOUS
  <2> HIDE DEF at
  <2> QED
    BY <1>4, <2>1 DEF Range
<1> HIDE DEF at
<1>7. Distinct(w) /\ \A i \in 1..Len(w) : w[i] # s[k]
  BY <1>5, <1>6, PicksDistinct
<1>8. \A i \in 1..Len(w) : \E j \in 1..Len(s) : w[i] = s[j]
  BY <1>4
<1> QED
  BY <1>2, <1>7, <1>8 DEF w

-----------------------------------------------------------------------------
(* Types.                                                                  *)

Locations == {"idle", "retry", "wait", "dial", "init", "use"}

\* A caller has a connection exactly while it sets one up or uses it, and so
\* has the reaper.
HeldInv ==
    /\ \A c \in Callers : held[c] \in Conns <=> pc[c] \in {"init", "use"}
    /\ bgHeld \in Conns <=> bg = "init"

\* The queue holds waiting callers, each once: whoever is popped from it has no
\* connection that the one it gets could replace.
QueueInv ==
    /\ Distinct(waiters)
    /\ \A i \in 1..Len(waiters) : pc[waiters[i]] = "wait"

TypeInv == TypeOK /\ HeldInv /\ QueueInv

\* A caller other than those queued moves to where nobody queues.
LEMMA OthersQueue ==
    ASSUME TypeInv, NEW c \in Callers, pc[c] # "wait", NEW l \in Locations, Goto(c, l),
           UNCHANGED waiters
    PROVE  QueueInv'
BY DEF TypeInv, TypeOK, QueueInv, Goto, Distinct, Locations

\* The end of a call that wakes the head waiter.
LEMMA WakeTyped ==
    ASSUME TypeInv, NEW c \in Callers \cup {NoConn}, c \in Callers => pc[c] # "wait",
           WakeOneAndLeave(c)
    PROVE  /\ waiters' \in Seq(Callers) /\ pc' \in [Callers -> Locations]
           /\ QueueInv'
           /\ \A d \in Callers : d # c =>
                pc'[d] = pc[d] \/ (pc[d] = "wait" /\ pc'[d] = "retry")
           /\ c \in Callers => pc'[c] = "idle"
<1>1. CASE waiters = <<>>
  BY <1>1 DEF TypeInv, TypeOK, QueueInv, WakeOneAndLeave, Locations, Distinct
<1>2. CASE waiters # <<>>
  <2>1. /\ waiters \in Seq(Callers) /\ Distinct(waiters) /\ waiters' = Tail(waiters)
        /\ pc \in [Callers -> Locations] /\ \A i \in 1..Len(waiters) : pc[waiters[i]] = "wait"
        /\ pc' = [d \in Callers |-> IF d = c THEN "idle"
                                    ELSE IF d = Head(waiters) THEN "retry" ELSE pc[d]]
    BY <1>2 DEF TypeInv, TypeOK, QueueInv, WakeOneAndLeave, Locations
  <2>2. /\ waiters' \in Seq(Callers) /\ Head(waiters) \in Callers
        /\ Distinct(waiters') /\ pc[Head(waiters)] = "wait"
        /\ \A i \in 1..Len(waiters') :
             waiters'[i] # Head(waiters) /\ \E j \in 1..Len(waiters) : waiters'[i] = waiters[j]
    BY <1>2, <2>1, TailPicks
  <2>3. \A i \in 1..Len(waiters') : waiters'[i] \in Callers /\ pc'[waiters'[i]] = "wait"
    BY <2>1, <2>2
  <2> QED
    BY <2>1, <2>2, <2>3 DEF QueueInv, Locations, Distinct
<1> QED
  BY <1>1, <1>2

\* The head waiter gets a connection.
LEMMA HandOffTyped ==
    ASSUME TypeInv, waiters # <<>>, waiters' = Tail(waiters)
    PROVE  /\ waiters' \in Seq(Callers) /\ Distinct(waiters')
           /\ Head(waiters) \in Callers /\ pc[Head(waiters)] = "wait"
           /\ \A i \in 1..Len(waiters') :
                /\ waiters'[i] \in Callers /\ waiters'[i] # Head(waiters)
                /\ pc[waiters'[i]] = "wait"
BY TailPicks DEF TypeInv, TypeOK, QueueInv

\* Clocks stay within their range.
LEMMA ClocksTyped ==
    ASSUME TypeOK, NEW D, Drop(D), UNCHANGED option
    PROVE  /\ age' \in [Conns -> 0..(maxConnAge' + reaperInterval)]
           /\ used' \in [Conns -> 0..(idleTimeout' + reaperInterval)]
BY Limits, SameLimits DEF TypeOK, Drop

LEMMA BoundedIn ==
    ASSUME NEW n \in Nat, NEW limit \in Nat
    PROVE  Bounded(n, limit) \in 0..(limit + reaperInterval) /\ Bounded(n, limit) <= n
<1>1. reaperInterval \in Nat
  BY DefaultsAssumption
<1> QED
  BY <1>1 DEF Bounded

\* The tick after the last phase starts over.
LEMMA NextPhase ==
    ASSUME NEW n \in Nat \ {0}, NEW p \in 0..(n - 1)
    PROVE  (p + 1) % n = IF p + 1 = n THEN 0 ELSE p + 1
OBVIOUS

LEMMA TypeInit ==
    ASSUME Init
    PROVE  TypeInv
<1>1. TypeOK
  <2>1. /\ option \in OptionSet
        /\ idleTimeout \in Nat /\ maxConnAge \in Nat /\ reaperInterval \in Nat \ {0}
    BY Limits DEF Init
  <2>2. 0 \in 0..(maxConnAge + reaperInterval) /\ 0 \in 0..(idleTimeout + reaperInterval)
    BY <2>1
  <2>3. /\ age \in [Conns -> 0..(maxConnAge + reaperInterval)]
        /\ used \in [Conns -> 0..(idleTimeout + reaperInterval)]
    <3>1. age = [cn \in Conns |-> 0] /\ used = [cn \in Conns |-> 0]
      BY DEF Init
    <3> QED
      BY <2>2, <3>1
  <2>4. /\ pool \in Seq(Conns) /\ waiters \in Seq(Callers)
        /\ phase \in 0..(reaperInterval - 1) /\ ticked \in BOOLEAN
    <3>1. pool = <<>> /\ waiters = <<>> /\ phase = 0 /\ ticked = FALSE
      BY DEF Init
    <3>2. 0 \in 0..(reaperInterval - 1)
      BY <2>1
    <3>3. ticked \in BOOLEAN
      BY <3>1
    <3> QED
      BY <3>1, <3>2, <3>3
  <2> QED
    BY <2>1, <2>3, <2>4 DEF Init, TypeOK
<1>2. HeldInv /\ QueueInv
  BY IdentitiesAssumption DEF Init, HeldInv, QueueInv, Distinct
<1> QED
  BY <1>1, <1>2 DEF TypeInv

LEMMA TypeAdvance ==
    ASSUME TypeInv, Advance
    PROVE  TypeInv'
<1>1. /\ idleTimeout' = idleTimeout /\ maxConnAge' = maxConnAge
      /\ idleTimeout \in Nat /\ maxConnAge \in Nat /\ reaperInterval \in Nat \ {0}
  BY Limits, SameLimits DEF TypeInv, TypeOK, Advance
<1>2. age' \in [Conns -> 0..(maxConnAge + reaperInterval)]
  <2>1. ASSUME NEW cn \in Conns
        PROVE  Bounded(age[cn] + 1, maxConnAge) \in 0..(maxConnAge + reaperInterval)
    <3>1. age[cn] + 1 \in Nat
      BY <1>1 DEF TypeInv, TypeOK
    <3> QED
      BY <1>1, <3>1, BoundedIn
  <2> QED
    BY <1>1, <2>1 DEF Advance
<1>3. used' \in [Conns -> 0..(idleTimeout + reaperInterval)]
  <2>1. ASSUME NEW cn \in Conns
        PROVE  Bounded(used[cn] + 1, idleTimeout) \in 0..(idleTimeout + reaperInterval)
    <3>1. used[cn] + 1 \in Nat
      BY <1>1 DEF TypeInv, TypeOK
    <3> QED
      BY <1>1, <3>1, BoundedIn
  <2> QED
    BY <1>1, <2>1 DEF Advance
<1>4. phase' \in 0..(reaperInterval - 1) /\ ticked' \in BOOLEAN
  BY <1>1, NextPhase DEF Advance, TypeInv, TypeOK
<1>5. TypeOK'
  BY <1>1, <1>2, <1>3, <1>4 DEF Advance, TypeInv, TypeOK, bgVars
<1>6. HeldInv' /\ QueueInv'
  BY DEF Advance, TypeInv, HeldInv, QueueInv, bgVars
<1> QED
  BY <1>5, <1>6 DEF TypeInv

LEMMA TypeGetConn ==
    ASSUME TypeInv, NEW c \in Callers, getConn(c)
    PROVE  TypeInv'
<1>1. /\ pc[c] \in {"idle", "retry"} /\ UNCHANGED <<option, bg, bgHeld, phase, ticked>>
      /\ Reuse(c) \/ ReserveOrQueue(c)
  BY DEF getConn, bgVars, timeVars
<1>2. /\ idleTimeout' = idleTimeout /\ maxConnAge' = maxConnAge
      /\ idleTimeout \in Nat /\ maxConnAge \in Nat /\ reaperInterval \in Nat \ {0}
  BY <1>1, Limits, SameLimits DEF TypeInv, TypeOK
<1>3. CASE Reuse(c)
  <2>1. PICK k \in 1..Len(pool) :
          /\ pool' = SubSeq(pool, 1, k - 1)
          /\ held' = [held EXCEPT ![c] = pool[k]]
          /\ age' = [cn \in Conns |-> IF \E i \in (k + 1)..Len(pool) : pool[i] = cn
                                        THEN 0 ELSE age[cn]]
          /\ used' = [cn \in Conns |-> IF \E i \in k..Len(pool) : pool[i] = cn
                                         THEN 0 ELSE used[cn]]
    BY <1>3 DEF Reuse
  <2>2. pool \in Seq(Conns) /\ Len(pool) \in Nat /\ pool[k] \in Conns /\ pool' \in Seq(Conns)
    BY <2>1, SubSeqProperties DEF TypeInv, TypeOK
  <2>3. /\ age' \in [Conns -> 0..(maxConnAge + reaperInterval)]
        /\ used' \in [Conns -> 0..(idleTimeout + reaperInterval)]
    <3>1. /\ \A cn \in Conns : age[cn] \in 0..(maxConnAge + reaperInterval)
          /\ \A cn \in Conns : used[cn] \in 0..(idleTimeout + reaperInterval)
      BY DEF TypeInv, TypeOK
    <3>2. 0 \in 0..(maxConnAge + reaperInterval) /\ 0 \in 0..(idleTimeout + reaperInterval)
      BY <1>2
    <3>3. age' \in [Conns -> 0..(maxConnAge + reaperInterval)]
      BY <2>1, <3>1, <3>2
    <3>4. used' \in [Conns -> 0..(idleTimeout + reaperInterval)]
      BY <2>1, <3>1, <3>2
    <3> QED
      BY <3>3, <3>4
  <2>4. Goto(c, "use") /\ UNCHANGED waiters
    BY <1>3 DEF Reuse
  <2>5. TypeOK'
    BY <1>1, <1>2, <2>1, <2>2, <2>3, <2>4 DEF TypeInv, TypeOK, Goto
  <2>6. HeldInv'
    BY <1>1, <2>1, <2>2, <2>4 DEF TypeInv, TypeOK, HeldInv, Goto
  <2> QED
    BY <1>1, <2>4, <2>5, <2>6, OthersQueue DEF TypeInv, Locations
<1>4. CASE ReserveOrQueue(c)
  <2>1. pool' = <<>> /\ Drop(Parked) /\ UNCHANGED held
    BY <1>4 DEF ReserveOrQueue
  <2>2. /\ age' \in [Conns -> 0..(maxConnAge' + reaperInterval)]
        /\ used' \in [Conns -> 0..(idleTimeout' + reaperInterval)]
    BY <1>1, <2>1, ClocksTyped DEF TypeInv
  <2>3. pool' \in Seq(Conns)
    BY <2>1
  <2>4. CASE Goto(c, "dial") /\ UNCHANGED waiters
    <3>1. TypeOK'
      BY <1>1, <1>2, <2>1, <2>2, <2>3, <2>4 DEF TypeInv, TypeOK, Goto
    <3>2. HeldInv'
      BY <1>1, <2>1, <2>4 DEF TypeInv, TypeOK, HeldInv, Goto
    <3> QED
      BY <1>1, <2>4, <3>1, <3>2, OthersQueue DEF TypeInv, Locations
  <2>5. CASE Goto(c, "wait") /\ waiters' = Append(waiters, c)
    <3>1. waiters' \in Seq(Callers)
      BY <2>5 DEF TypeInv, TypeOK
    <3>2. TypeOK'
      BY <1>1, <1>2, <2>1, <2>2, <2>3, <2>5, <3>1 DEF TypeInv, TypeOK, Goto
    <3>3. HeldInv'
      BY <1>1, <2>1, <2>5 DEF TypeInv, TypeOK, HeldInv, Goto
    <3>4. /\ Len(waiters) \in Nat /\ Len(waiters') = Len(waiters) + 1
          /\ \A i \in 1..Len(waiters) : waiters'[i] = waiters[i] /\ waiters[i] \in Callers
          /\ waiters'[Len(waiters) + 1] = c
      BY <2>5 DEF TypeInv, TypeOK
    <3>5. /\ \A i \in 1..Len(waiters) : pc[waiters[i]] = "wait"
          /\ pc[c] # "wait" /\ pc' = [pc EXCEPT ![c] = "wait"]
          /\ pc \in [Callers -> Locations] /\ Distinct(waiters)
      BY <1>1, <2>5 DEF TypeInv, TypeOK, QueueInv, Goto, Locations
    <3>6. QueueInv'
      BY <3>4, <3>5 DEF QueueInv, Distinct
    <3> QED
      BY <3>2, <3>3, <3>6 DEF TypeInv
  <2> QED
    BY <1>4, <2>4, <2>5 DEF ReserveOrQueue
<1> QED
  BY <1>1, <1>3, <1>4

LEMMA TypeConnected ==
    ASSUME TypeInv, NEW c \in Callers, Connected(c) \/ InitDone(c)
    PROVE  TypeInv'
<1>1. /\ UNCHANGED <<option, pool, waiters, bg, bgHeld, age, used, phase, ticked>>
      /\ idleTimeout' = idleTimeout /\ maxConnAge' = maxConnAge
  BY SameLimits DEF Connected, InitDone, bgVars, timeVars
<1>2. CASE Connected(c)
  <2>1. NewConn \in Conns
    BY <1>2 DEF NewConn, Connected
  <2>2. /\ pc[c] = "dial" /\ Goto(c, "init")
        /\ held' = [held EXCEPT ![c] = NewConn]
    BY <1>2 DEF Connected
  <2>3. TypeOK'
    BY <1>1, <2>1, <2>2 DEF TypeInv, TypeOK, Goto
  <2>4. HeldInv'
    BY <1>1, <2>1, <2>2 DEF TypeInv, TypeOK, HeldInv, Goto
  <2> QED
    BY <1>1, <2>2, <2>3, <2>4, OthersQueue DEF TypeInv, Locations
<1>3. CASE InitDone(c)
  <2>1. pc[c] = "init" /\ Goto(c, "use") /\ UNCHANGED held
    BY <1>3 DEF InitDone
  <2>2. TypeOK'
    BY <1>1, <2>1 DEF TypeInv, TypeOK, Goto
  <2>3. HeldInv'
    BY <1>1, <2>1 DEF TypeInv, TypeOK, HeldInv, Goto
  <2> QED
    BY <1>1, <2>1, <2>2, <2>3, OthersQueue DEF TypeInv, Locations
<1> QED
  BY <1>2, <1>3

\* A call ends without giving its connection back.
LEMMA TypeGivenUp ==
    ASSUME TypeInv, NEW c \in Callers, pc[c] \in {"dial", "init", "use"},
           Drop({held[c]}), held' = [held EXCEPT ![c] = NoConn], WakeOneAndLeave(c),
           UNCHANGED <<option, pool, bg, bgHeld, phase, ticked>>
    PROVE  TypeInv'
<1>1. /\ idleTimeout' = idleTimeout /\ maxConnAge' = maxConnAge
      /\ age' \in [Conns -> 0..(maxConnAge' + reaperInterval)]
      /\ used' \in [Conns -> 0..(idleTimeout' + reaperInterval)]
  BY SameLimits, ClocksTyped DEF TypeInv
<1>2. /\ waiters' \in Seq(Callers) /\ pc' \in [Callers -> Locations]
      /\ QueueInv'
      /\ \A d \in Callers : d # c =>
           pc'[d] = pc[d] \/ (pc[d] = "wait" /\ pc'[d] = "retry")
      /\ pc'[c] = "idle"
  BY WakeTyped
<1>3. TypeOK'
  BY <1>1, <1>2 DEF TypeInv, TypeOK, Locations
<1>4. HeldInv'
  BY <1>2, IdentitiesAssumption DEF TypeInv, TypeOK, HeldInv
<1> QED
  BY <1>2, <1>3, <1>4 DEF TypeInv

LEMMA TypeAbandon ==
    ASSUME TypeInv, NEW c \in Callers, abandonWaiter(c)
    PROVE  TypeInv'
<1>1. PICK k \in 1..Len(waiters) : waiters[k] = c /\ waiters' = Without(waiters, k)
  BY DEF abandonWaiter, Without
<1>2. /\ waiters' \in Seq(Callers) /\ Distinct(waiters')
      /\ \A i \in 1..Len(waiters') :
           waiters'[i] # c /\ \E j \in 1..Len(waiters) : waiters'[i] = waiters[j]
  BY <1>1, WithoutPicks DEF TypeInv, TypeOK, QueueInv
<1>3. /\ pc[c] = "wait" /\ Goto(c, "idle")
      /\ UNCHANGED <<option, pool, held, bg, bgHeld, age, used, phase, ticked>>
      /\ idleTimeout' = idleTimeout /\ maxConnAge' = maxConnAge
  BY SameLimits DEF abandonWaiter, bgVars, timeVars
<1>4. TypeOK'
  BY <1>2, <1>3 DEF TypeInv, TypeOK, Goto
<1>5. HeldInv'
  BY <1>3 DEF TypeInv, TypeOK, HeldInv, Goto
<1>6. ASSUME NEW i \in 1..Len(waiters')
      PROVE  pc'[waiters'[i]] = "wait"
  <2>1. PICK j \in 1..Len(waiters) : waiters'[i] = waiters[j]
    BY <1>2
  <2>2. pc[waiters[j]] = "wait" /\ waiters[j] # c /\ waiters[j] \in Callers
    BY <1>2, <2>1 DEF TypeInv, TypeOK, QueueInv
  <2> QED
    BY <1>3, <2>1, <2>2 DEF Goto, TypeInv, TypeOK
<1> QED
  BY <1>2, <1>4, <1>5, <1>6 DEF TypeInv, QueueInv, Distinct

LEMMA TypePutConn ==
    ASSUME TypeInv, NEW c \in Callers, putConn(c)
    PROVE  TypeInv'
<1>1. /\ pc[c] = "use" /\ UNCHANGED <<option, bg, bgHeld, phase, ticked>>
      /\ PutExpired(c) \/ PutHandOff(c) \/ PutParked(c)
  BY DEF putConn, bgVars, timeVars
<1>2. /\ idleTimeout' = idleTimeout /\ maxConnAge' = maxConnAge
      /\ idleTimeout \in Nat /\ reaperInterval \in Nat
      /\ held[c] \in Conns
  BY <1>1, Limits, SameLimits DEF TypeInv, TypeOK, HeldInv
<1>3. CASE PutExpired(c)
  BY <1>1, <1>3, TypeGivenUp DEF PutExpired
<1>4. CASE PutHandOff(c)
  <2> DEFINE h == Head(waiters)
  <2>1. /\ waiters # <<>> /\ waiters' = Tail(waiters)
        /\ held' = [held EXCEPT ![c] = NoConn, ![h] = held[c]]
        /\ pc' = [pc EXCEPT ![c] = "idle", ![h] = "use"]
        /\ used' = [used EXCEPT ![held[c]] = 0]
        /\ UNCHANGED <<pool, age>>
    BY <1>4 DEF PutHandOff
  <2>2. /\ waiters' \in Seq(Callers) /\ Distinct(waiters')
        /\ h \in Callers /\ pc[h] = "wait"
        /\ \A i \in 1..Len(waiters') :
             /\ waiters'[i] \in Callers /\ waiters'[i] # h
             /\ pc[waiters'[i]] = "wait"
    BY <2>1, HandOffTyped
  <2> HIDE DEF h
  <2>3. used' \in [Conns -> 0..(idleTimeout + reaperInterval)]
    <3>1. 0 \in 0..(idleTimeout + reaperInterval)
      BY <1>2
    <3> QED
      BY <2>1, <3>1 DEF TypeInv, TypeOK
  <2>4. TypeOK'
    BY <1>1, <1>2, <2>1, <2>2, <2>3 DEF TypeInv, TypeOK
  <2>5. HeldInv'
    BY <1>1, <1>2, <2>1, <2>2, IdentitiesAssumption DEF TypeInv, TypeOK, HeldInv
  <2>6. QueueInv'
    BY <1>1, <2>1, <2>2 DEF QueueInv, Distinct, TypeInv, TypeOK
  <2> QED
    BY <2>4, <2>5, <2>6 DEF TypeInv
<1>5. CASE PutParked(c)
  <2>1. /\ pool' = Append(pool, held[c]) /\ held' = [held EXCEPT ![c] = NoConn]
        /\ Goto(c, "idle") /\ UNCHANGED <<waiters, age, used>>
    BY <1>5 DEF PutParked
  <2>2. pool' \in Seq(Conns)
    BY <1>2, <2>1 DEF TypeInv, TypeOK
  <2>3. TypeOK'
    BY <1>1, <1>2, <2>1, <2>2 DEF TypeInv, TypeOK, Goto
  <2>4. HeldInv'
    BY <1>1, <2>1, IdentitiesAssumption DEF TypeInv, TypeOK, HeldInv, Goto
  <2> QED
    BY <1>1, <2>1, <2>3, <2>4, OthersQueue DEF TypeInv, Locations
<1> QED
  BY <1>1, <1>3, <1>4, <1>5

\* The connections that stay after a tick.
LEMMA Reaped ==
    ASSUME TypeInv, reapStaleConns
    PROVE  /\ pool' \in Seq(Conns)
           /\ \A i \in 1..Len(pool') :
                \E j \in 1..Len(pool) : Stays(pool[j]) /\ pool'[i] = pool[j]
           /\ \A j \in 1..Len(pool) :
                Stays(pool[j]) => \E i \in 1..Len(pool') : pool'[i] = pool[j]
<1>0. PICK n \in 0..Len(pool) : \E at \in [1..n -> 1..Len(pool)] :
        /\ Range(at) = {i \in 1..Len(pool) : Stays(pool[i])}
        /\ pool' = [i \in 1..n |-> pool[at[i]]]
  BY DEF reapStaleConns
<1>1. PICK at \in [1..n -> 1..Len(pool)] :
        /\ Range(at) = {i \in 1..Len(pool) : Stays(pool[i])}
        /\ pool' = [i \in 1..n |-> pool[at[i]]]
  BY <1>0
<1>2. /\ pool \in Seq(Conns) /\ Len(pool) \in Nat /\ n \in Nat
      /\ \A i \in 1..n : at[i] \in Range(at)
  BY DEF TypeInv, TypeOK, Range
<1>3. \A i \in 1..n : pool[at[i]] \in Conns
  BY <1>2
<1>4. pool' \in Seq(Conns) /\ Len(pool') = n
  BY <1>1, <1>2, <1>3
<1>5. ASSUME NEW i \in 1..Len(pool')
      PROVE  \E j \in 1..Len(pool) : Stays(pool[j]) /\ pool'[i] = pool[j]
  <2>1. at[i] \in {k \in 1..Len(pool) : Stays(pool[k])} /\ pool'[i] = pool[at[i]]
    BY <1>1, <1>2, <1>4
  <2> QED
    BY <2>1
<1>6. ASSUME NEW j \in 1..Len(pool), Stays(pool[j])
      PROVE  \E i \in 1..Len(pool') : pool'[i] = pool[j]
  <2>1. j \in Range(at)
    BY <1>1, <1>6
  <2>2. PICK i \in 1..n : at[i] = j
    BY <2>1 DEF Range
  <2> QED
    BY <1>1, <1>4, <2>2
<1> QED
  BY <1>4, <1>5, <1>6

LEMMA TypeReap ==
    ASSUME TypeInv, reapStaleConns
    PROVE  TypeInv'
<1>1. /\ bg = "wait" /\ bg' = "ensure" /\ ticked' = FALSE
      /\ Drop({cn \in Parked : ~Stays(cn)})
      /\ UNCHANGED <<option, waiters, pc, held, bgHeld, phase>>
  BY DEF reapStaleConns
<1>2. /\ idleTimeout' = idleTimeout /\ maxConnAge' = maxConnAge
      /\ age' \in [Conns -> 0..(maxConnAge' + reaperInterval)]
      /\ used' \in [Conns -> 0..(idleTimeout' + reaperInterval)]
  BY <1>1, SameLimits, ClocksTyped DEF TypeInv
<1>3. pool' \in Seq(Conns)
  BY Reaped
<1>4. TypeOK'
  BY <1>1, <1>2, <1>3 DEF TypeInv, TypeOK
<1>5. HeldInv' /\ QueueInv'
  BY <1>1 DEF TypeInv, HeldInv, QueueInv
<1> QED
  BY <1>4, <1>5 DEF TypeInv

LEMMA TypeEnsure ==
    ASSUME TypeInv, ensureMinIdle \/ DialIdleReserve \/ DialIdleConnected
    PROVE  TypeInv'
<1>1. /\ UNCHANGED <<option, pool, waiters, pc, held, age, used, phase, ticked>>
      /\ idleTimeout' = idleTimeout /\ maxConnAge' = maxConnAge
  BY SameLimits DEF ensureMinIdle, DialIdleReserve, DialIdleConnected, timeVars
<1>2. /\ bg' \in {"wait", "ensure", "reserve", "dial", "init"}
      /\ bgHeld' \in Conns \cup {NoConn}
      /\ bgHeld' \in Conns <=> bg' = "init"
  <2>1. CASE ensureMinIdle
    BY <2>1 DEF ensureMinIdle, TypeInv, TypeOK, HeldInv
  <2>2. CASE DialIdleReserve
    BY <2>2 DEF DialIdleReserve, TypeInv, TypeOK, HeldInv
  <2>3. CASE DialIdleConnected
    BY <2>3 DEF DialIdleConnected, NewConn
  <2> QED
    BY <2>1, <2>2, <2>3
<1>3. TypeOK'
  BY <1>1, <1>2 DEF TypeInv, TypeOK
<1>4. HeldInv' /\ QueueInv'
  BY <1>1, <1>2 DEF TypeInv, HeldInv, QueueInv
<1> QED
  BY <1>3, <1>4 DEF TypeInv

LEMMA TypeDialIdleFailed ==
    ASSUME TypeInv, DialIdleFailed
    PROVE  TypeInv'
<1>1. /\ Drop({bgHeld}) /\ bgHeld' = NoConn /\ bg' = "wait"
      /\ WakeOneAndLeave(NoConn)
      /\ UNCHANGED <<option, pool, held, phase, ticked>>
  BY DEF DialIdleFailed, timeVars
<1>2. /\ idleTimeout' = idleTimeout /\ maxConnAge' = maxConnAge
      /\ age' \in [Conns -> 0..(maxConnAge' + reaperInterval)]
      /\ used' \in [Conns -> 0..(idleTimeout' + reaperInterval)]
  BY <1>1, SameLimits, ClocksTyped DEF TypeInv
<1>3. /\ waiters' \in Seq(Callers) /\ pc' \in [Callers -> Locations]
      /\ QueueInv'
      /\ \A d \in Callers : pc'[d] = pc[d] \/ (pc[d] = "wait" /\ pc'[d] = "retry")
  BY <1>1, WakeTyped, IdentitiesAssumption
<1>4. TypeOK'
  BY <1>1, <1>2, <1>3 DEF TypeInv, TypeOK, Locations
<1>5. HeldInv'
  BY <1>1, <1>3, IdentitiesAssumption DEF TypeInv, HeldInv
<1> QED
  BY <1>3, <1>4, <1>5 DEF TypeInv

LEMMA TypeDialIdleDone ==
    ASSUME TypeInv, DialIdleDone
    PROVE  TypeInv'
<1>1. /\ bg = "init" /\ bgHeld' = NoConn /\ bg' = "ensure"
      /\ UNCHANGED <<option, age, phase, ticked>>
      /\ idleTimeout' = idleTimeout /\ maxConnAge' = maxConnAge
      /\ idleTimeout \in Nat /\ reaperInterval \in Nat
      /\ bgHeld \in Conns
  BY Limits, SameLimits DEF DialIdleDone, timeVars, TypeInv, TypeOK, HeldInv
<1>2. CASE waiters # <<>>
  <2> DEFINE h == Head(waiters)
  <2>1. /\ waiters' = Tail(waiters)
        /\ held' = [held EXCEPT ![h] = bgHeld]
        /\ pc' = [pc EXCEPT ![h] = "use"]
        /\ used' = [used EXCEPT ![bgHeld] = 0]
        /\ UNCHANGED pool
    BY <1>2 DEF DialIdleDone, Goto
  <2>2. /\ waiters' \in Seq(Callers) /\ Distinct(waiters')
        /\ h \in Callers /\ pc[h] = "wait"
        /\ \A i \in 1..Len(waiters') :
             /\ waiters'[i] \in Callers /\ waiters'[i] # h
             /\ pc[waiters'[i]] = "wait"
    BY <1>2, <2>1, HandOffTyped
  <2> HIDE DEF h
  <2>3. used' \in [Conns -> 0..(idleTimeout + reaperInterval)]
    <3>1. 0 \in 0..(idleTimeout + reaperInterval)
      BY <1>1
    <3> QED
      BY <2>1, <3>1 DEF TypeInv, TypeOK
  <2>4. TypeOK'
    BY <1>1, <2>1, <2>2, <2>3 DEF TypeInv, TypeOK
  <2>5. HeldInv'
    BY <1>1, <2>1, <2>2, IdentitiesAssumption DEF TypeInv, TypeOK, HeldInv
  <2>6. QueueInv'
    BY <1>1, <2>1, <2>2 DEF QueueInv, Distinct, TypeInv, TypeOK
  <2> QED
    BY <2>4, <2>5, <2>6 DEF TypeInv
<1>3. CASE waiters = <<>>
  <2>1. pool' = Append(pool, bgHeld) /\ UNCHANGED <<waiters, held, pc, used>>
    BY <1>3 DEF DialIdleDone
  <2>2. pool' \in Seq(Conns)
    BY <1>1, <2>1 DEF TypeInv, TypeOK
  <2>3. TypeOK'
    BY <1>1, <2>1, <2>2 DEF TypeInv, TypeOK
  <2>4. HeldInv' /\ QueueInv'
    BY <1>1, <2>1, IdentitiesAssumption DEF TypeInv, HeldInv, QueueInv
  <2> QED
    BY <2>3, <2>4 DEF TypeInv
<1> QED
  BY <1>2, <1>3

\* Every step keeps the types.
LEMMA TypeStep ==
    ASSUME TypeInv, [Next]_vars
    PROVE  TypeInv'
<1>1. CASE Advance
  BY <1>1, TypeAdvance
<1>2. ASSUME NEW c \in Callers,
             getConn(c) \/ dialConn(c) \/ abandonWaiter(c) \/ putConn(c)
      PROVE  TypeInv'
  <2>1. CASE getConn(c)
    BY <2>1, TypeGetConn
  <2>2. CASE dialConn(c)
    <3>1. CASE Discard(c)
      BY <3>1, TypeGivenUp DEF Discard, bgVars, timeVars
    <3> QED
      BY <2>2, <3>1, TypeConnected DEF dialConn
  <2>3. CASE abandonWaiter(c)
    BY <2>3, TypeAbandon
  <2>4. CASE putConn(c)
    BY <2>4, TypePutConn
  <2> QED
    BY <1>2, <2>1, <2>2, <2>3, <2>4
<1>3. CASE reapStaleConns
  BY <1>3, TypeReap
<1>4. CASE ensureMinIdle \/ dialIdle
  BY <1>4, TypeEnsure, TypeDialIdleFailed, TypeDialIdleDone DEF dialIdle
<1>5. CASE UNCHANGED vars
  <2>1. idleTimeout' = idleTimeout /\ maxConnAge' = maxConnAge
    BY <1>5, SameLimits DEF vars
  <2> QED
    BY <1>5, <2>1 DEF vars, TypeInv, TypeOK, HeldInv, QueueInv
<1> QED
  BY <1>1, <1>2, <1>3, <1>4, <1>5 DEF Next

-----------------------------------------------------------------------------
(* Where connections are, and how old.                                     *)

Idle(cn) == \E i \in 1..Len(pool) : pool[i] = cn

Owned(cn) == Idle(cn) \/ (\E c \in Callers : held[c] = cn) \/ bgHeld = cn

LEMMA PoolElements ==
    ASSUME NEW s \in Seq(Conns)
    PROVE  /\ Len(s) \in Nat /\ DOMAIN s = 1..Len(s)
           /\ \A i \in 1..Len(s) : s[i] \in Conns
OBVIOUS

LEMMA LiveOwned ==
    ASSUME TypeInv, TypeInv'
    PROVE  /\ \A cn \in Conns : cn \in Live <=> Owned(cn)
           /\ \A cn \in Conns : cn \in Live' <=> Owned(cn)'
           /\ Parked = {cn \in Conns : Idle(cn)}
<1>1. /\ DOMAIN pool = 1..Len(pool) /\ DOMAIN pool' = 1..Len(pool')
      /\ \A i \in 1..Len(pool) : pool[i] \in Conns
  BY PoolElements DEF TypeInv, TypeOK
<1>2. /\ \A cn : cn \in Parked <=> Idle(cn)
      /\ \A cn : cn \in Parked' <=> Idle(cn)'
  BY <1>1 DEF Parked, Range, Idle
<1>3. \A cn \in Conns : cn # NoConn
  BY IdentitiesAssumption
<1>4. /\ \A cn \in Conns : cn \in Live <=> Owned(cn)
      /\ \A cn \in Conns : cn \in Live' <=> Owned(cn)'
  BY <1>2, <1>3 DEF Live, Owned
<1>5. \A cn : Idle(cn) => cn \in Conns
  BY <1>1 DEF Idle
<1> QED
  BY <1>2, <1>4, <1>5

\* A connection that nobody has is closed, and its clocks are at 0.
FreshInv == \A cn \in Conns : ~Owned(cn) => age[cn] = 0 /\ used[cn] = 0

Slack(cn, n) ==
    /\ idleTimeout > 0 => used[cn] <= idleTimeout + n
    /\ maxConnAge > 0 => age[cn] <= maxConnAge + n

\* ReapedInTime is not inductive: how far a connection is over its limit depends
\* on the time since the last tick, and dialIdle parks a connection that has
\* aged since it was dialled, all of it since that tick.
TickInv ==
    ~ticked =>
      /\ \A cn \in Conns : Idle(cn) => Slack(cn, phase)
      /\ bgHeld \in Conns => used[bgHeld] <= phase /\ age[bgHeld] <= phase

Zeroed(cn) == age'[cn] = 0 /\ used'[cn] = 0

\* What a step other than time does: a clock is set to 0 or left alone,
Clocks ==
    \A cn \in Conns : age'[cn] \in {0, age[cn]} /\ used'[cn] \in {0, used[cn]}

\* a connection stays somewhere or is closed,
Kept == \A cn \in Conns : Owned(cn) => Owned(cn)' \/ Zeroed(cn)

\* one that was idle is closed because it expired,
Caused == \A cn \in Conns : Idle(cn) => Owned(cn)' \/ isExpired(cn)

\* one that becomes idle is fresh or the reaper's own,
Returned ==
    \A cn \in Conns : Idle(cn)' => Idle(cn) \/ ~isExpired(cn) \/ bgHeld = cn

\* and the reaper gets a new one only.
Dialled == bgHeld' \in Conns => bgHeld' = bgHeld \/ Zeroed(bgHeld')

Settled == Clocks /\ Kept /\ Caused
Moves == Settled /\ Returned /\ Dialled

LEMMA FreshStep ==
    ASSUME FreshInv, Clocks, Kept
    PROVE  FreshInv'
<1>1. ASSUME NEW cn \in Conns, ~Owned(cn)'
      PROVE  age'[cn] = 0 /\ used'[cn] = 0
  BY <1>1 DEF FreshInv, Clocks, Kept, Zeroed
<1> QED
  BY <1>1 DEF FreshInv

LEMMA ClockTypes ==
    ASSUME TypeInv
    PROVE  /\ idleTimeout \in Nat /\ maxConnAge \in Nat /\ reaperInterval \in Nat \ {0}
           /\ \A cn \in Conns : age[cn] \in Nat /\ used[cn] \in Nat
           /\ phase \in 0..(reaperInterval - 1)
<1>1. idleTimeout \in Nat /\ maxConnAge \in Nat /\ reaperInterval \in Nat \ {0}
  BY Limits DEF TypeInv, TypeOK
<1> QED
  BY <1>1 DEF TypeInv, TypeOK

LEMMA NotExpired ==
    ASSUME TypeInv, NEW cn \in Conns, ~isExpired(cn), NEW n \in Nat
    PROVE  Slack(cn, n)
BY ClockTypes DEF isExpired, Slack

LEMMA TickStep ==
    ASSUME TypeInv, TickInv, Clocks, Returned, Dialled,
           UNCHANGED <<option, phase, ticked>>
    PROVE  TickInv'
<1>1. /\ idleTimeout \in Nat /\ maxConnAge \in Nat /\ phase \in Nat
      /\ \A cn \in Conns : age[cn] \in Nat /\ used[cn] \in Nat
  BY ClockTypes
<1>2. /\ idleTimeout' = idleTimeout /\ maxConnAge' = maxConnAge
      /\ phase' = phase /\ ticked' = ticked
  BY SameLimits
<1>3. ASSUME NEW cn \in Conns, Slack(cn, phase)
      PROVE  Slack(cn, phase)'
  <2>1. /\ idleTimeout > 0 => used[cn] <= idleTimeout + phase
        /\ maxConnAge > 0 => age[cn] <= maxConnAge + phase
    BY <1>3 DEF Slack
  <2>2. /\ used'[cn] <= used[cn] /\ age'[cn] <= age[cn]
        /\ used'[cn] \in Nat /\ age'[cn] \in Nat
    BY <1>1 DEF Clocks
  <2>3. /\ idleTimeout > 0 => used'[cn] <= idleTimeout + phase
        /\ maxConnAge > 0 => age'[cn] <= maxConnAge + phase
    BY <1>1, <2>1, <2>2
  <2> QED
    BY <1>2, <2>3 DEF Slack
<1>4. ASSUME ~ticked, bgHeld \in Conns
      PROVE  Slack(bgHeld, phase)
  BY <1>1, <1>4 DEF TickInv, Slack
<1>5. ASSUME ~ticked, NEW cn \in Conns, Idle(cn)'
      PROVE  Slack(cn, phase)'
  <2>1. Slack(cn, phase)
    BY <1>1, <1>4, <1>5, NotExpired DEF TickInv, Returned
  <2> QED
    BY <1>3, <2>1
<1>6. ASSUME ~ticked, bgHeld' \in Conns
      PROVE  used'[bgHeld'] <= phase /\ age'[bgHeld'] <= phase
  <2>1. CASE bgHeld' = bgHeld
    <3>1. /\ used[bgHeld] <= phase /\ age[bgHeld] <= phase /\ bgHeld \in Conns
      BY <1>6, <2>1 DEF TickInv
    <3> QED
      BY <1>1, <2>1, <3>1 DEF Clocks
  <2>2. CASE Zeroed(bgHeld')
    BY <1>1, <2>2 DEF Zeroed
  <2> QED
    BY <1>6, <2>1, <2>2 DEF Dialled
<1> QED
  BY <1>2, <1>5, <1>6 DEF TickInv

-----------------------------------------------------------------------------
(* What the steps do.                                                      *)

\* It is enough to look at the three kinds of owner.
LEMMA KeptIf ==
    ASSUME \A cn \in Conns : Idle(cn) => Owned(cn)' \/ Zeroed(cn),
           \A c \in Callers : held[c] \in Conns =>
             held'[c] = held[c] \/ bgHeld' = held[c] \/ Zeroed(held[c])
               \/ \E d \in Callers : held'[d] = held[c],
           bgHeld \in Conns =>
             bgHeld' = bgHeld \/ Zeroed(bgHeld) \/ \E d \in Callers : held'[d] = bgHeld
    PROVE  Kept
<1>1. ASSUME NEW cn \in Conns, NEW c \in Callers, held[c] = cn
      PROVE  Owned(cn)' \/ Zeroed(cn)
  BY <1>1 DEF Owned
<1>2. ASSUME NEW cn \in Conns, bgHeld = cn
      PROVE  Owned(cn)' \/ Zeroed(cn)
  BY <1>2 DEF Owned
<1> QED
  BY <1>1, <1>2 DEF Kept, Owned

\* The connections D are closed; the clocks of the others go on.
LEMMA DropMoves ==
    ASSUME TypeInv, NEW D, Drop(D)
    PROVE  /\ Clocks
           /\ \A cn \in Conns : cn \in D => Zeroed(cn)
BY DEF Drop, Clocks, Zeroed

LEMMA MovesReuse ==
    ASSUME TypeInv, NEW c \in Callers, held[c] \notin Conns, Reuse(c), UNCHANGED bgHeld
    PROVE  Moves
<1>1. PICK k \in 1..Len(pool) :
        /\ \A i \in (k + 1)..Len(pool) : isExpired(pool[i])
        /\ pool' = SubSeq(pool, 1, k - 1)
        /\ held' = [held EXCEPT ![c] = pool[k]]
        /\ age' = [cn \in Conns |-> IF \E i \in (k + 1)..Len(pool) : pool[i] = cn
                                      THEN 0 ELSE age[cn]]
        /\ used' = [cn \in Conns |-> IF \E i \in k..Len(pool) : pool[i] = cn
                                       THEN 0 ELSE used[cn]]
  BY DEF Reuse
<1>2. /\ Len(pool) \in Nat /\ \A i \in 1..Len(pool) : pool[i] \in Conns
      /\ held \in [Callers -> Conns \cup {NoConn}]
  BY PoolElements DEF TypeInv, TypeOK
<1>3. Len(pool') = k - 1 /\ \A i \in 1..(k - 1) : pool'[i] = pool[i]
  BY <1>1, <1>2, SubSeqProperties
<1>4. Clocks
  BY <1>1 DEF Clocks
<1>5. ASSUME NEW i \in 1..Len(pool)
      PROVE  \/ \E j \in 1..Len(pool') : pool'[j] = pool[i]
             \/ held'[c] = pool[i]
             \/ isExpired(pool[i]) /\ Zeroed(pool[i])
  <2>1. CASE i < k
    BY <1>1, <1>2, <1>3, <2>1
  <2>2. CASE i = k
    BY <1>1, <1>2, <2>2
  <2>3. CASE i > k
    <3>1. i \in (k + 1)..Len(pool) /\ i \in k..Len(pool) /\ pool[i] \in Conns
      BY <1>2, <2>3
    <3>2. age'[pool[i]] = 0 /\ used'[pool[i]] = 0
      BY <1>1, <3>1
    <3> QED
      BY <1>1, <3>1, <3>2 DEF Zeroed
  <2> QED
    BY <1>2, <2>1, <2>2, <2>3
<1>6. ASSUME NEW cn \in Conns, Idle(cn)
      PROVE  Owned(cn)' \/ (isExpired(cn) /\ Zeroed(cn))
  BY <1>5, <1>6 DEF Idle, Owned
<1>7. Kept
  <2>1. \A d \in Callers : held[d] \in Conns => held'[d] = held[d]
    BY <1>1, <1>2
  <2> QED
    BY <1>6, <2>1, KeptIf
<1>8. Returned
  BY <1>2, <1>3 DEF Returned, Idle
<1> QED
  BY <1>4, <1>6, <1>7, <1>8 DEF Moves, Settled, Caused, Dialled

LEMMA MovesGetConn ==
    ASSUME TypeInv, TypeInv', NEW c \in Callers, getConn(c)
    PROVE  Moves
<1>1. /\ pc[c] \in {"idle", "retry"} /\ UNCHANGED bgHeld
      /\ Reuse(c) \/ ReserveOrQueue(c)
  BY DEF getConn, bgVars
<1>2. held[c] \notin Conns
  BY <1>1 DEF TypeInv, HeldInv
<1>3. CASE ReserveOrQueue(c)
  <2>1. /\ \A cn \in Parked : isExpired(cn)
        /\ pool' = <<>> /\ Drop(Parked) /\ UNCHANGED held
    BY <1>3 DEF ReserveOrQueue
  <2>2. \A cn \in Conns : Idle(cn) => isExpired(cn) /\ Zeroed(cn)
    BY <2>1, LiveOwned, DropMoves
  <2>3. Kept
    BY <1>1, <2>1, <2>2, KeptIf
  <2>4. Returned
    BY <2>1 DEF Returned, Idle
  <2> QED
    BY <1>1, <2>1, <2>2, <2>3, <2>4, DropMoves DEF Moves, Settled, Caused, Dialled
<1> QED
  BY <1>1, <1>2, <1>3, MovesReuse

\* Whatever leaves the pool alone.
LEMMA MovesElsewhere ==
    ASSUME UNCHANGED pool, Clocks, Kept, Dialled
    PROVE  Moves
<1>1. \A cn \in Conns : Idle(cn)' <=> Idle(cn)
  BY DEF Idle
<1> QED
  BY <1>1 DEF Moves, Settled, Caused, Returned, Owned

\* Whatever parks one connection.
LEMMA MovesParked ==
    ASSUME TypeInv, NEW x \in Conns, pool' = Append(pool, x), Clocks, Kept, Dialled,
           ~isExpired(x) \/ bgHeld = x
    PROVE  Moves
<1>1. /\ Len(pool) \in Nat /\ Len(pool') = Len(pool) + 1
      /\ \A i \in 1..Len(pool) : pool'[i] = pool[i]
      /\ pool'[Len(pool) + 1] = x
  BY DEF TypeInv, TypeOK
<1>2. \A cn \in Conns : Idle(cn) => Idle(cn)'
  BY <1>1 DEF Idle
<1>3. \A cn \in Conns : Idle(cn)' => Idle(cn) \/ cn = x
  BY <1>1 DEF Idle
<1> QED
  BY <1>2, <1>3 DEF Moves, Settled, Caused, Returned, Owned

LEMMA MovesDialConn ==
    ASSUME TypeInv, NEW c \in Callers, dialConn(c)
    PROVE  Moves
<1>1. UNCHANGED <<pool, bgHeld>>
  BY DEF dialConn, Connected, InitDone, Discard, bgVars
<1>2. \A cn \in Conns : Idle(cn) => Idle(cn)'
  BY <1>1 DEF Idle
<1>3. CASE Connected(c) \/ InitDone(c)
  <2>1. UNCHANGED <<age, used>>
    BY <1>3 DEF Connected, InitDone
  <2>2. \A d \in Callers : held[d] \in Conns => held'[d] = held[d]
    BY <1>3 DEF Connected, InitDone, TypeInv, TypeOK, HeldInv
  <2>3. Kept
    BY <1>1, <1>2, <2>2, KeptIf DEF Owned
  <2> QED
    BY <1>1, <2>1, <2>3, MovesElsewhere DEF Clocks, Dialled
<1>4. CASE Discard(c)
  <2>1. Drop({held[c]}) /\ held' = [held EXCEPT ![c] = NoConn]
    BY <1>4 DEF Discard
  <2>2. \A d \in Callers : held[d] \in Conns => held'[d] = held[d] \/ Zeroed(held[d])
    BY <2>1, DropMoves DEF TypeInv, TypeOK
  <2>3. Kept
    BY <1>1, <1>2, <2>2, KeptIf DEF Owned
  <2> QED
    BY <1>1, <2>1, <2>3, DropMoves, MovesElsewhere DEF Dialled
<1> QED
  BY <1>3, <1>4 DEF dialConn

LEMMA MovesAbandon ==
    ASSUME TypeInv, NEW c \in Callers, abandonWaiter(c)
    PROVE  Moves
<1>1. UNCHANGED <<pool, held, bgHeld, age, used>>
  BY DEF abandonWaiter, bgVars
<1>2. Kept
  BY <1>1 DEF Kept, Owned, Idle
<1> QED
  BY <1>1, <1>2, MovesElsewhere DEF Clocks, Dialled

LEMMA MovesPutConn ==
    ASSUME TypeInv, NEW c \in Callers, putConn(c)
    PROVE  Moves
<1>1. /\ pc[c] = "use" /\ UNCHANGED bgHeld
      /\ PutExpired(c) \/ PutHandOff(c) \/ PutParked(c)
      /\ held[c] \in Conns
  BY DEF putConn, bgVars, TypeInv, HeldInv
<1>2. held \in [Callers -> Conns \cup {NoConn}] /\ used \in [Conns -> Nat]
  <2>1. \A cn \in Conns : used[cn] \in Nat
    BY ClockTypes
  <2> QED
    BY <2>1 DEF TypeInv, TypeOK
<1>3. CASE PutExpired(c)
  <2>1. Drop({held[c]}) /\ held' = [held EXCEPT ![c] = NoConn] /\ UNCHANGED pool
    BY <1>3 DEF PutExpired
  <2>2. \A d \in Callers : held[d] \in Conns => held'[d] = held[d] \/ Zeroed(held[d])
    BY <1>2, <2>1, DropMoves
  <2>3. \A cn \in Conns : Idle(cn) => Owned(cn)'
    BY <2>1 DEF Idle, Owned
  <2>4. Kept
    BY <1>1, <2>2, <2>3, KeptIf
  <2> QED
    BY <1>1, <2>1, <2>4, DropMoves, MovesElsewhere DEF Dialled
<1>4. CASE PutHandOff(c)
  <2> DEFINE h == Head(waiters)
  <2>1. /\ waiters # <<>> /\ waiters' = Tail(waiters)
        /\ held' = [held EXCEPT ![c] = NoConn, ![h] = held[c]]
        /\ used' = [used EXCEPT ![held[c]] = 0]
        /\ UNCHANGED <<pool, age>>
    BY <1>4 DEF PutHandOff
  <2>2. h \in Callers /\ pc[h] = "wait"
    BY <2>1, HandOffTyped
  <2>3. held[h] \notin Conns
    BY <2>2 DEF TypeInv, HeldInv
  <2> HIDE DEF h
  <2>4. \A d \in Callers : held[d] \in Conns => \E e \in Callers : held'[e] = held[d]
    BY <1>1, <1>2, <2>1, <2>2, <2>3
  <2>5. \A cn \in Conns : Idle(cn) => Owned(cn)'
    BY <2>1 DEF Idle, Owned
  <2>6. Kept
    BY <1>1, <2>4, <2>5, KeptIf
  <2>7. Clocks
    BY <1>2, <2>1 DEF Clocks
  <2> QED
    BY <1>1, <2>1, <2>6, <2>7, MovesElsewhere DEF Dialled
<1>5. CASE PutParked(c)
  <2>1. /\ ~isExpired(held[c]) /\ pool' = Append(pool, held[c])
        /\ held' = [held EXCEPT ![c] = NoConn] /\ UNCHANGED <<age, used>>
    BY <1>5 DEF PutParked
  <2>2. /\ Len(pool) \in Nat /\ Len(pool') = Len(pool) + 1
        /\ \A i \in 1..Len(pool) : pool'[i] = pool[i]
        /\ pool'[Len(pool) + 1] = held[c]
    BY <1>1, <2>1 DEF TypeInv, TypeOK
  <2>3. ASSUME NEW cn \in Conns, Idle(cn) \/ cn = held[c]
        PROVE  Owned(cn)'
    BY <2>2, <2>3 DEF Idle, Owned
  <2>4. \A d \in Callers : d # c => held'[d] = held[d]
    BY <1>2, <2>1
  <2>5. Kept
    BY <1>1, <2>3, <2>4 DEF Kept, Owned
  <2> QED
    BY <1>1, <2>1, <2>5, MovesParked DEF Clocks, Dialled
<1> QED
  BY <1>1, <1>3, <1>4, <1>5

LEMMA MovesReap ==
    ASSUME TypeInv, TypeInv', reapStaleConns
    PROVE  Settled
<1>1. Drop({cn \in Parked : ~Stays(cn)}) /\ UNCHANGED <<held, bgHeld>>
  BY DEF reapStaleConns
<1>2. ASSUME NEW cn \in Conns, Idle(cn)
      PROVE  Idle(cn)' \/ (isExpired(cn) /\ Zeroed(cn))
  <2>1. CASE Stays(cn)
    BY <1>2, <2>1, Reaped DEF Idle
  <2>2. CASE ~Stays(cn)
    <3>1. cn \in {x \in Parked : ~Stays(x)}
      BY <1>2, <2>2, LiveOwned
    <3> QED
      BY <1>1, <2>2, <3>1, DropMoves DEF Stays
  <2> QED
    BY <2>1, <2>2
<1>3. Kept
  BY <1>1, <1>2, KeptIf DEF Owned
<1> QED
  BY <1>1, <1>2, <1>3, DropMoves DEF Settled, Caused, Owned

LEMMA MovesEnsure ==
    ASSUME TypeInv, FreshInv, TypeInv',
           ensureMinIdle \/ DialIdleReserve \/ DialIdleConnected
    PROVE  Moves
<1>1. UNCHANGED <<pool, held, age, used>>
  BY DEF ensureMinIdle, DialIdleReserve, DialIdleConnected
<1>2. CASE UNCHANGED bgHeld
  <2>1. Kept
    BY <1>1, <1>2 DEF Kept, Owned, Idle
  <2> QED
    BY <1>1, <1>2, <2>1, MovesElsewhere DEF Clocks, Dialled
<1>3. CASE DialIdleConnected
  <2>1. bgHeld \notin Conns /\ bgHeld' = NewConn /\ NewConn \in Conns \ Live
    BY <1>3 DEF DialIdleConnected, TypeInv, HeldInv, NewConn
  <2>2. age[NewConn] = 0 /\ used[NewConn] = 0
    BY <2>1, LiveOwned DEF FreshInv
  <2>3. Zeroed(bgHeld')
    BY <1>1, <2>1, <2>2 DEF Zeroed
  <2>4. Kept
    BY <1>1, <2>1 DEF Kept, Owned, Idle
  <2> QED
    BY <1>1, <2>3, <2>4, MovesElsewhere DEF Clocks, Dialled
<1> QED
  BY <1>2, <1>3 DEF ensureMinIdle, DialIdleReserve

LEMMA MovesDialIdleFailed ==
    ASSUME TypeInv, DialIdleFailed
    PROVE  Moves
<1>1. Drop({bgHeld}) /\ bgHeld' = NoConn /\ UNCHANGED <<pool, held>>
  BY DEF DialIdleFailed
<1>2. bgHeld \in Conns => Zeroed(bgHeld)
  BY <1>1, DropMoves
<1>3. Kept
  BY <1>1, <1>2 DEF Kept, Owned, Idle
<1> QED
  BY <1>1, <1>3, DropMoves, MovesElsewhere, IdentitiesAssumption DEF Dialled

LEMMA MovesDialIdleDone ==
    ASSUME TypeInv, DialIdleDone
    PROVE  Moves
<1>1. /\ bg = "init" /\ bgHeld' = NoConn /\ UNCHANGED age
      /\ bgHeld \in Conns
  BY DEF DialIdleDone, TypeInv, HeldInv
<1>2. held \in [Callers -> Conns \cup {NoConn}] /\ used \in [Conns -> Nat]
  <2>1. \A cn \in Conns : used[cn] \in Nat
    BY ClockTypes
  <2> QED
    BY <2>1 DEF TypeInv, TypeOK
<1>3. Dialled
  BY <1>1, IdentitiesAssumption DEF Dialled
<1>4. CASE waiters # <<>>
  <2> DEFINE h == Head(waiters)
  <2>1. /\ waiters' = Tail(waiters) /\ UNCHANGED pool
        /\ held' = [held EXCEPT ![h] = bgHeld]
        /\ used' = [used EXCEPT ![bgHeld] = 0]
    BY <1>4 DEF DialIdleDone
  <2>2. h \in Callers /\ pc[h] = "wait"
    BY <1>4, <2>1, HandOffTyped
  <2>3. held[h] \notin Conns
    BY <2>2 DEF TypeInv, HeldInv
  <2> HIDE DEF h
  <2>4. \A d \in Callers : held[d] \in Conns => held'[d] = held[d]
    BY <1>2, <2>1, <2>3
  <2>5. held'[h] = bgHeld
    BY <1>2, <2>1, <2>2
  <2>6. \A cn \in Conns : Idle(cn) => Owned(cn)'
    BY <2>1 DEF Idle, Owned
  <2>7. Kept
    BY <2>2, <2>4, <2>5, <2>6, KeptIf
  <2>8. Clocks
    BY <1>1, <1>2, <2>1 DEF Clocks
  <2> QED
    BY <1>3, <2>1, <2>7, <2>8, MovesElsewhere
<1>5. CASE waiters = <<>>
  <2>1. pool' = Append(pool, bgHeld) /\ UNCHANGED <<held, used>>
    BY <1>5 DEF DialIdleDone
  <2>2. /\ Len(pool) \in Nat /\ Len(pool') = Len(pool) + 1
        /\ \A i \in 1..Len(pool) : pool'[i] = pool[i]
        /\ pool'[Len(pool) + 1] = bgHeld
    BY <1>1, <2>1 DEF TypeInv, TypeOK
  <2>3. ASSUME NEW cn \in Conns, Idle(cn) \/ cn = bgHeld
        PROVE  Owned(cn)'
    BY <2>2, <2>3 DEF Idle, Owned
  <2>4. Kept
    BY <2>1, <2>3 DEF Kept, Owned
  <2> QED
    BY <1>1, <1>3, <2>1, <2>4, MovesParked DEF Clocks
<1> QED
  BY <1>4, <1>5

-----------------------------------------------------------------------------
(* The theorems.                                                           *)

\* What is proved by induction over the steps.
AgeInv == TypeInv /\ FreshInv /\ TickInv

\* A step is time, a tick, one of the moves above, or none.
LEMMA StepIs ==
    ASSUME AgeInv, [Next]_vars
    PROVE  \/ Advance
           \/ reapStaleConns /\ Settled
           \/ Moves /\ UNCHANGED <<option, phase, ticked>>
           \/ UNCHANGED vars
<1>1. TypeInv /\ TypeInv' /\ FreshInv
  BY TypeStep DEF AgeInv
<1>2. ASSUME NEW c \in Callers,
             getConn(c) \/ dialConn(c) \/ abandonWaiter(c) \/ putConn(c)
      PROVE  Moves /\ UNCHANGED <<option, phase, ticked>>
  <2>1. Moves
    BY <1>1, <1>2, MovesGetConn, MovesDialConn, MovesAbandon, MovesPutConn
  <2>2. UNCHANGED <<option, phase, ticked>>
    BY <1>2 DEF getConn, dialConn, Connected, InitDone, Discard, abandonWaiter, putConn,
                timeVars
  <2> QED
    BY <2>1, <2>2
<1>3. ASSUME ensureMinIdle \/ dialIdle
      PROVE  Moves /\ UNCHANGED <<option, phase, ticked>>
  <2>1. Moves
    BY <1>1, <1>3, MovesEnsure, MovesDialIdleFailed, MovesDialIdleDone DEF dialIdle
  <2>2. UNCHANGED <<option, phase, ticked>>
    BY <1>3 DEF ensureMinIdle, dialIdle, DialIdleReserve, DialIdleConnected,
                DialIdleFailed, DialIdleDone, timeVars
  <2> QED
    BY <2>1, <2>2
<1> QED
  BY <1>1, <1>2, <1>3, MovesReap DEF Next

LEMMA AgeInit ==
    ASSUME Init
    PROVE  AgeInv
<1>1. TypeInv
  BY TypeInit
<1>2. FreshInv
  BY DEF Init, FreshInv
<1>3. /\ pool = <<>> /\ bgHeld \notin Conns
  BY IdentitiesAssumption DEF Init
<1>4. TickInv
  BY <1>3 DEF TickInv, Idle
<1> QED
  BY <1>1, <1>2, <1>4 DEF AgeInv

LEMMA AgeAdvance ==
    ASSUME AgeInv, TypeInv', Advance
    PROVE  FreshInv' /\ TickInv'
<1>1. /\ idleTimeout \in Nat /\ maxConnAge \in Nat /\ reaperInterval \in Nat \ {0}
      /\ \A cn \in Conns : age[cn] \in Nat /\ used[cn] \in Nat
      /\ phase \in 0..(reaperInterval - 1)
  BY ClockTypes DEF AgeInv
<1>2. /\ UNCHANGED <<pool, held, bgHeld>>
      /\ idleTimeout' = idleTimeout /\ maxConnAge' = maxConnAge
      /\ ~ticked' => ~ticked /\ phase' = phase + 1
  BY <1>1, SameLimits, NextPhase DEF Advance, bgVars
<1>3. \A cn \in Conns : Idle(cn)' = Idle(cn) /\ Owned(cn)' = Owned(cn)
  BY <1>2 DEF Idle, Owned
<1>4. ASSUME NEW cn \in Conns
      PROVE  /\ Owned(cn) => age'[cn] <= age[cn] + 1 /\ used'[cn] <= used[cn] + 1
             /\ ~Owned(cn) => age'[cn] = 0 /\ used'[cn] = 0
             /\ age'[cn] \in Nat /\ used'[cn] \in Nat
  <2>1. /\ Owned(cn) => age'[cn] = Bounded(age[cn] + 1, maxConnAge)
        /\ Owned(cn) => used'[cn] = Bounded(used[cn] + 1, idleTimeout)
        /\ ~Owned(cn) => age'[cn] = 0 /\ used'[cn] = 0
    BY LiveOwned DEF Advance, AgeInv
  <2>2. /\ Bounded(age[cn] + 1, maxConnAge) <= age[cn] + 1
        /\ Bounded(used[cn] + 1, idleTimeout) <= used[cn] + 1
        /\ Bounded(age[cn] + 1, maxConnAge) \in Nat
        /\ Bounded(used[cn] + 1, idleTimeout) \in Nat
    <3>1. age[cn] + 1 \in Nat /\ used[cn] + 1 \in Nat
      BY <1>1
    <3>2. /\ Bounded(age[cn] + 1, maxConnAge) \in 0..(maxConnAge + reaperInterval)
          /\ Bounded(age[cn] + 1, maxConnAge) <= age[cn] + 1
      BY <1>1, <3>1, BoundedIn
    <3>3. /\ Bounded(used[cn] + 1, idleTimeout) \in 0..(idleTimeout + reaperInterval)
          /\ Bounded(used[cn] + 1, idleTimeout) <= used[cn] + 1
      BY <1>1, <3>1, BoundedIn
    <3>4. \A b, n : b \in 0..n => b \in Nat
      OBVIOUS
    <3> QED
      BY <3>2, <3>3, <3>4
  <2> QED
    BY <2>1, <2>2
<1>5. FreshInv'
  BY <1>3, <1>4 DEF FreshInv
<1>6. ASSUME ~ticked', NEW cn \in Conns, Idle(cn)
      PROVE  Slack(cn, phase)'
  <2>1. /\ idleTimeout > 0 => used[cn] <= idleTimeout + phase
        /\ maxConnAge > 0 => age[cn] <= maxConnAge + phase
    BY <1>2, <1>6 DEF AgeInv, TickInv, Slack
  <2>2. age'[cn] <= age[cn] + 1 /\ used'[cn] <= used[cn] + 1
    BY <1>4, <1>6 DEF Owned
  <2>3. /\ idleTimeout > 0 => used'[cn] <= idleTimeout + (phase + 1)
        /\ maxConnAge > 0 => age'[cn] <= maxConnAge + (phase + 1)
    BY <1>1, <1>4, <2>1, <2>2
  <2> QED
    BY <1>2, <1>6, <2>3 DEF Slack
<1>7. ASSUME ~ticked', bgHeld \in Conns
      PROVE  used'[bgHeld] <= phase + 1 /\ age'[bgHeld] <= phase + 1
  <2>1. used[bgHeld] <= phase /\ age[bgHeld] <= phase
    BY <1>2, <1>7 DEF AgeInv, TickInv
  <2>2. age'[bgHeld] <= age[bgHeld] + 1 /\ used'[bgHeld] <= used[bgHeld] + 1
    BY <1>4, <1>7 DEF Owned
  <2> QED
    BY <1>1, <1>4, <1>7, <2>1, <2>2
<1>8. TickInv'
  BY <1>2, <1>3, <1>6, <1>7 DEF TickInv
<1> QED
  BY <1>5, <1>8

LEMMA AgeReap ==
    ASSUME AgeInv, TypeInv', reapStaleConns, Settled
    PROVE  TickInv'
<1>1. TypeInv /\ bgHeld' = bgHeld /\ bgHeld \notin Conns /\ phase' = phase
      /\ UNCHANGED option
  BY DEF AgeInv, TypeInv, HeldInv, reapStaleConns
<1>2. /\ idleTimeout' = idleTimeout /\ maxConnAge' = maxConnAge
      /\ idleTimeout \in Nat /\ maxConnAge \in Nat /\ phase \in Nat
      /\ \A cn \in Conns : age[cn] \in Nat /\ used[cn] \in Nat
  BY <1>1, SameLimits, ClockTypes
<1>3. ASSUME NEW cn \in Conns, Idle(cn)'
      PROVE  Slack(cn, phase)'
  <2>1. Stays(cn)
    BY <1>1, <1>3, Reaped DEF Idle
  <2>2. /\ idleTimeout > 0 => used[cn] <= idleTimeout
        /\ maxConnAge > 0 => age[cn] <= maxConnAge
    BY <1>2, <2>1 DEF Stays, isExpired
  <2>3. /\ age'[cn] <= age[cn] /\ used'[cn] <= used[cn]
        /\ age'[cn] \in Nat /\ used'[cn] \in Nat
    BY <1>2 DEF Settled, Clocks
  <2>4. /\ idleTimeout > 0 => used'[cn] <= idleTimeout + phase
        /\ maxConnAge > 0 => age'[cn] <= maxConnAge + phase
    BY <1>2, <2>2, <2>3
  <2> QED
    BY <1>1, <1>2, <2>4 DEF Slack
<1> QED
  BY <1>1, <1>3 DEF TickInv

LEMMA AgeStep ==
    ASSUME AgeInv, [Next]_vars
    PROVE  AgeInv'
<1>1. TypeInv'
  BY TypeStep DEF AgeInv
<1>2. CASE Advance
  BY <1>1, <1>2, AgeAdvance DEF AgeInv
<1>3. CASE reapStaleConns /\ Settled
  BY <1>1, <1>3, AgeReap, FreshStep DEF AgeInv, Settled
<1>4. CASE Moves /\ UNCHANGED <<option, phase, ticked>>
  BY <1>1, <1>4, TickStep, FreshStep DEF AgeInv, Moves, Settled
<1>5. CASE UNCHANGED vars
  <2>1. UNCHANGED <<option, pool, held, bgHeld, age, used, phase, ticked>>
    BY <1>5 DEF vars
  <2>2. idleTimeout' = idleTimeout /\ maxConnAge' = maxConnAge
    BY <2>1, SameLimits
  <2> QED
    BY <1>1, <2>1, <2>2 DEF AgeInv, FreshInv, TickInv, Slack, Owned, Idle
<1> QED
  BY <1>2, <1>3, <1>4, <1>5, StepIs

LEMMA AgeAlways == Spec => []AgeInv
BY AgeInit, AgeStep, PTL DEF Spec

\* Every variable keeps its type.
THEOREM IdleClockTypeCorrect == Spec => []TypeOK
<1>1. AgeInv => TypeOK
  BY DEF AgeInv, TypeInv
<1> QED
  BY <1>1, AgeAlways, PTL

\* In every state in which no tick waits for the reaper, no connection in the pool
\* is past an enabled limit by a whole reaperInterval (reapStaleConns).  While the
\* reaper is dialling and a tick waits for it, this says nothing.
THEOREM ReapedInTimeAlways == Spec => []ReapedInTime
<1>1. ASSUME AgeInv, ~ticked, NEW cn \in Parked
      PROVE  /\ idleTimeout > 0 => used[cn] < idleTimeout + reaperInterval
             /\ maxConnAge > 0 => age[cn] < maxConnAge + reaperInterval
  <2>1. cn \in Conns /\ Idle(cn)
    <3>1. \A i \in 1..Len(pool) : pool[i] \in Conns
      BY <1>1, PoolElements DEF AgeInv, TypeInv, TypeOK
    <3>2. DOMAIN pool = 1..Len(pool)
      BY <1>1, PoolElements DEF AgeInv, TypeInv, TypeOK
    <3> QED
      BY <1>1, <3>1, <3>2 DEF Parked, Range, Idle
  <2>2. /\ idleTimeout > 0 => used[cn] <= idleTimeout + phase
        /\ maxConnAge > 0 => age[cn] <= maxConnAge + phase
    BY <1>1, <2>1 DEF AgeInv, TickInv, Slack
  <2>3. /\ idleTimeout \in Nat /\ maxConnAge \in Nat /\ reaperInterval \in Nat \ {0}
        /\ age[cn] \in Nat /\ used[cn] \in Nat /\ phase \in 0..(reaperInterval - 1)
    BY <1>1, <2>1, ClockTypes DEF AgeInv
  <2> QED
    BY <2>2, <2>3
<1>2. AgeInv => ReapedInTime
  BY <1>1 DEF ReapedInTime
<1> QED
  BY <1>2, AgeAlways, PTL

\* Nothing idle is closed but for a limit the Options set (Option.Create, Options).
THEOREM ClosedForCauseAlways == Spec => ClosedForCause
<1> DEFINE Cause ==
        \A cn \in Parked :
          \/ cn \in Live'
          \/ /\ option.IdleTimeout >= 0
             /\ Outlived(used[cn], option.IdleTimeout, defaultIdleTimeout)
          \/ /\ option.MaxConnAge >= 0
             /\ Outlived(age[cn], option.MaxConnAge, defaultMaxConnAge)
<1>1. ASSUME AgeInv, [Next]_vars
      PROVE  Cause
  <2>1. TypeInv /\ TypeInv' /\ option \in OptionSet
    BY <1>1, TypeStep DEF AgeInv, TypeInv, TypeOK
  <2>2. \A cn \in Conns : Idle(cn) => Owned(cn)' \/ isExpired(cn)
    <3>1. CASE Advance
      BY <3>1 DEF Advance, Idle, Owned
    <3>2. CASE UNCHANGED vars
      BY <3>2 DEF vars, Idle, Owned
    <3> QED
      BY <1>1, <3>1, <3>2, StepIs DEF Moves, Settled, Caused
  <2>3. \A cn \in Parked : cn \in Conns /\ (cn \in Live' \/ isExpired(cn))
    BY <2>1, <2>2, LiveOwned
  <2> QED
    BY <2>1, <2>3, ExpiredMeans
<1> HIDE DEF Cause
<1>2. AgeInv /\ [Next]_vars => [Cause]_vars
  BY <1>1
<1>3. Spec => [][Cause]_vars
  BY <1>2, AgeAlways, PTL DEF Spec
<1> QED
  BY <1>3 DEF ClosedForCause, Cause

=============================================================================
