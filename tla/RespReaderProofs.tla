--------------------------- MODULE RespReaderProofs ---------------------------
(***************************************************************************)
(* What the reader of redis/resp.go computes, for every set of replies and *)
(* every limit: parseAsciiInt returns the number its digits denote, and    *)
(* the reference Meaning satisfies the equation it is defined by.          *)
(***************************************************************************)
EXTENDS RespReader, SequenceTheorems, WellFoundedInduction, TLAPS

-----------------------------------------------------------------------------
(* Induction, with sets in the place of predicates.                        *)

Less == {p \in Nat \X Nat : p[1] < p[2]}

LEMMA LessWellFounded == IsWellFoundedOn(Less, Nat)
<1>1. Less = OpToRel(<, Nat)
  BY DEF Less, OpToRel
<1> QED
  BY <1>1, NatLessThanWellFounded

\* A set of naturals has a least element.
LEMMA LeastElement ==
    ASSUME NEW T \in SUBSET Nat, T # {}
    PROVE  \E n \in T : \A m \in T : n <= m
<1>1. PICK n \in T : \A m \in T : <<m, n>> \notin Less
  BY LessWellFounded, WFMin
<1>2. ASSUME NEW m \in T PROVE n <= m
  <2>1. n \in Nat /\ m \in Nat
    OBVIOUS
  <2>2. ~ (m < n)
    BY <1>1, <2>1 DEF Less
  <2> QED
    BY <2>1, <2>2
<1> QED
  BY <1>2

\* What holds of 0 and passes from n to n + 1 holds of every number.
LEMMA Induction ==
    ASSUME NEW T, 0 \in T, \A n \in Nat : n \in T => n + 1 \in T
    PROVE  \A n \in Nat : n \in T
<1> SUFFICES ASSUME Nat \ T # {} PROVE FALSE
  OBVIOUS
<1>1. PICK n \in Nat \ T : \A m \in Nat \ T : n <= m
  BY LeastElement
<1>2. n # 0 /\ n - 1 \in Nat /\ n - 1 \in T
  BY <1>1
<1> QED
  BY <1>2

\* What holds of n when it holds of everything below n holds of every number.
LEMMA CourseOfValues ==
    ASSUME NEW T, \A n \in Nat : (\A m \in Nat : m < n => m \in T) => n \in T
    PROVE  \A n \in Nat : n \in T
<1> SUFFICES ASSUME Nat \ T # {} PROVE FALSE
  OBVIOUS
<1>1. PICK n \in Nat \ T : \A m \in Nat \ T : n <= m
  BY LeastElement
<1>2. \A m \in Nat : m < n => m \in T
  BY <1>1
<1> QED
  BY <1>2

-----------------------------------------------------------------------------
(* Denotes: dividing by ten again and again.                               *)

Abs(n) == IF n < 0 THEN -n ELSE n

\* r is n, n \div 10, n \div 100 and so on.
Shifts(r, n, len) ==
    r = [k \in 0..len |-> IF k = 0 THEN Abs(n) ELSE r[k - 1] \div 10]

LEMMA ShiftsSteps ==
    ASSUME NEW len \in Nat, NEW n, NEW r, Shifts(r, n, len)
    PROVE  /\ DOMAIN r = 0..len
           /\ r[0] = Abs(n)
           /\ \A k \in 1..len : r[k] = r[k - 1] \div 10
BY DEF Shifts

LEMMA ShiftsFrom ==
    ASSUME NEW len \in Nat, NEW n, NEW r,
           r = [k \in 0..len |-> r[k]], r[0] = Abs(n),
           \A k \in 1..len : r[k] = r[k - 1] \div 10
    PROVE  Shifts(r, n, len)
<1>1. ASSUME NEW k \in 0..len
      PROVE  r[k] = IF k = 0 THEN Abs(n) ELSE r[k - 1] \div 10
  <2>1. k = 0 \/ k \in 1..len
    OBVIOUS
  <2> QED
    BY <2>1
<1>2. [k \in 0..len |-> r[k]]
        = [k \in 0..len |-> IF k = 0 THEN Abs(n) ELSE r[k - 1] \div 10]
  BY <1>1
<1> QED
  BY <1>2 DEF Shifts

\* There is such a sequence of any length.
LEMMA ShiftsExist ==
    ASSUME NEW n, NEW len \in Nat
    PROVE  \E r : Shifts(r, n, len)
<1> DEFINE T == {m \in Nat : \E r : Shifts(r, n, m)}
<1>1. 0 \in T
  <2>1. Shifts([k \in 0..0 |-> Abs(n)], n, 0)
    BY DEF Shifts
  <2> QED
    BY <2>1
<1>2. ASSUME NEW m \in Nat, m \in T PROVE m + 1 \in T
  <2>1. PICK r : Shifts(r, n, m)
    BY <1>2
  <2> DEFINE w == [k \in 0..(m + 1) |-> IF k <= m THEN r[k] ELSE r[m] \div 10]
  <2>2. w[0] = Abs(n)
    BY <2>1, ShiftsSteps
  <2>3. ASSUME NEW k \in 1..(m + 1) PROVE w[k] = w[k - 1] \div 10
    BY <2>1, <2>3, ShiftsSteps
  <2>4. w = [k \in 0..(m + 1) |-> w[k]]
    OBVIOUS
  <2> HIDE DEF w
  <2>5. Shifts(w, n, m + 1)
    BY <2>2, <2>3, <2>4, m + 1 \in Nat, ShiftsFrom
  <2> QED
    BY <2>5
<1> HIDE DEF T
<1>3. len \in T
  BY <1>1, <1>2, Induction
<1> QED
  BY <1>3 DEF T

\* And only one.
LEMMA ShiftsUnique ==
    ASSUME NEW n, NEW len \in Nat, NEW r, NEW q, Shifts(r, n, len), Shifts(q, n, len)
    PROVE  \A k \in 0..len : r[k] = q[k]
<1> DEFINE T == {k \in Nat : k <= len => r[k] = q[k]}
<1>1. 0 \in T
  BY ShiftsSteps
<1>2. ASSUME NEW k \in Nat, k \in T PROVE k + 1 \in T
  BY <1>2, ShiftsSteps
<1> HIDE DEF T
<1>3. \A k \in Nat : k \in T
  BY <1>1, <1>2, Induction
<1> QED
  BY <1>3 DEF T

\* The numbers get smaller, never negative.
LEMMA ShiftsBound ==
    ASSUME NEW n \in Int, NEW len \in Nat, NEW r, Shifts(r, n, len)
    PROVE  \A k \in 0..len : r[k] \in 0..Abs(n)
<1> DEFINE T == {k \in Nat : k <= len => r[k] \in 0..Abs(n)}
<1>0. Abs(n) \in Nat
  BY DEF Abs
<1>1. 0 \in T
  BY <1>0, ShiftsSteps
<1>2. ASSUME NEW k \in Nat, k \in T PROVE k + 1 \in T
  <2>1. k + 1 <= len => r[k + 1] = r[k] \div 10 /\ r[k] \in 0..Abs(n)
    BY <1>2, ShiftsSteps
  <2> QED
    BY <1>0, <2>1
<1> HIDE DEF T
<1>3. \A k \in Nat : k \in T
  BY <1>1, <1>2, Induction
<1> QED
  BY <1>3 DEF T

\* Denotes, with the sequence it computes.
LEMMA DenotesShifts ==
    ASSUME NEW s \in Seq(Int), NEW n, NEW r, Shifts(r, n, Len(Digits(s)))
    PROVE  LET ds == Digits(s)
           IN Denotes(s, n) <=>
                /\ ds # <<>> /\ r[Len(ds)] = 0
                /\ \A k \in 1..Len(ds) : ds[Len(ds) + 1 - k] = r[k - 1] % 10
                /\ n # 0 => (n < 0 <=> s[1] = Minus)
<1> DEFINE ds == Digits(s)
           q  == CHOOSE q : q = [k \in 0..Len(ds) |->
                    IF k = 0 THEN IF n < 0 THEN -n ELSE n ELSE q[k - 1] \div 10]
<1>1. ds \in Seq(Int) /\ Len(ds) \in Nat
  BY DEF Digits, Signed
<1>2. \E q1 : q1 = [k \in 0..Len(ds) |->
                    IF k = 0 THEN IF n < 0 THEN -n ELSE n ELSE q1[k - 1] \div 10]
  BY ShiftsExist, <1>1 DEF Shifts, Abs
<1>3. q = [k \in 0..Len(ds) |->
                    IF k = 0 THEN IF n < 0 THEN -n ELSE n ELSE q[k - 1] \div 10]
  BY <1>2, Zenon
<1>4. Denotes(s, n) <=>
                /\ ds # <<>> /\ q[Len(ds)] = 0
                /\ \A k \in 1..Len(ds) : ds[Len(ds) + 1 - k] = q[k - 1] % 10
                /\ n # 0 => (n < 0 <=> s[1] = Minus)
  BY DEF Denotes
<1> HIDE DEF q
<1>5. Shifts(q, n, Len(ds))
  BY <1>3 DEF Shifts, Abs
<1> HIDE DEF ds
<1>6. \A k \in 0..Len(ds) : q[k] = r[k]
  BY <1>1, <1>5, ShiftsUnique DEF ds
<1>7. \A k \in 1..Len(ds) : q[k - 1] = r[k - 1]
  BY <1>1, <1>6
<1>8. q[Len(ds)] = r[Len(ds)]
  BY <1>1, <1>6
<1> QED
  BY <1>1, <1>4, <1>7, <1>8 DEF ds

-----------------------------------------------------------------------------
(* parseAsciiInt: the loop over the digits.                                *)

\* v is what the loop has after no digit, one, two and so on.
Loop(v, ds, len) ==
    v = [i \in 0..len |-> IF i = 0 THEN {0} ELSE Push(v[i - 1], ds[i])]

LEMMA LoopSteps ==
    ASSUME NEW len \in Nat, NEW ds, NEW v, Loop(v, ds, len)
    PROVE  /\ DOMAIN v = 0..len
           /\ v[0] = {0}
           /\ \A i \in 1..len : v[i] = Push(v[i - 1], ds[i])
BY DEF Loop

LEMMA LoopFrom ==
    ASSUME NEW len \in Nat, NEW ds, NEW v,
           v = [i \in 0..len |-> v[i]], v[0] = {0},
           \A i \in 1..len : v[i] = Push(v[i - 1], ds[i])
    PROVE  Loop(v, ds, len)
<1>1. ASSUME NEW i \in 0..len
      PROVE  v[i] = IF i = 0 THEN {0} ELSE Push(v[i - 1], ds[i])
  <2>1. i = 0 \/ i \in 1..len
    OBVIOUS
  <2> QED
    BY <2>1
<1>2. [i \in 0..len |-> v[i]]
        = [i \in 0..len |-> IF i = 0 THEN {0} ELSE Push(v[i - 1], ds[i])]
  BY <1>1
<1> QED
  BY <1>2 DEF Loop

LEMMA LoopExists ==
    ASSUME NEW ds, NEW len \in Nat
    PROVE  \E v : Loop(v, ds, len)
<1> DEFINE T == {m \in Nat : \E v : Loop(v, ds, m)}
<1>1. 0 \in T
  <2>1. Loop([i \in 0..0 |-> {0}], ds, 0)
    BY DEF Loop
  <2> QED
    BY <2>1
<1>2. ASSUME NEW m \in Nat, m \in T PROVE m + 1 \in T
  <2>1. PICK v : Loop(v, ds, m)
    BY <1>2
  <2> DEFINE w == [i \in 0..(m + 1) |-> IF i <= m THEN v[i] ELSE Push(v[m], ds[m + 1])]
  <2>2. w[0] = {0}
    BY <2>1, LoopSteps
  <2>3. ASSUME NEW i \in 1..(m + 1) PROVE w[i] = Push(w[i - 1], ds[i])
    <3>1. CASE i = m + 1
      BY <3>1
    <3>2. CASE i \in 1..m
      BY <2>1, <3>2, LoopSteps
    <3> QED
      BY <3>1, <3>2
  <2>4. w = [i \in 0..(m + 1) |-> w[i]]
    OBVIOUS
  <2> HIDE DEF w
  <2>5. Loop(w, ds, m + 1)
    BY <2>2, <2>3, <2>4, m + 1 \in Nat, LoopFrom
  <2> QED
    BY <2>5
<1> HIDE DEF T
<1>3. len \in T
  BY <1>1, <1>2, Induction
<1> QED
  BY <1>3 DEF T

LEMMA MagnitudeLoops ==
    ASSUME NEW ds, Len(ds) \in Nat
    PROVE  \E v : Loop(v, ds, Len(ds)) /\ Magnitude(ds) = v[Len(ds)]
<1> DEFINE c == CHOOSE v :
                  v = [i \in 0..Len(ds) |-> IF i = 0 THEN {0} ELSE Push(v[i - 1], ds[i])]
<1>1. \E v : v = [i \in 0..Len(ds) |-> IF i = 0 THEN {0} ELSE Push(v[i - 1], ds[i])]
  BY LoopExists DEF Loop
<1>2. c = [i \in 0..Len(ds) |-> IF i = 0 THEN {0} ELSE Push(c[i - 1], ds[i])]
  BY <1>1, Zenon
<1>3. Magnitude(ds) = c[Len(ds)]
  BY DEF Magnitude
<1> HIDE DEF c
<1>4. Loop(c, ds, Len(ds))
  BY <1>2 DEF Loop
<1> QED
  BY <1>3, <1>4

\* One digit more, as long as the number stays within an int64.
LEMMA PushDigit ==
    ASSUME NEW m \in Nat, NEW d \in 0..9, NEW x, x = m * 10 + d, x <= MaxInt64
    PROVE  Push({m}, d) = {x}
<1>1. MaxInt64 \in Nat
  BY LimitsAssumption
<1>2. m <= (MaxInt64 - d) \div 10
  BY <1>1
<1> QED
  BY <1>2 DEF Push

LEMMA PushedDigit ==
    ASSUME NEW N, NEW d \in Int, NEW x \in Push(N, d), N \subseteq 0..MaxInt64
    PROVE  \E m \in N : x = m * 10 + d /\ d \in 0..9 /\ x \in 0..MaxInt64
<1>1. MaxInt64 \in Nat
  BY LimitsAssumption
<1>2. PICK m \in N : x = m * 10 + d /\ d \in 0..9 /\ m <= (MaxInt64 - d) \div 10
  BY DEF Push
<1>3. m \in 0..MaxInt64
  BY <1>2
<1>4. 10 * m <= MaxInt64 - d
  BY <1>1, <1>2, <1>3
<1> QED
  BY <1>1, <1>2, <1>3, <1>4

LEMMA LastDigit ==
    ASSUME NEW m \in Nat, NEW d \in 0..9, NEW x, x = m * 10 + d
    PROVE  x \div 10 = m /\ x % 10 = d
OBVIOUS

LEMMA TenSplits ==
    ASSUME NEW a \in Int, NEW b \in Int, a \div 10 = b \div 10, a % 10 = b % 10
    PROVE  a = b
<1>1. a = 10 * (a \div 10) + (a % 10) /\ b = 10 * (b \div 10) + (b % 10)
  OBVIOUS
<1> QED
  BY <1>1

LEMMA DigitsType ==
    ASSUME NEW s \in Seq(Int)
    PROVE  Digits(s) \in Seq(Int) /\ Len(Digits(s)) \in Nat
BY DEF Digits, Signed

\* The number the digits denote is found.
LEMMA ParseComplete ==
    ASSUME NEW s \in Seq(Int), NEW n \in -MaxInt64..MaxInt64, Denotes(s, n)
    PROVE  parseAsciiInt(s) = {n}
<1> DEFINE ds == Digits(s)
           l  == Len(ds)
<1>1. ds \in Seq(Int) /\ l \in Nat /\ MaxInt64 \in Nat /\ n \in Int
  BY DigitsType, LimitsAssumption
<1>2. PICK r : Shifts(r, n, l)
  BY <1>1, ShiftsExist
<1>3. PICK v : Loop(v, ds, l) /\ Magnitude(ds) = v[l]
  BY <1>1, MagnitudeLoops
<1>4. /\ ds # <<>> /\ r[l] = 0
      /\ \A k \in 1..l : ds[l + 1 - k] = r[k - 1] % 10
      /\ n # 0 => (n < 0 <=> s[1] = Minus)
  BY <1>2, DenotesShifts
<1>5. \A k \in 0..l : r[k] \in 0..MaxInt64
  <2>1. Abs(n) \in 0..MaxInt64
    BY <1>1 DEF Abs
  <2> QED
    BY <1>1, <1>2, <2>1, ShiftsBound
<1> DEFINE T == {i \in Nat : i <= l => v[i] = {r[l - i]}}
<1>6. 0 \in T
  BY <1>1, <1>3, <1>4, LoopSteps
<1>7. ASSUME NEW i \in Nat, i \in T PROVE i + 1 \in T
  <2> SUFFICES ASSUME i + 1 <= l PROVE v[i + 1] = {r[l - (i + 1)]}
    OBVIOUS
  <2> DEFINE k == l - i
             x == r[k - 1]
             d == ds[i + 1]
  <2>1. k \in 1..l /\ l + 1 - k = i + 1 /\ k - 1 = l - (i + 1)
    BY <1>1
  <2>2. v[i + 1] = Push({r[k]}, d)
    <3>1. i + 1 \in 1..l /\ (i + 1) - 1 = i
      BY <1>1
    <3>2. v[i + 1] = Push(v[i], d)
      BY <1>1, <1>3, <3>1, LoopSteps
    <3>3. v[i] = {r[k]}
      BY <1>1, <1>7
    <3> QED
      BY <3>2, <3>3
  <2>3. x \in 0..MaxInt64 /\ d = x % 10 /\ r[k] = x \div 10
    <3>1. k - 1 \in 0..l
      BY <2>1
    <3>2. x \in 0..MaxInt64
      BY <1>5, <3>1
    <3>3. d = x % 10
      BY <1>4, <2>1
    <3>4. r[k] = x \div 10
      BY <1>1, <1>2, <2>1, ShiftsSteps
    <3> QED
      BY <3>2, <3>3, <3>4
  <2>4. v[i + 1] = {x}
    <3> HIDE DEF k, x, d
    <3>1. r[k] \in Nat /\ d \in 0..9 /\ x = r[k] * 10 + d /\ x <= MaxInt64
      BY <1>1, <2>3
    <3> QED
      BY <2>2, <3>1, PushDigit
  <2> QED
    BY <2>1, <2>4
<1>8. v[l] = {r[0]}
  <2> HIDE DEF T
  <2>1. l \in T
    BY <1>1, <1>6, <1>7, Induction
  <2> QED
    BY <1>1, <2>1 DEF T
<1>9. r[0] = Abs(n)
  BY <1>1, <1>2, ShiftsSteps
<1>10. Magnitude(ds) = {Abs(n)}
  BY <1>3, <1>8, <1>9
<1>11. s # <<>>
  BY <1>4 DEF Digits, Signed
<1> HIDE DEF ds, l
<1> QED
  BY <1>1, <1>4, <1>10, <1>11 DEF parseAsciiInt, Abs, ds

\* What is found is the number the digits denote.
LEMMA ParseSound ==
    ASSUME NEW s \in Seq(Int), NEW n \in parseAsciiInt(s)
    PROVE  n \in -MaxInt64..MaxInt64 /\ Denotes(s, n)
<1> DEFINE ds == Digits(s)
           l  == Len(ds)
<1>1. ds \in Seq(Int) /\ l \in Nat /\ MaxInt64 \in Nat
  BY DigitsType, LimitsAssumption
<1>2. PICK v : Loop(v, ds, l) /\ Magnitude(ds) = v[l]
  BY <1>1, MagnitudeLoops
<1> DEFINE Spelled(i, x) ==
             \E r : /\ Shifts(r, x, i) /\ r[i] = 0
                    /\ \A k \in 1..i : ds[i + 1 - k] = r[k - 1] % 10
           T == {i \in Nat : i <= l => \A x \in v[i] : x \in 0..MaxInt64 /\ Spelled(i, x)}
<1>3. 0 \in T
  <2>1. v[0] = {0}
    BY <1>1, <1>2, LoopSteps
  <2>2. PICK r : Shifts(r, 0, 0)
    BY ShiftsExist
  <2>3. r[0] = 0
    BY <2>2, ShiftsSteps DEF Abs
  <2>4. Spelled(0, 0)
    BY <2>2, <2>3
  <2> QED
    BY <1>1, <2>1, <2>4
<1>4. ASSUME NEW i \in Nat, i \in T PROVE i + 1 \in T
  <2> SUFFICES ASSUME i + 1 <= l, NEW x \in v[i + 1]
               PROVE  x \in 0..MaxInt64 /\ Spelled(i + 1, x)
    OBVIOUS
  <2>1. v[i + 1] = Push(v[i], ds[i + 1])
    <3>1. i + 1 \in 1..l /\ (i + 1) - 1 = i
      BY <1>1
    <3> QED
      BY <1>1, <1>2, <3>1, LoopSteps
  <2>2. v[i] \subseteq 0..MaxInt64 /\ \A m \in v[i] : Spelled(i, m)
    BY <1>1, <1>4
  <2>3. ds[i + 1] \in Int
    BY <1>1
  <2>4. PICK m \in v[i] : x = m * 10 + ds[i + 1] /\ ds[i + 1] \in 0..9 /\ x \in 0..MaxInt64
    <3> DEFINE N == v[i]
    <3>1. x \in Push(N, ds[i + 1])
      BY <2>1
    <3>2. N \subseteq 0..MaxInt64
      BY <2>2
    <3> HIDE DEF N
    <3>3. \E m \in N : x = m * 10 + ds[i + 1] /\ ds[i + 1] \in 0..9 /\ x \in 0..MaxInt64
      BY <2>3, <3>1, <3>2, PushedDigit
    <3> QED
      BY <3>3 DEF N
  <2>5. PICK r : /\ Shifts(r, m, i) /\ r[i] = 0
                 /\ \A k \in 1..i : ds[i + 1 - k] = r[k - 1] % 10
    BY <2>2
  <2>6. m \in Nat /\ x \in Nat /\ x \div 10 = m /\ x % 10 = ds[i + 1] /\ Abs(x) = x /\ Abs(m) = m
    <3>1. m \in Nat /\ x \in Nat
      BY <1>1, <2>2, <2>4
    <3> DEFINE d == ds[i + 1]
    <3>2. d \in 0..9 /\ x = m * 10 + d
      BY <2>4
    <3> HIDE DEF d
    <3>3. x \div 10 = m /\ x % 10 = d
      BY <3>1, <3>2, LastDigit
    <3> QED
      BY <3>1, <3>3 DEF Abs, d
  <2> DEFINE w == [k \in 0..(i + 1) |-> IF k = 0 THEN x ELSE r[k - 1]]
  <2>7. w[0] = Abs(x) /\ w[i + 1] = 0 /\ w = [k \in 0..(i + 1) |-> w[k]]
    BY <2>5, <2>6
  <2>8. ASSUME NEW k \in 1..(i + 1) PROVE w[k] = w[k - 1] \div 10
    <3>1. CASE k = 1
      BY <2>5, <2>6, <3>1, ShiftsSteps
    <3>2. CASE k \in 2..(i + 1)
      <4>1. k - 1 \in 1..i /\ w[k] = r[k - 1] /\ w[k - 1] = r[k - 1 - 1]
        BY <3>2
      <4> QED
        BY <2>5, <4>1, ShiftsSteps
    <3> QED
      BY <3>1, <3>2
  <2>9. ASSUME NEW k \in 1..(i + 1) PROVE ds[i + 1 + 1 - k] = w[k - 1] % 10
    <3>1. CASE k = 1
      BY <2>6, <3>1
    <3>2. CASE k \in 2..(i + 1)
      <4>1. k - 1 \in 1..i /\ w[k - 1] = r[k - 1 - 1] /\ i + 1 + 1 - k = i + 1 - (k - 1)
        BY <3>2
      <4> QED
        BY <2>5, <4>1
    <3> QED
      BY <3>1, <3>2
  <2> HIDE DEF w
  <2>10. Shifts(w, x, i + 1)
    BY <2>7, <2>8, i + 1 \in Nat, ShiftsFrom
  <2> QED
    BY <2>4, <2>7, <2>9, <2>10
<1>5. ASSUME NEW x \in Magnitude(ds) PROVE x \in 0..MaxInt64 /\ Spelled(l, x)
  <2> HIDE DEF T
  <2>1. l \in T
    BY <1>1, <1>3, <1>4, Induction
  <2>2. x \in v[l]
    BY <1>2
  <2> QED
    BY <1>1, <2>1, <2>2 DEF T
<1>6. PICK x \in Magnitude(ds) :
        /\ ds # <<>>
        /\ n = x * (IF s # <<>> /\ s[1] = Minus THEN -1 ELSE 1)
  BY DEF parseAsciiInt
<1>7. x \in 0..MaxInt64
  BY <1>5
<1>8. PICK r : /\ Shifts(r, x, l) /\ r[l] = 0
               /\ \A k \in 1..l : ds[l + 1 - k] = r[k - 1] % 10
  BY <1>5
<1>9. n \in -MaxInt64..MaxInt64 /\ Abs(n) = Abs(x)
  BY <1>1, <1>6, <1>7 DEF Abs
<1>10. Shifts(r, n, l)
  BY <1>8, <1>9 DEF Shifts
<1>11. s # <<>>
  BY <1>6 DEF Digits, Signed
<1>12. n # 0 => (n < 0 <=> s[1] = Minus)
  BY <1>1, <1>6, <1>7, <1>11
<1>13. Denotes(s, n)
  BY <1>6, <1>8, <1>10, <1>12, DenotesShifts
<1> QED
  BY <1>9, <1>13

\* parseAsciiInt returns the number its digits denote, if an int64 holds its size,
\* and refuses every other line: its overflow guard takes the largest int64 and
\* refuses the next number (resp.go 186-217).
THEOREM ParsesWhatDigitsDenote ==
    ASSUME NEW s \in Seq(Int)
    PROVE  /\ parseAsciiInt(s) = {n \in -MaxInt64..MaxInt64 : Denotes(s, n)}
           /\ \A m, n \in parseAsciiInt(s) : m = n
<1>1. \A n \in -MaxInt64..MaxInt64 : Denotes(s, n) => parseAsciiInt(s) = {n}
  BY ParseComplete
<1>2. \A n \in parseAsciiInt(s) : n \in -MaxInt64..MaxInt64 /\ Denotes(s, n)
  BY ParseSound
<1> QED
  BY <1>1, <1>2

-----------------------------------------------------------------------------
(* Meaning: recursion over the nesting of a reply.                         *)

\* Only the elements matter.
LEMMA MeaningByElements ==
    ASSUME NEW r \in Replies, NEW g, NEW h,
           \A q \in Replies : Depth[q] < Depth[r] => g[q] = h[q]
    PROVE  MeaningBy(g, r) = MeaningBy(h, r)
<1>1. CASE r[1] = "*"
  <2>1. r[2] \in Seq(Replies) /\ \A i \in 1..Len(r[2]) : Depth[r[2][i]] < Depth[r]
    BY <1>1, RepliesAssumption
  <2>2. \A i \in 1..Len(r[2]) : r[2][i] \in Replies
    BY <2>1
  <2>3. \A i \in 1..Len(r[2]) : g[r[2][i]] = h[r[2][i]]
    BY <2>1, <2>2
  <2>4. [i \in 1..Len(r[2]) |-> g[r[2][i]]] = [i \in 1..Len(r[2]) |-> h[r[2][i]]]
    BY <2>3
  <2> QED
    BY <1>1, <2>3, <2>4 DEF MeaningBy
<1>2. CASE r[1] # "*"
  BY <1>2 DEF MeaningBy
<1> QED
  BY <1>1, <1>2

\* h is right about replies of less than n levels.
RightBelow(h, n) == \A r \in Replies : Depth[r] < n => h[r] = MeaningBy(h, r)

LEMMA RightBelowExists == \A n \in Nat : \E h : RightBelow(h, n)
<1> DEFINE T == {n \in Nat : \E h : RightBelow(h, n)}
<1>1. 0 \in T
  <2>1. \A r \in Replies : ~ (Depth[r] < 0)
    BY RepliesAssumption
  <2>2. RightBelow([r \in Replies |-> Nil], 0)
    BY <2>1 DEF RightBelow
  <2> QED
    BY <2>2
<1>2. ASSUME NEW n \in Nat, n \in T PROVE n + 1 \in T
  <2>1. PICK h : RightBelow(h, n)
    BY <1>2
  <2> DEFINE g == [r \in Replies |-> MeaningBy(h, r)]
  <2>2. ASSUME NEW r \in Replies, Depth[r] < n PROVE g[r] = h[r]
    BY <2>1, <2>2 DEF RightBelow
  <2>3. ASSUME NEW r \in Replies, Depth[r] < n + 1 PROVE g[r] = MeaningBy(g, r)
    <3>1. Depth[r] \in Nat /\ \A q \in Replies : Depth[q] \in Nat
      BY RepliesAssumption
    <3>2. \A q \in Replies : Depth[q] < Depth[r] => g[q] = h[q]
      BY <2>2, <2>3, <3>1
    <3>3. g[r] = MeaningBy(h, r)
      OBVIOUS
    <3> HIDE DEF g
    <3> QED
      BY <3>2, <3>3, MeaningByElements
  <2> HIDE DEF g
  <2>4. RightBelow(g, n + 1)
    BY <2>3 DEF RightBelow
  <2> QED
    BY <2>4
<1> HIDE DEF T
<1>3. \A n \in Nat : n \in T
  BY <1>1, <1>2, Induction
<1> QED
  BY <1>3 DEF T

LEMMA RightBelowUnique ==
    ASSUME NEW g, NEW m \in Nat, RightBelow(g, m), NEW h, NEW n \in Nat, RightBelow(h, n)
    PROVE  \A r \in Replies : Depth[r] < m /\ Depth[r] < n => g[r] = h[r]
<1> DEFINE T == {d \in Nat : \A r \in Replies :
                   Depth[r] = d /\ d < m /\ d < n => g[r] = h[r]}
<1>0. \A r \in Replies : Depth[r] \in Nat
  BY RepliesAssumption
<1>1. ASSUME NEW d \in Nat, \A k \in Nat : k < d => k \in T PROVE d \in T
  <2> SUFFICES ASSUME NEW r \in Replies, Depth[r] = d, d < m, d < n PROVE g[r] = h[r]
    OBVIOUS
  <2>1. \A q \in Replies : Depth[q] < Depth[r] => g[q] = h[q]
    BY <1>0, <1>1
  <2>2. MeaningBy(g, r) = MeaningBy(h, r)
    BY <2>1, MeaningByElements
  <2> QED
    BY <2>2 DEF RightBelow
<1> HIDE DEF T
<1>2. \A d \in Nat : d \in T
  BY <1>1, CourseOfValues
<1> QED
  BY <1>0, <1>2 DEF T

LEMMA MeaningExists == \E h : h = [r \in Replies |-> MeaningBy(h, r)]
<1> DEFINE below(r) == CHOOSE h : RightBelow(h, Depth[r] + 1)
           g == [r \in Replies |-> below(r)[r]]
<1>0. \A r \in Replies : Depth[r] \in Nat
  BY RepliesAssumption
<1>1. ASSUME NEW r \in Replies PROVE RightBelow(below(r), Depth[r] + 1)
  <2>1. \E h : RightBelow(h, Depth[r] + 1)
    BY <1>0, RightBelowExists
  <2> QED
    BY <2>1
<1>2. \A r \in Replies : g[r] = below(r)[r]
  OBVIOUS
<1>3. g = [r \in Replies |-> g[r]]
  OBVIOUS
<1> HIDE DEF below, g
<1>4. ASSUME NEW r \in Replies PROVE g[r] = MeaningBy(g, r)
  <2>1. ASSUME NEW q \in Replies, Depth[q] < Depth[r] PROVE g[q] = below(r)[q]
    <3>1. RightBelow(below(q), Depth[q] + 1) /\ RightBelow(below(r), Depth[r] + 1)
      BY <1>1
    <3>2. Depth[q] + 1 \in Nat /\ Depth[r] + 1 \in Nat /\ Depth[q] < Depth[q] + 1
            /\ Depth[q] < Depth[r] + 1
      BY <1>0, <2>1
    <3>3. below(q)[q] = below(r)[q]
      BY <3>1, <3>2, RightBelowUnique
    <3> QED
      BY <1>2, <3>3
  <2>2. MeaningBy(g, r) = MeaningBy(below(r), r)
    BY <2>1, MeaningByElements
  <2>3. below(r)[r] = MeaningBy(below(r), r)
    BY <1>0, <1>1 DEF RightBelow
  <2> QED
    BY <1>2, <2>2, <2>3
<1>5. [r \in Replies |-> g[r]] = [r \in Replies |-> MeaningBy(g, r)]
  BY <1>4
<1>6. g = [r \in Replies |-> MeaningBy(g, r)]
  BY <1>3, <1>5
<1> QED
  BY <1>6, Zenon

\* Meaning satisfies the equation that defines it.
LEMMA MeaningEquation == \A r \in Replies : Meaning[r] = MeaningBy(Meaning, r)
<1>1. Meaning = CHOOSE h : h = [r \in Replies |-> MeaningBy(h, r)]
  BY Zenon DEF Meaning
<1>2. Meaning = [r \in Replies |-> MeaningBy(Meaning, r)]
  BY <1>1, MeaningExists, Zenon
<1> QED
  BY <1>2, Zenon

-----------------------------------------------------------------------------
(* One line of a reply.                                                    *)

LEMMA DenotesUnique ==
    ASSUME NEW s \in Seq(Int), NEW m \in Int, NEW n \in Int, Denotes(s, m), Denotes(s, n)
    PROVE  m = n
<1> DEFINE ds == Digits(s)
           l  == Len(ds)
<1>1. ds \in Seq(Int) /\ l \in Nat
  BY DigitsType
<1>2. PICK r : Shifts(r, m, l)
  BY <1>1, ShiftsExist
<1>3. PICK q : Shifts(q, n, l)
  BY <1>1, ShiftsExist
<1>4. /\ r[l] = 0 /\ \A k \in 1..l : ds[l + 1 - k] = r[k - 1] % 10
      /\ m # 0 => (m < 0 <=> s[1] = Minus)
  BY <1>2, DenotesShifts
<1>5. /\ q[l] = 0 /\ \A k \in 1..l : ds[l + 1 - k] = q[k - 1] % 10
      /\ n # 0 => (n < 0 <=> s[1] = Minus)
  BY <1>3, DenotesShifts
<1> DEFINE T == {i \in Nat : i <= l => r[l - i] = q[l - i]}
<1>6. 0 \in T
  BY <1>1, <1>4, <1>5
<1>7. ASSUME NEW i \in Nat, i \in T PROVE i + 1 \in T
  <2> SUFFICES ASSUME i + 1 <= l PROVE r[l - (i + 1)] = q[l - (i + 1)]
    OBVIOUS
  <2> DEFINE k == l - i
  <2>1. k \in 1..l /\ k - 1 \in 0..l /\ k - 1 = l - (i + 1)
    BY <1>1
  <2>2. r[k] = q[k]
    BY <1>1, <1>7
  <2>3. r[k] = r[k - 1] \div 10 /\ q[k] = q[k - 1] \div 10
    BY <1>1, <1>2, <1>3, <2>1, ShiftsSteps
  <2>4. r[k - 1] % 10 = q[k - 1] % 10
    BY <1>4, <1>5, <2>1
  <2>5. r[k - 1] \in Int /\ q[k - 1] \in Int
    <3>1. Abs(m) \in Nat /\ Abs(n) \in Nat
      BY DEF Abs
    <3>2. r[k - 1] \in 0..Abs(m) /\ q[k - 1] \in 0..Abs(n)
      BY <1>1, <1>2, <1>3, <2>1, ShiftsBound
    <3> QED
      BY <3>1, <3>2
  <2> HIDE DEF k
  <2>6. r[k - 1] = q[k - 1]
    BY <2>2, <2>3, <2>4, <2>5, TenSplits
  <2> QED
    BY <2>1, <2>6
<1>8. r[0] = q[0]
  <2> HIDE DEF T
  <2>1. l \in T
    BY <1>1, <1>6, <1>7, Induction
  <2> QED
    BY <1>1, <2>1 DEF T
<1>9. Abs(m) = Abs(n)
  BY <1>1, <1>2, <1>3, <1>8, ShiftsSteps
<1> QED
  BY <1>4, <1>5, <1>9 DEF Abs

\* The two nulls are those of length -1.
LEMMA NullsParse == parseAsciiInt(<<Minus, 1>>) = {-1}
<1> DEFINE s == <<Minus, 1>>
           r == [k \in 0..1 |-> IF k = 0 THEN 1 ELSE 0]
<1>1. s \in Seq(Int) /\ s # <<>> /\ s[1] = Minus
  BY DEF Minus
<1>2. Digits(s) = <<1>> /\ Len(Digits(s)) = 1
  BY DEF Digits, Signed, Minus, Plus
<1>3. r[0] = 1 /\ r[1] = 0 /\ r = [k \in 0..1 |-> r[k]]
  OBVIOUS
<1>4. 1 \div 10 = 0 /\ 1 % 10 = 1
  OBVIOUS
<1>5. Abs(-1) = 1
  <2>1. \A n \in Int : n + 1 = 0 => Abs(n) = 1
    BY DEF Abs
  <2>2. -1 \in Int /\ -1 + 1 = 0
    OBVIOUS
  <2> QED
    BY <2>1, <2>2
<1> HIDE DEF r, s
<1>6. \A k \in 1..1 : r[k] = r[k - 1] \div 10
  BY <1>3, <1>4
<1>7. Shifts(r, -1, 1)
  BY <1>3, <1>5, <1>6, ShiftsFrom
<1>8. Denotes(s, -1)
  <2>1. \A k \in 1..1 : Digits(s)[Len(Digits(s)) + 1 - k] = r[k - 1] % 10
    BY <1>2, <1>3, <1>4
  <2>2. Digits(s) # <<>> /\ (-1 # 0 => (-1 < 0 <=> s[1] = Minus))
    BY <1>1, <1>2
  <2> QED
    BY <1>1, <1>2, <1>3, <1>7, <2>1, <2>2, DenotesShifts
<1>9. -1 \in -MaxInt64..MaxInt64
  BY LimitsAssumption
<1> QED
  BY <1>1, <1>8, <1>9, ParseComplete DEF s

\* The number in the line of a reply is its length or its value.
LEMMA ParsedNumber ==
    ASSUME NEW s \in Seq(Int), NEW n \in Int, Denotes(s, n)
    PROVE  parseAsciiInt(s) = IF n \in -MaxInt64..MaxInt64 THEN {n} ELSE {}
<1>1. \A m \in parseAsciiInt(s) : m \in -MaxInt64..MaxInt64 /\ m \in Int /\ Denotes(s, m)
  BY ParseSound, LimitsAssumption
<1>2. \A m \in parseAsciiInt(s) : m = n
  BY <1>1, DenotesUnique
<1> QED
  BY <1>1, <1>2, ParseComplete

LEMMA HeaderOfLength ==
    ASSUME NEW r \in Replies, r[1] \in {"$", "*"}
    PROVE  /\ Header(r)[1] = r[1] /\ Length(r) \in Nat
           /\ parseAsciiInt(Header(r)[2]) = IF Length(r) <= MaxInt64 THEN {Length(r)} ELSE {}
<1>1. Header(r) = <<r[1], Decimal[Length(r)]>>
  BY DEF Header
<1>2. /\ Length(r) \in Nat /\ Decimal[Length(r)] \in Seq(Int)
      /\ Denotes(Decimal[Length(r)], Length(r))
  BY LengthsAssumption
<1>3. Length(r) \in -MaxInt64..MaxInt64 <=> Length(r) <= MaxInt64
  BY <1>2, LimitsAssumption
<1>4. parseAsciiInt(Decimal[Length(r)])
        = IF Length(r) \in -MaxInt64..MaxInt64 THEN {Length(r)} ELSE {}
  <2> DEFINE n == Length(r)
  <2>1. n \in Int /\ Decimal[n] \in Seq(Int) /\ Denotes(Decimal[n], n)
    BY <1>2
  <2> HIDE DEF n
  <2>2. parseAsciiInt(Decimal[n]) = IF n \in -MaxInt64..MaxInt64 THEN {n} ELSE {}
    BY <2>1, ParsedNumber
  <2> QED
    BY <2>2 DEF n
<1> QED
  BY <1>1, <1>2, <1>3, <1>4

LEMMA HeaderOfLine ==
    ASSUME NEW r \in Replies, r[1] = "line"
    PROVE  /\ Header(r) = r[2]
           /\ \/ r[2] \in Nulls /\ parseAsciiInt(r[2][2]) = {-1}
              \/ r[2] \notin Nulls /\ Unreadable(r[2])
                   /\ (r[2][1] = ":" => parseAsciiInt(r[2][2]) = {})
                   /\ (r[2][1] = "$" => parseAsciiInt(r[2][2]) \cap (-1..maxBulkLen) = {})
                   /\ (r[2][1] = "*" => parseAsciiInt(r[2][2]) \cap (-1..maxArrayLen) = {})
<1> DEFINE l == r[2]
<1>1. Header(r) = l /\ (l \in Nulls \/ Malformed(l))
  BY RepliesAssumption DEF Header
<1>2. l \in Nulls => parseAsciiInt(l[2]) = {-1}
  BY NullsParse DEF Nulls
<1> HIDE DEF l
<1>3. ASSUME l \notin Nulls, l[1] \in {":", "$", "*"}
      PROVE  /\ l[2] \in Seq(Int)
             /\ parseAsciiInt(l[2]) = {n \in -MaxInt64..MaxInt64 : Denotes(l[2], n)}
             /\ ~InRange(l)
  BY <1>1, <1>3, ParsesWhatDigitsDenote DEF Malformed
<1>4. MaxInt64 \in Nat \ {0} /\ maxBulkLen \in 0..MaxInt64 /\ maxArrayLen \in 0..MaxInt64
  BY LimitsAssumption
<1>5. ASSUME l \notin Nulls, l[1] = ":" PROVE parseAsciiInt(l[2]) = {}
  BY <1>3, <1>5 DEF InRange
<1>6. ASSUME l \notin Nulls, l[1] = "$"
      PROVE  /\ parseAsciiInt(l[2]) \cap (-1..maxBulkLen) = {}
             /\ parseAsciiInt(l[2]) \subseteq Int
  BY <1>3, <1>4, <1>6 DEF InRange
<1>7. ASSUME l \notin Nulls, l[1] = "*"
      PROVE  /\ parseAsciiInt(l[2]) \cap (-1..maxArrayLen) = {}
             /\ parseAsciiInt(l[2]) \subseteq Int
  BY <1>3, <1>4, <1>7 DEF InRange
<1>8. ASSUME l \notin Nulls PROVE Unreadable(l)
  <2>1. CASE l[1] \notin {"+", "-", ":", "$", "*"}
    BY <2>1 DEF Unreadable
  <2>2. CASE l[1] = ":"
    BY <1>5, <1>8, <2>2 DEF Unreadable
  <2>3. CASE l[1] = "$"
    <3>1. parseAsciiInt(l[2]) = {} \/ \E n \in parseAsciiInt(l[2]) : n < -1 \/ n > maxBulkLen
      BY <1>4, <1>6, <1>8, <2>3
    <3> QED
      BY <2>3, <3>1 DEF Unreadable
  <2>4. CASE l[1] = "*"
    <3>1. parseAsciiInt(l[2]) = {} \/ \E n \in parseAsciiInt(l[2]) : n < -1 \/ n > maxArrayLen
      BY <1>4, <1>7, <1>8, <2>4
    <3> QED
      BY <2>4, <3>1 DEF Unreadable
  <2>5. l[1] \in {"+", "-"} => FALSE
    BY <1>1, <1>8 DEF Malformed
  <2> QED
    BY <2>1, <2>2, <2>3, <2>4, <2>5
<1> QED
  BY <1>1, <1>2, <1>5, <1>6, <1>7, <1>8 DEF l

\* A line that is a whole reply, or the head of a text.
LEMMA ReadsLeaf ==
    ASSUME NEW r \in Replies, NEW l, l = Header(r)
    PROVE  /\ l[1] = "+" => Meaning[r] = <<"string", l[2]>>
           /\ l[1] = "-" => Meaning[r] = <<"RedisError", l[2]>>
           /\ l[1] = ":" => \A n \in parseAsciiInt(l[2]) : Meaning[r] = <<"int64", n>>
           /\ (l[1] \in {"$", "*"} /\ parseAsciiInt(l[2]) = {-1}) => Meaning[r] = Nil
           /\ (l[1] = "$" /\ \E n \in parseAsciiInt(l[2]) : n \in 0..maxBulkLen)
                => Meaning[r] = <<"string", r[2]>>
           /\ Unreadable(l) => Meaning[r] = Broken
<1>0. /\ r[1] \in {"+", "-", ":", "$", "*", "line"}
      /\ MaxInt64 \in Nat \ {0} /\ maxBulkLen \in 0..MaxInt64 /\ maxArrayLen \in 0..MaxInt64
      /\ Meaning[r] = MeaningBy(Meaning, r)
  BY RepliesAssumption, LimitsAssumption, MeaningEquation
<1>1. CASE r[1] = "+" \/ r[1] = "-"
  BY <1>0, <1>1 DEF Header, MeaningBy, Unreadable
<1>2. CASE r[1] = ":"
  <2>1. l = r /\ r[2] \in Seq(Int)
    BY <1>2, RepliesAssumption DEF Header
  <2>2. /\ parseAsciiInt(r[2]) = {n \in -MaxInt64..MaxInt64 : Denotes(r[2], n)}
        /\ \A m, n \in parseAsciiInt(r[2]) : m = n
    BY <2>1, ParsesWhatDigitsDenote
  <2>3. InRange(r) <=> parseAsciiInt(r[2]) # {}
    BY <1>2, <2>2 DEF InRange
  <2>4. ASSUME NEW n \in parseAsciiInt(r[2]) PROVE Meaning[r] = <<"int64", n>>
    <3>1. n = CHOOSE m \in -MaxInt64..MaxInt64 : Denotes(r[2], m)
      BY <2>2, <2>4
    <3>2. InRange(r)
      BY <2>3, <2>4
    <3> QED
      BY <1>0, <1>2, <3>1, <3>2 DEF MeaningBy
  <2>5. parseAsciiInt(r[2]) = {} => Meaning[r] = Broken
    BY <1>0, <1>2, <2>3 DEF MeaningBy
  <2>6. Unreadable(l) => parseAsciiInt(r[2]) = {}
    BY <1>2, <2>1 DEF Unreadable
  <2> QED
    BY <1>2, <2>1, <2>4, <2>5, <2>6
<1>3. CASE r[1] = "$"
  <2>1. /\ l[1] = "$" /\ Length(r) \in Nat /\ Length(r) = Size[r[2]]
        /\ parseAsciiInt(l[2]) = IF Length(r) <= MaxInt64 THEN {Length(r)} ELSE {}
    BY <1>3, HeaderOfLength DEF Length
  <2>2. \A n \in parseAsciiInt(l[2]) : n = Length(r) /\ n >= 0 /\ n # -1
    BY <2>1
  <2>3. Length(r) <= maxBulkLen => Meaning[r] = <<"string", r[2]>>
    BY <1>0, <1>3, <2>1 DEF MeaningBy
  <2>4. ~(Length(r) <= maxBulkLen) => Meaning[r] = Broken
    BY <1>0, <1>3, <2>1 DEF MeaningBy
  <2>5. Unreadable(l) => ~(Length(r) <= maxBulkLen)
    BY <1>0, <2>1, <2>2 DEF Unreadable
  <2> QED
    BY <1>0, <2>1, <2>2, <2>3, <2>4, <2>5
<1>4. CASE r[1] = "*"
  <2>1. /\ l[1] = "*" /\ Length(r) \in Nat /\ Length(r) = Len(r[2])
        /\ parseAsciiInt(l[2]) = IF Length(r) <= MaxInt64 THEN {Length(r)} ELSE {}
    BY <1>4, HeaderOfLength DEF Length
  <2>2. \A n \in parseAsciiInt(l[2]) : n = Length(r) /\ n >= 0 /\ n # -1
    BY <2>1
  <2>3. ~(Length(r) <= maxArrayLen) => Meaning[r] = Broken
    BY <1>0, <1>4, <2>1 DEF MeaningBy
  <2>4. Unreadable(l) => ~(Length(r) <= maxArrayLen)
    BY <1>0, <2>1, <2>2 DEF Unreadable
  <2> QED
    BY <2>1, <2>2, <2>3, <2>4
<1>5. CASE r[1] = "line"
  <2>1. l = r[2]
    BY <1>5, HeaderOfLine
  <2>2. CASE l \in Nulls
    <3>1. parseAsciiInt(l[2]) = {-1}
      BY <1>5, <2>1, <2>2, HeaderOfLine
    <3>2. Meaning[r] = Nil
      BY <1>0, <1>5, <2>1, <2>2 DEF MeaningBy
    <3>3. l[1] \in {"$", "*"} /\ ~Unreadable(l)
      BY <1>0, <2>2, <3>1 DEF Nulls, Unreadable
    <3> QED
      BY <3>1, <3>2, <3>3
  <2>3. CASE l \notin Nulls
    <3>1. /\ Unreadable(l)
          /\ (l[1] = ":" => parseAsciiInt(l[2]) = {})
          /\ (l[1] = "$" => parseAsciiInt(l[2]) \cap (-1..maxBulkLen) = {})
          /\ (l[1] = "*" => parseAsciiInt(l[2]) \cap (-1..maxArrayLen) = {})
      BY <1>5, <2>1, <2>3, HeaderOfLine
    <3>2. Meaning[r] = Broken
      BY <1>0, <1>5, <2>1, <2>3 DEF MeaningBy
    <3>3. l[1] \notin {"+", "-"}
      BY <1>5, <2>1, <2>3, RepliesAssumption DEF Malformed
    <3>4. -1 \in -1..maxBulkLen /\ -1 \in -1..maxArrayLen /\ 0..maxBulkLen \subseteq -1..maxBulkLen
      BY <1>0
    <3> QED
      BY <3>1, <3>2, <3>3, <3>4
  <2> QED
    BY <2>2, <2>3
<1> QED
  BY <1>0, <1>1, <1>2, <1>3, <1>4, <1>5

\* The line of an array.
LEMMA ReadsArray ==
    ASSUME NEW r \in Replies, Header(r)[1] = "*",
           NEW n \in parseAsciiInt(Header(r)[2]), n \in 0..maxArrayLen
    PROVE  r[1] = "*" /\ r[2] \in Seq(Replies) /\ n = Len(r[2])
<1>1. /\ r[1] \in {"+", "-", ":", "$", "*", "line"}
      /\ r[1] = "*" => r[2] \in Seq(Replies)
      /\ maxArrayLen \in Nat
  BY RepliesAssumption, LimitsAssumption
<1>2. CASE r[1] \in {"$", "*"}
  BY <1>1, <1>2, HeaderOfLength DEF Length
<1>3. CASE r[1] = "line"
  <2>1. n \in -1..maxArrayLen /\ n # -1
    BY <1>1
  <2> QED
    BY <1>3, <2>1, HeaderOfLine
<1>4. CASE r[1] \in {"+", "-", ":"}
  BY <1>4 DEF Header
<1> QED
  BY <1>1, <1>2, <1>3, <1>4

-----------------------------------------------------------------------------
(* Sequences: what is left of one, and the front of another.               *)

LEMMA ConsHeadTail ==
    ASSUME NEW S, NEW x \in S, NEW e \in Seq(S)
    PROVE  <<x>> \o e \in Seq(S) /\ <<x>> \o e # <<>> /\ Head(<<x>> \o e) = x /\ Tail(<<x>> \o e) = e
<1> DEFINE o == <<x>>
           d == o \o e
<1>1. o \in Seq(S) /\ Len(o) = 1 /\ o[1] = x /\ Len(e) \in Nat
  OBVIOUS
<1> HIDE DEF o
<1>2. /\ d \in Seq(S) /\ Len(d) = Len(o) + Len(e)
      /\ \A i \in 1..(Len(o) + Len(e)) : d[i] = IF i <= Len(o) THEN o[i] ELSE e[i - Len(o)]
  BY <1>1, ConcatProperties
<1> HIDE DEF d
<1>3. Len(d) = 1 + Len(e) /\ d[1] = x /\ \A i \in 1..Len(e) : d[i + 1] = e[i]
  BY <1>1, <1>2
<1>4. d # <<>> /\ Head(d) = x
  BY <1>1, <1>2, <1>3
<1>5. /\ Tail(d) \in Seq(S) /\ Len(Tail(d)) = Len(d) - 1
      /\ \A i \in 1..Len(Tail(d)) : Tail(d)[i] = d[i + 1]
  BY <1>2, <1>4, HeadTailProperties
<1>6. Tail(d) = e
  BY <1>1, <1>3, <1>5, SeqEqual
<1> QED
  BY <1>2, <1>4, <1>6 DEF d, o

LEMMA ConcatThree ==
    ASSUME NEW S, NEW x \in Seq(S), NEW y \in Seq(S), NEW z \in Seq(S)
    PROVE  (x \o y) \o z = x \o (y \o z) /\ x \o y \in Seq(S) /\ y \o z \in Seq(S)
BY ConcatAssociative, ConcatProperties

LEMMA ConsRest ==
    ASSUME NEW S, NEW x \in S, NEW w \in Seq(S), NEW q \in Seq(S), NEW u, u = <<x>> \o w
    PROVE  /\ u \o q \in Seq(S) /\ u \o q # <<>>
           /\ Head(u \o q) = x /\ Tail(u \o q) = w \o q
<1>0. <<x>> \in Seq(S)
  OBVIOUS
<1>1. PICK o \in Seq(S) : o = <<x>>
  BY <1>0, Zenon
<1>2. (o \o w) \o q = o \o (w \o q) /\ w \o q \in Seq(S)
  BY ConcatThree
<1>3. PICK e \in Seq(S) : e = w \o q
  BY <1>2
<1>4. o \o e \in Seq(S) /\ o \o e # <<>> /\ Head(o \o e) = x /\ Tail(o \o e) = e
  BY <1>1, ConsHeadTail
<1> QED
  BY <1>1, <1>2, <1>3, <1>4

\* The elements of s from the a-th on, followed by q: the next one and the rest.
Rest(s, a, q) == SubSeq(s, a, Len(s)) \o q

LEMMA NextOfRest ==
    ASSUME NEW S, NEW s \in Seq(S), NEW q \in Seq(S), NEW a \in 1..Len(s)
    PROVE  /\ Rest(s, a, q) \in Seq(S)
           /\ Rest(s, a, q) # <<>>
           /\ Head(Rest(s, a, q)) = s[a]
           /\ Tail(Rest(s, a, q)) = Rest(s, a + 1, q)
<1>1. Len(s) \in Nat /\ a \in Int /\ s[a] \in S /\ \A i \in 1..Len(s) : s[i] \in S
  BY LenProperties, ElementOfSeq
<1>2. PICK w : w = SubSeq(s, a + 1, Len(s))
  OBVIOUS
<1>3. w \in Seq(S)
  <2>1. \A i \in (a + 1)..Len(s) : s[i] \in S
    BY <1>1
  <2> QED
    BY <1>1, <1>2, <2>1, SubSeqProperties
<1>4. PICK u : u = SubSeq(s, a, Len(s))
  OBVIOUS
<1>5. u = <<s[a]>> \o w
  BY <1>1, <1>2, <1>4, SubSeqRecursiveFirst
<1>6. u \o q \in Seq(S) /\ u \o q # <<>> /\ Head(u \o q) = s[a] /\ Tail(u \o q) = w \o q
  BY <1>1, <1>3, <1>5, ConsRest
<1> QED
  BY <1>2, <1>4, <1>6 DEF Rest

LEMMA NothingLeft ==
    ASSUME NEW S, NEW s \in Seq(S), NEW q \in Seq(S)
    PROVE  Rest(s, Len(s) + 1, q) = q
BY SubSeqEmpty, ConcatEmptySeq, LenProperties DEF Rest

LEMMA AllLeft ==
    ASSUME NEW S, NEW s \in Seq(S), NEW q \in Seq(S)
    PROVE  Rest(s, 1, q) = s \o q
BY SubSeqFull DEF Rest

LEMMA HeadTailOfConcat ==
    ASSUME NEW S, NEW w \in Seq(S), NEW q \in Seq(S), w # <<>>
    PROVE  /\ Head(w \o q) = Head(w) /\ Tail(w \o q) = Tail(w) \o q
           /\ Head(w) \in S /\ Tail(w) \in Seq(S)
<1>1. Len(w) \in Nat /\ 1 \in 1..Len(w)
  BY EmptySeq
<1>2. SubSeq(w, 1, Len(w)) = w /\ SubSeq(w, 1 + 1, Len(w)) = Tail(w)
  BY SubSeqFull, TailIsSubSeq
<1>3. Head(w) = w[1] /\ Head(w) \in S /\ Tail(w) \in Seq(S)
  BY HeadTailProperties
<1>4. Rest(w, 1, q) = w \o q /\ Rest(w, 1 + 1, q) = Tail(w) \o q
  BY <1>2 DEF Rest
<1>5. Head(Rest(w, 1, q)) = w[1] /\ Tail(Rest(w, 1, q)) = Rest(w, 1 + 1, q)
  BY <1>1, NextOfRest
<1> QED
  BY <1>3, <1>4, <1>5

\* Cutting a sequence short leaves something.
LEMMA CutShort ==
    ASSUME NEW S, NEW w \in Seq(S), NEW n \in 0..(Len(w) - 1)
    PROVE  /\ SubSeq(w, 1, n) \in Seq(S) /\ SubSeq(w, n + 1, Len(w)) \in Seq(S)
           /\ SubSeq(w, n + 1, Len(w)) # <<>>
           /\ w = SubSeq(w, 1, n) \o SubSeq(w, n + 1, Len(w))
<1>1. Len(w) \in Nat /\ n \in Int /\ \A i \in 1..Len(w) : w[i] \in S
  BY LenProperties, ElementOfSeq
<1>2. SubSeq(w, 1, n) \in Seq(S)
  BY <1>1, SubSeqProperties
<1>3. SubSeq(w, n + 1, Len(w)) \in Seq(S) /\ Len(SubSeq(w, n + 1, Len(w))) # 0
  <2>1. /\ SubSeq(w, n + 1, Len(w)) \in Seq(S)
        /\ Len(SubSeq(w, n + 1, Len(w))) = IF n + 1 <= Len(w) THEN Len(w) - (n + 1) + 1 ELSE 0
    BY <1>1, SubSeqProperties
  <2> QED
    BY <1>1, <2>1
<1>4. SubSeq(w, 1, n) \o SubSeq(w, n + 1, Len(w)) = SubSeq(w, 1, Len(w))
  BY <1>1, ConcatAdjacentSubSeq
<1>5. SubSeq(w, n + 1, Len(w)) # <<>>
  BY <1>3, EmptySeq
<1>6. w = SubSeq(w, 1, n) \o SubSeq(w, n + 1, Len(w))
  BY <1>4, SubSeqFull
<1> QED
  BY <1>2, <1>3, <1>5, <1>6

-----------------------------------------------------------------------------
(* The arrays under construction.                                          *)

\* An array is as refused as its elements.
LEMMA ElementRefused ==
    ASSUME NEW r \in Replies, r[1] = "*", NEW i \in 1..Len(r[2]), Meaning[r[2][i]] = Broken
    PROVE  Meaning[r] = Broken
BY MeaningEquation DEF MeaningBy

LEMMA ArrayDone ==
    ASSUME NEW r \in Replies, r[1] = "*", Len(r[2]) <= maxArrayLen,
           NEW e \in Seq(Values), Len(e) = Len(r[2]),
           \A j \in 1..Len(e) : e[j] = Meaning[r[2][j]] /\ e[j] # Broken
    PROVE  Meaning[r] = <<"slice", e>> /\ Meaning[r] # Broken
<1>0. \A i \in 1..Len(r[2]) : Meaning[r[2][i]] # Broken
  OBVIOUS
<1>1. Meaning[r] = <<"slice", [j \in 1..Len(r[2]) |-> Meaning[r[2][j]]]>>
  BY <1>0, MeaningEquation DEF MeaningBy
<1>2. e = [j \in 1..Len(e) |-> e[j]]
  BY LenProperties
<1>3. [j \in 1..Len(e) |-> e[j]] = [j \in 1..Len(r[2]) |-> Meaning[r[2][j]]]
  OBVIOUS
<1>4. Meaning[r] = <<"slice", e>>
  BY <1>1, <1>2, <1>3
<1> QED
  BY <1>4 DEF Broken

\* The k-th array f[k] is the one the tree t[k] stands for, up to the element that
\* is being read, which is the tree of the array above; due[k + 1] is what has to
\* arrive before the arrays below and including it are complete.
Frame(f, t, due, s, k) ==
    LET done  == f[k][2]
        es    == t[k][2]
        begun == IF k < Len(f) THEN Len(done) + 1 ELSE Len(done)
    IN /\ t[k][1] = "*" /\ f[k][1] = Len(es) /\ Len(es) <= maxArrayLen
       /\ begun <= Len(es)
       /\ \A j \in 1..Len(done) : done[j] = Meaning[es[j]] /\ done[j] # Broken
       /\ due[k + 1] = Rest(es, begun + 1, due[k])
       /\ k < Len(f) => t[k + 1] = es[Len(done) + 1]
       /\ Meaning[t[k]] = Broken => Meaning[s] = Broken

Building(f, t, due, s) ==
    /\ f \in Seq(Nat \X Seq(Values)) /\ t \in Seq(Replies) /\ due \in Seq(Seq(Replies))
    /\ f # <<>> /\ Len(t) = Len(f) /\ Len(due) = Len(f) + 1
    /\ due[1] = <<>> /\ t[1] = s
    /\ \A k \in 1..Len(f) : Frame(f, t, due, s, k)

LEMMA BuildingLength ==
    ASSUME NEW f, NEW t, NEW due, NEW s, Building(f, t, due, s)
    PROVE  Len(f) \in Nat \ {0} /\ Len(t) = Len(f) /\ Len(due) = Len(f) + 1
<1>1. PICK S : S = Nat \X Seq(Values)
  OBVIOUS
<1>2. f \in Seq(S) /\ f # <<>>
  BY <1>1 DEF Building
<1>3. Len(f) \in Nat \ {0}
  BY <1>2, EmptySeq
<1> QED
  BY <1>3 DEF Building

\* What is known of one array.
LEMMA FrameTypes ==
    ASSUME NEW f, NEW t, NEW due, NEW s, Building(f, t, due, s), NEW k \in 1..Len(f)
    PROVE  /\ Len(f) \in Nat \ {0} /\ k \in Nat /\ k + 1 \in 1..Len(due)
           /\ t[k] \in Replies /\ t[k][1] = "*" /\ t[k][2] \in Seq(Replies)
           /\ f[k] \in Nat \X Seq(Values) /\ f[k] = <<f[k][1], f[k][2]>>
           /\ f[k][1] \in Nat /\ f[k][2] \in Seq(Values)
           /\ Len(f[k][2]) \in Nat /\ Len(t[k][2]) \in Nat
           /\ due[k] \in Seq(Replies) /\ due[k + 1] \in Seq(Replies)
<1>1. Len(f) \in Nat \ {0} /\ k \in 1..Len(t) /\ k \in 1..Len(due) /\ k + 1 \in 1..Len(due)
  BY BuildingLength
<1>2. t[k] \in Replies /\ f[k] \in Nat \X Seq(Values) /\ due[k] \in Seq(Replies)
        /\ due[k + 1] \in Seq(Replies)
  BY <1>1, ElementOfSeq DEF Building
<1>3. t[k][1] = "*"
  BY DEF Building, Frame
<1>4. t[k][2] \in Seq(Replies)
  BY <1>2, <1>3, RepliesAssumption
<1> QED
  BY <1>1, <1>2, <1>3, <1>4, LenProperties

\* d begins with x and goes on with e.
Splits(d, x, e) == d # <<>> /\ Head(d) = x /\ Tail(d) = e

\* If r is refused, so is s.
Spoils(r, s) == Meaning[r] = Broken => Meaning[s] = Broken

\* The next thing to arrive is the next element of the innermost array.
LEMMA NextElement ==
    ASSUME NEW f, NEW t, NEW due, NEW s, Building(f, t, due, s),
           NEW n, n = Len(f), Len(f[n][2]) < f[n][1], NEW j, j = Len(f[n][2]) + 1,
           NEW d, d = due[n + 1]
    PROVE  /\ j \in 1..Len(t[n][2]) /\ t[n][2][j] \in Replies
           /\ Splits(d, t[n][2][j], Rest(t[n][2], j + 1, due[n]))
           /\ Spoils(t[n][2][j], s)
<1>0. n \in 1..Len(f) /\ ~(n < Len(f)) /\ Len(f) \in Nat
  BY BuildingLength
<1>1. PICK es : es = t[n][2]
  OBVIOUS
<1>2. PICK q : q = due[n]
  OBVIOUS
<1>4. /\ es \in Seq(Replies) /\ q \in Seq(Replies) /\ Len(es) \in Nat
      /\ t[n] \in Replies /\ t[n][1] = "*" /\ Len(f[n][2]) \in Nat
  BY <1>0, <1>1, <1>2, FrameTypes
<1>5. /\ f[n][1] = Len(es) /\ due[n + 1] = Rest(es, Len(f[n][2]) + 1, q)
      /\ Meaning[t[n]] = Broken => Meaning[s] = Broken
  BY <1>0, <1>1, <1>2 DEF Building, Frame
<1>6. j \in 1..Len(es)
  BY <1>4, <1>5
<1>7. due[n + 1] = Rest(es, j, q)
  BY <1>5
<1>8. es[j] \in Replies
  BY <1>4, <1>6, ElementOfSeq
<1>9. Meaning[es[j]] = Broken => Meaning[s] = Broken
  BY <1>1, <1>4, <1>5, <1>6, ElementRefused
<1>10. /\ d # <<>> /\ Head(d) = es[j]
       /\ Tail(d) = Rest(es, j + 1, q)
  <2>1. /\ Rest(es, j, q) # <<>>
        /\ Head(Rest(es, j, q)) = es[j]
        /\ Tail(Rest(es, j, q)) = Rest(es, j + 1, q)
    BY <1>4, <1>6, NextOfRest
  <2> QED
    BY <1>7, <2>1
<1> QED
  BY <1>1, <1>2, <1>6, <1>8, <1>9, <1>10 DEF Splits, Spoils

\* An element without elements is read.
LEMMA ElementRead ==
    ASSUME NEW f, NEW t, NEW due, NEW s, Building(f, t, due, s),
           NEW n, n = Len(f), Len(f[n][2]) < f[n][1],
           NEW d, d = due[n + 1], NEW v, v = Meaning[Head(d)], v # Broken
    PROVE  Building([f EXCEPT ![n] = <<@[1], Append(@[2], v)>>], t,
                    [due EXCEPT ![n + 1] = Tail(d)], s)
<1>0. n \in 1..Len(f) /\ ~(n < Len(f)) /\ Len(f) \in Nat /\ n \in Nat /\ n + 1 \in 1..Len(due)
  BY BuildingLength
<1>1. PICK j : j = Len(f[n][2]) + 1
  OBVIOUS
<1>2. /\ j \in 1..Len(t[n][2]) /\ t[n][2][j] \in Replies
      /\ Head(d) = t[n][2][j] /\ d # <<>>
      /\ Tail(d) = Rest(t[n][2], j + 1, due[n])
  <2>1. /\ j \in 1..Len(t[n][2]) /\ t[n][2][j] \in Replies
        /\ Splits(d, t[n][2][j], Rest(t[n][2], j + 1, due[n]))
    BY <1>1, NextElement
  <2> QED
    BY <2>1 DEF Splits
<1>3. v \in Values
  BY <1>2 DEF Values
<1>4. /\ f[n][1] \in Nat /\ f[n][2] \in Seq(Values) /\ d \in Seq(Replies)
      /\ Len(f[n][2]) \in Nat /\ Len(t[n][2]) \in Nat
  BY <1>0, FrameTypes
<1>5. PICK e : e = Append(f[n][2], v)
  OBVIOUS
<1>6. /\ e \in Seq(Values) /\ Len(e) = j /\ e[j] = v
      /\ \A i \in 1..Len(f[n][2]) : e[i] = f[n][2][i]
  BY <1>1, <1>3, <1>4, <1>5, AppendProperties
<1>7. PICK g : g = [f EXCEPT ![n] = <<@[1], Append(@[2], v)>>]
  OBVIOUS
<1>8. PICK h : h = [due EXCEPT ![n + 1] = Tail(d)]
  OBVIOUS
<1>9. /\ g \in Seq(Nat \X Seq(Values)) /\ Len(g) = Len(f)
      /\ g[n] = <<f[n][1], e>> /\ \A k \in 1..Len(f) : k # n => g[k] = f[k]
  <2>1. PICK S : S = Nat \X Seq(Values)
    OBVIOUS
  <2>2. PICK c : c = <<f[n][1], e>>
    OBVIOUS
  <2>3. c \in S /\ f \in Seq(S) /\ g = [f EXCEPT ![n] = c]
    BY <1>4, <1>5, <1>6, <1>7, <2>1, <2>2 DEF Building
  <2>4. g \in Seq(S) /\ Len(g) = Len(f) /\ \A k \in 1..Len(f) : g[k] = IF k = n THEN c ELSE f[k]
    BY <1>0, <2>3, ExceptSeq
  <2> QED
    BY <1>0, <2>1, <2>2, <2>4
<1>10. /\ h \in Seq(Seq(Replies)) /\ Len(h) = Len(due)
       /\ h[n + 1] = Tail(d)
       /\ \A k \in 1..Len(due) : k # n + 1 => h[k] = due[k]
  <2>1. Tail(d) \in Seq(Replies)
    BY <1>2, <1>4, HeadTailProperties
  <2> QED
    BY <1>0, <1>8, <2>1, ExceptSeq DEF Building
<1>11. \A k \in 1..Len(f) : Frame(f, t, due, s, k)
  BY DEF Building
<1>12. ASSUME NEW k \in 1..Len(g) PROVE Frame(g, t, h, s, k)
  <2>1. CASE k = n
    <3>0. Frame(f, t, due, s, n)
      BY <1>0, <1>11
    <3>1. /\ ~(k < Len(g)) /\ g[k][1] = f[n][1] /\ g[k][2] = e
      BY <1>0, <1>9, <2>1
    <3>2. \A i \in 1..Len(e) : e[i] = Meaning[t[n][2][i]] /\ e[i] # Broken
      <4> SUFFICES ASSUME NEW i \in 1..Len(e)
                   PROVE  e[i] = Meaning[t[n][2][i]] /\ e[i] # Broken
        OBVIOUS
      <4>1. CASE i = j
        BY <1>2, <1>6, <4>1
      <4>2. CASE i # j
        <5>1. i \in 1..Len(f[n][2])
          BY <1>1, <1>4, <1>6, <4>2
        <5> QED
          BY <1>6, <3>0, <5>1 DEF Frame
      <4> QED
        BY <4>1, <4>2
    <3>3. h[k + 1] = Rest(t[n][2], Len(e) + 1, h[k])
      <4>1. h[n] = due[n]
        BY <1>0, <1>10
      <4> QED
        BY <1>2, <1>6, <1>10, <2>1, <4>1
    <3>4. /\ t[n][1] = "*" /\ f[n][1] = Len(t[n][2]) /\ Len(t[n][2]) <= maxArrayLen
          /\ Meaning[t[n]] = Broken => Meaning[s] = Broken
      BY <1>0, <1>11 DEF Frame
    <3>5. Len(e) <= Len(t[n][2])
      BY <1>2, <1>6
    <3> QED
      BY <2>1, <3>1, <3>2, <3>3, <3>4, <3>5 DEF Frame
  <2>2. CASE k # n
    <3>1. k < Len(f) /\ k + 1 # n + 1 /\ k + 1 \in 1..Len(due) /\ k \in 1..Len(due) /\ k # n + 1
      BY <1>0, <1>9, <2>2
    <3>2. g[k] = f[k] /\ h[k] = due[k] /\ h[k + 1] = due[k + 1] /\ Len(g) = Len(f)
      BY <1>9, <1>10, <2>2, <3>1
    <3>3. Frame(f, t, due, s, k)
      BY <1>9, <1>11
    <3> QED
      BY <3>2, <3>3 DEF Frame
  <2> QED
    BY <2>1, <2>2
<1>13. h[1] = due[1] /\ g # <<>>
  <2>1. 1 \in 1..Len(due) /\ 1 # n + 1 /\ Len(g) # 0
    BY <1>0, <1>9
  <2> QED
    BY <1>10, <2>1, EmptySeq
<1> QED
  BY <1>7, <1>8, <1>9, <1>10, <1>12, <1>13 DEF Building

\* An array within the client's limits begins, as an element of the innermost one.
LEMMA ArrayBegins ==
    ASSUME NEW f, NEW t, NEW due, NEW s, Building(f, t, due, s),
           NEW n, n = Len(f), Len(f[n][2]) < f[n][1],
           NEW d, d = due[n + 1], NEW r, r = Head(d),
           r[1] = "*", Len(r[2]) <= maxArrayLen
    PROVE  Building(Append(f, <<Len(r[2]), <<>>>>), Append(t, r),
                    Append([due EXCEPT ![n + 1] = Tail(d)], r[2] \o Tail(d)), s)
<1>0. n \in 1..Len(f) /\ ~(n < Len(f)) /\ Len(f) \in Nat /\ n \in Nat /\ n + 1 \in 1..Len(due)
        /\ Len(t) = n /\ Len(due) = n + 1
  BY BuildingLength
<1>1. PICK j : j = Len(f[n][2]) + 1
  OBVIOUS
<1>2. /\ j \in 1..Len(t[n][2]) /\ r \in Replies
      /\ r = t[n][2][j] /\ d # <<>>
      /\ Tail(d) = Rest(t[n][2], j + 1, due[n])
      /\ Meaning[r] = Broken => Meaning[s] = Broken
  <2>1. /\ j \in 1..Len(t[n][2]) /\ t[n][2][j] \in Replies
        /\ Splits(d, t[n][2][j], Rest(t[n][2], j + 1, due[n]))
    BY <1>1, NextElement
  <2>2. Spoils(t[n][2][j], s)
    BY <1>1, NextElement
  <2> QED
    BY <2>1, <2>2 DEF Splits, Spoils
<1>3. r[2] \in Seq(Replies) /\ Len(r[2]) \in Nat
  BY <1>2, RepliesAssumption
<1>4. /\ d \in Seq(Replies) /\ Len(f[n][2]) \in Nat /\ Len(t[n][2]) \in Nat
      /\ Tail(d) \in Seq(Replies)
  <2>1. d \in Seq(Replies) /\ Len(f[n][2]) \in Nat /\ Len(t[n][2]) \in Nat
    BY <1>0, FrameTypes
  <2> QED
    BY <1>2, <2>1, HeadTailProperties
<1>5. PICK e \in Seq(Replies) : e = Tail(d)
  BY <1>4
<1>6. PICK c : c = <<Len(r[2]), <<>>>>
  OBVIOUS
<1>7. PICK g : g = Append(f, c)
  OBVIOUS
<1>8. PICK u : u = Append(t, r)
  OBVIOUS
<1>9. PICK h : h = Append([due EXCEPT ![n + 1] = e], r[2] \o e)
  OBVIOUS
<1>10. /\ g \in Seq(Nat \X Seq(Values)) /\ Len(g) = n + 1 /\ g[n + 1] = c
       /\ \A k \in 1..n : g[k] = f[k]
  <2>1. PICK S : S = Nat \X Seq(Values)
    OBVIOUS
  <2>2. c \in S /\ f \in Seq(S)
    <3>1. <<>> \in Seq(Values)
      OBVIOUS
    <3> QED
      BY <1>3, <1>6, <2>1, <3>1 DEF Building
  <2>3. g \in Seq(S) /\ Len(g) = Len(f) + 1 /\ g[Len(f) + 1] = c /\ \A k \in 1..Len(f) : g[k] = f[k]
    BY <1>7, <2>2, AppendProperties
  <2> QED
    BY <2>1, <2>3
<1>11. /\ u \in Seq(Replies) /\ Len(u) = n + 1 /\ u[n + 1] = r
       /\ \A k \in 1..n : u[k] = t[k]
  <2>1. t \in Seq(Replies)
    BY DEF Building
  <2>2. /\ u \in Seq(Replies) /\ Len(u) = Len(t) + 1 /\ u[Len(t) + 1] = r
        /\ \A k \in 1..Len(t) : u[k] = t[k]
    BY <1>2, <1>8, <2>1, AppendProperties
  <2> QED
    BY <1>0, <2>2
<1>12. /\ h \in Seq(Seq(Replies)) /\ Len(h) = n + 2
       /\ h[n + 2] = r[2] \o e /\ h[n + 1] = e
       /\ \A k \in 1..n : h[k] = due[k]
  <2>1. PICK S : S = Seq(Replies)
    OBVIOUS
  <2>2. r[2] \o e \in S
    BY <1>3, <2>1, ConcatProperties
  <2>3. PICK i : i = [due EXCEPT ![n + 1] = e]
    OBVIOUS
  <2>4. i \in Seq(S) /\ Len(i) = n + 1 /\ \A k \in 1..(n + 1) : i[k] = IF k = n + 1 THEN e ELSE due[k]
    BY <1>0, <2>1, <2>3, ExceptSeq DEF Building
  <2>5. PICK x \in S : x = r[2] \o e
    BY <2>2
  <2>6. /\ h \in Seq(S) /\ Len(h) = n + 2 /\ h[n + 2] = x /\ \A k \in 1..(n + 1) : h[k] = i[k]
    <3>1. h = Append(i, x)
      BY <1>9, <2>3, <2>5
    <3>2. h \in Seq(S) /\ Len(h) = Len(i) + 1 /\ h[Len(i) + 1] = x /\ \A k \in 1..Len(i) : h[k] = i[k]
      BY <2>4, <3>1, AppendProperties
    <3>3. n + 1 + 1 = n + 2
      BY <1>0
    <3> QED
      BY <2>4, <3>2, <3>3
  <2>7. n + 1 \in 1..(n + 1) /\ \A k \in 1..n : k \in 1..(n + 1) /\ k # n + 1
    BY <1>0
  <2>8. h[n + 1] = e /\ \A k \in 1..n : h[k] = due[k]
    BY <2>4, <2>6, <2>7
  <2> QED
    BY <2>1, <2>5, <2>6, <2>8
<1>13. \A k \in 1..Len(f) : Frame(f, t, due, s, k)
  BY DEF Building
<1>14. ASSUME NEW k \in 1..Len(g) PROVE Frame(g, u, h, s, k)
  <2>1. CASE k = n + 1
    <3>1. /\ ~(k < Len(g)) /\ g[k][1] = Len(r[2]) /\ g[k][2] = <<>> /\ u[k] = r
      BY <1>0, <1>6, <1>10, <1>11, <2>1
    <3>2. Len(g[k][2]) = 0 /\ \A i \in 1..Len(g[k][2]) : FALSE
      BY <3>1
    <3>3. h[k + 1] = Rest(r[2], Len(g[k][2]) + 1, h[k])
      <4>1. h[k + 1] = r[2] \o h[k] /\ h[k] = e
        <5>1. k + 1 = n + 2
          BY <1>0, <2>1
        <5> QED
          BY <1>12, <2>1, <5>1
      <4>2. Rest(r[2], 1, e) = r[2] \o e
        BY <1>3, AllLeft
      <4> QED
        BY <3>2, <4>1, <4>2
    <3>4. Meaning[u[k]] = Broken => Meaning[s] = Broken
      BY <1>2, <3>1
    <3>5. 0 <= Len(u[k][2]) /\ g[k][1] = Len(u[k][2]) /\ Len(u[k][2]) <= maxArrayLen /\ u[k][1] = "*"
      BY <1>3, <3>1
    <3>6. h[k + 1] = Rest(u[k][2], Len(g[k][2]) + 1, h[k])
      BY <3>1, <3>3
    <3>7. ~(k < Len(g))
      BY <3>1
    <3> QED
      BY <3>2, <3>4, <3>5, <3>6, <3>7 DEF Frame
  <2>2. CASE k = n
    <3>0. Frame(f, t, due, s, n)
      BY <1>0, <1>13
    <3>1. /\ k < Len(g) /\ g[k] = f[n] /\ u[k] = t[n] /\ u[k + 1] = t[n][2][Len(f[n][2]) + 1]
          /\ Len(f[n][2]) + 1 <= Len(t[n][2])
      <4>1. k < Len(g) /\ n \in 1..n
        BY <1>0, <1>10, <2>2
      <4>2. g[k] = f[n] /\ u[k] = t[n] /\ u[k + 1] = r
        BY <1>10, <1>11, <2>2, <4>1
      <4>3. r = t[n][2][Len(f[n][2]) + 1] /\ Len(f[n][2]) + 1 <= Len(t[n][2])
        <5>1. r = t[n][2][j] /\ j <= Len(t[n][2])
          BY <1>2, <1>4
        <5> QED
          BY <1>1, <5>1
      <4> QED
        BY <4>1, <4>2, <4>3
    <3>2. h[k + 1] = Rest(t[n][2], Len(f[n][2]) + 1 + 1, h[k])
      BY <1>0, <1>1, <1>2, <1>5, <1>12, <2>2
    <3> QED
      BY <3>0, <3>1, <3>2 DEF Frame
  <2>3. CASE k \in 1..(n - 1)
    <3>0. Frame(f, t, due, s, k)
      BY <1>0, <1>13, <2>3
    <3>1. k < Len(f) /\ k < Len(g) /\ k + 1 \in 1..n /\ k \in 1..n
      <4>1. k \in Nat /\ n \in Nat /\ k <= n - 1 /\ 1 <= k
        BY <1>0, <2>3
      <4>2. Len(g) = n + 1 /\ Len(f) = n
        BY <1>10
      <4> QED
        BY <4>1, <4>2
    <3>2. /\ g[k] = f[k] /\ u[k] = t[k] /\ u[k + 1] = t[k + 1] /\ h[k] = due[k]
          /\ h[k + 1] = due[k + 1]
      BY <1>10, <1>11, <1>12, <3>1
    <3> QED
      BY <3>0, <3>1, <3>2 DEF Frame
  <2> QED
    BY <1>0, <1>10, <2>1, <2>2, <2>3
<1>15. h[1] = <<>> /\ u[1] = s /\ g # <<>>
  <2>1. 1 \in 1..n /\ Len(g) # 0
    BY <1>0, <1>10
  <2> QED
    BY <1>11, <1>12, <2>1, EmptySeq DEF Building
<1>16. Building(g, u, h, s)
  BY <1>0, <1>10, <1>11, <1>12, <1>14, <1>15 DEF Building
<1> QED
  BY <1>5, <1>6, <1>7, <1>8, <1>9, <1>16

\* An array within the client's limits begins: the reply itself.
LEMMA ReplyBegins ==
    ASSUME NEW r \in Replies, r[1] = "*", Len(r[2]) <= maxArrayLen
    PROVE  Building(<<<<Len(r[2]), <<>>>>>>, <<r>>, <<<<>>, r[2]>>, r)
<1>1. r[2] \in Seq(Replies) /\ Len(r[2]) \in Nat
  BY RepliesAssumption
<1>2. PICK c : c = <<Len(r[2]), <<>>>>
  OBVIOUS
<1>3. PICK f : f = <<c>>
  OBVIOUS
<1>4. PICK h : h = <<<<>>, r[2]>>
  OBVIOUS
<1>5. f \in Seq(Nat \X Seq(Values)) /\ Len(f) = 1 /\ f[1] = c /\ f # <<>>
  <2>1. c \in Nat \X Seq(Values)
    <3>1. <<>> \in Seq(Values)
      OBVIOUS
    <3> QED
      BY <1>1, <1>2, <3>1
  <2> QED
    BY <1>3, <2>1
<1>6. h \in Seq(Seq(Replies)) /\ Len(h) = 2 /\ h[1] = <<>> /\ h[2] = r[2]
  BY <1>1, <1>4
<1>7. Frame(f, <<r>>, h, r, 1)
  <2>1. ~(1 < Len(f)) /\ f[1][1] = Len(r[2]) /\ f[1][2] = <<>> /\ <<r>>[1] = r
    BY <1>2, <1>5
  <2>2. Len(<<>>) = 0 /\ 1..Len(<<>>) = {}
    OBVIOUS
  <2>3. Rest(r[2], 1, <<>>) = r[2]
    <3>1. <<>> \in Seq(Replies)
      OBVIOUS
    <3>2. Rest(r[2], 1, <<>>) = r[2] \o <<>>
      BY <1>1, <3>1, AllLeft
    <3>3. r[2] \o <<>> = r[2]
      BY <1>1, ConcatEmptySeq
    <3> QED
      BY <3>2, <3>3
  <2>4. h[1 + 1] = Rest(r[2], 0 + 1, h[1])
    BY <1>6, <2>3
  <2> QED
    BY <1>1, <2>1, <2>2, <2>4 DEF Frame
<1>8. <<r>> \in Seq(Replies) /\ Len(<<r>>) = 1 /\ <<r>>[1] = r
  OBVIOUS
<1>9. \A k \in 1..Len(f) : Frame(f, <<r>>, h, r, k)
  BY <1>5, <1>7
<1>10. Building(f, <<r>>, h, r)
  BY <1>5, <1>6, <1>8, <1>9 DEF Building
<1> QED
  BY <1>2, <1>3, <1>4, <1>10

\* Nothing more has to arrive for the n-th array.
Settled(due, n) == due[n + 1] = due[n]

\* The innermost array is complete: its value, and nothing more to wait for.
LEMMA ArrayEnds ==
    ASSUME NEW f, NEW t, NEW due, NEW s, Building(f, t, due, s),
           NEW n, n = Len(f), Len(f[n][2]) = f[n][1], NEW v, v = <<"slice", f[n][2]>>
    PROVE  /\ v = Meaning[t[n]] /\ v # Broken
           /\ Settled(due, n)
<1>0. n \in 1..Len(f) /\ ~(n < Len(f))
  BY BuildingLength
<1>1. /\ t[n] \in Replies /\ t[n][1] = "*" /\ t[n][2] \in Seq(Replies)
      /\ f[n][2] \in Seq(Values) /\ due[n] \in Seq(Replies)
  BY <1>0, FrameTypes
<1>2. Frame(f, t, due, s, n)
  BY <1>0 DEF Building
<1>3. /\ Len(f[n][2]) = Len(t[n][2]) /\ Len(t[n][2]) <= maxArrayLen
      /\ \A j \in 1..Len(f[n][2]) : f[n][2][j] = Meaning[t[n][2][j]] /\ f[n][2][j] # Broken
      /\ due[n + 1] = Rest(t[n][2], Len(t[n][2]) + 1, due[n])
  BY <1>0, <1>2 DEF Frame
<1>4. due[n + 1] = due[n]
  BY <1>1, <1>3, NothingLeft
<1> QED
  BY <1>1, <1>3, <1>4, ArrayDone DEF Settled

LEMMA FrontProperties ==
    ASSUME NEW S, NEW q \in Seq(S), NEW m \in 0..Len(q), NEW p, p = SubSeq(q, 1, m)
    PROVE  p \in Seq(S) /\ Len(p) = m /\ \A i \in 1..m : p[i] = q[i]
<1>1. Len(q) \in Nat /\ m \in Nat /\ \A i \in 1..m : q[i] \in S
  BY LenProperties, ElementOfSeq
<1>2. /\ p \in Seq(S) /\ Len(p) = IF 1 <= m THEN m - 1 + 1 ELSE 0
      /\ \A i \in 1..(m - 1 + 1) : p[i] = q[1 + i - 1]
  BY <1>1, SubSeqProperties
<1> QED
  BY <1>1, <1>2

\* A complete array becomes an element of the one around it.
LEMMA ArrayReturns ==
    ASSUME NEW f, NEW t, NEW due, NEW s, Building(f, t, due, s),
           NEW n, n = Len(f), n # 1, Len(f[n][2]) = f[n][1],
           NEW v, v = <<"slice", f[n][2]>>, NEW p, p = SubSeq(f, 1, n - 1)
    PROVE  Building([p EXCEPT ![n - 1] = <<@[1], Append(@[2], v)>>], SubSeq(t, 1, n - 1),
                    SubSeq(due, 1, n), s)
<1>0. n \in Nat \ {0, 1} /\ Len(t) = n /\ Len(due) = n + 1
  BY BuildingLength
<1>1. PICK m : m = n - 1
  OBVIOUS
<1>2. m \in 1..Len(f) /\ m \in Nat /\ m < Len(f) /\ n \in 1..Len(f) /\ m + 1 = n
  BY <1>0, <1>1
<1>3. v = Meaning[t[n]] /\ v # Broken
  <2>1. v = Meaning[t[n]]
    BY ArrayEnds
  <2>2. v # Broken
    BY ArrayEnds
  <2> QED
    BY <2>1, <2>2
<1>4. v \in Values
  <2>1. t[n] \in Replies
    BY <1>2, FrameTypes
  <2> QED
    BY <1>3, <2>1 DEF Values
<1>5. /\ f[m][1] \in Nat /\ f[m][2] \in Seq(Values)
      /\ Len(f[m][2]) \in Nat /\ Len(t[m][2]) \in Nat
  BY <1>2, FrameTypes
<1>6. PICK e : e = Append(f[m][2], v)
  OBVIOUS
<1>7. /\ e \in Seq(Values) /\ Len(e) = Len(f[m][2]) + 1 /\ e[Len(f[m][2]) + 1] = v
      /\ \A i \in 1..Len(f[m][2]) : e[i] = f[m][2][i]
  BY <1>4, <1>5, <1>6, AppendProperties
<1>8. PICK g : g = [p EXCEPT ![m] = <<@[1], Append(@[2], v)>>]
  OBVIOUS
<1>9. PICK u : u = SubSeq(t, 1, m)
  OBVIOUS
<1>10. PICK h : h = SubSeq(due, 1, n)
  OBVIOUS
<1>11. u \in Seq(Replies) /\ Len(u) = m /\ \A k \in 1..m : u[k] = t[k]
  <2>1. t \in Seq(Replies) /\ m \in 0..Len(t)
    BY <1>0, <1>2 DEF Building
  <2> QED
    BY <1>9, <2>1, FrontProperties
<1>12. h \in Seq(Seq(Replies)) /\ Len(h) = n /\ \A k \in 1..n : h[k] = due[k]
  <2>1. PICK S : S = Seq(Replies)
    OBVIOUS
  <2>2. due \in Seq(S) /\ n \in 0..Len(due)
    BY <1>0, <2>1 DEF Building
  <2>3. h \in Seq(S) /\ Len(h) = n /\ \A k \in 1..n : h[k] = due[k]
    BY <1>10, <2>2, FrontProperties
  <2> QED
    BY <2>1, <2>3
<1>13. /\ g \in Seq(Nat \X Seq(Values)) /\ Len(g) = m
       /\ g[m] = <<f[m][1], e>> /\ \A k \in 1..m : k # m => g[k] = f[k]
  <2>1. PICK S : S = Nat \X Seq(Values)
    OBVIOUS
  <2>2. PICK c : c = <<f[m][1], e>>
    OBVIOUS
  <2>3. f \in Seq(S) /\ m \in 0..Len(f) /\ p = SubSeq(f, 1, m)
    BY <1>1, <1>2, <2>1 DEF Building
  <2>4. p \in Seq(S) /\ Len(p) = m /\ \A k \in 1..m : p[k] = f[k]
    BY <2>3, FrontProperties
  <2>5. c \in S /\ g = [p EXCEPT ![m] = c] /\ m \in 1..Len(p)
    <3>1. c \in S
      BY <1>5, <1>7, <2>1, <2>2
    <3>2. m \in 1..Len(p) /\ m \in 1..m
      BY <1>2, <2>4
    <3>3. p[m] = f[m]
      BY <2>4, <3>2
    <3>4. <<p[m][1], Append(p[m][2], v)>> = c
      BY <1>6, <2>2, <3>3
    <3>5. g = [p EXCEPT ![m] = <<p[m][1], Append(p[m][2], v)>>]
      BY <1>8
    <3> QED
      BY <3>1, <3>2, <3>4, <3>5
  <2>6. g \in Seq(S) /\ Len(g) = Len(p) /\ \A k \in 1..Len(p) : g[k] = IF k = m THEN c ELSE p[k]
    <3>1. PICK z : z = p
      OBVIOUS
    <3>2. z \in Seq(S) /\ m \in 1..Len(z) /\ c \in S /\ g = [z EXCEPT ![m] = c]
      BY <2>4, <2>5, <3>1
    <3>3. g \in Seq(S) /\ Len(g) = Len(z) /\ \A k \in 1..Len(z) : g[k] = IF k = m THEN c ELSE z[k]
      BY <3>2, ExceptSeq
    <3> QED
      BY <3>1, <3>3
  <2> QED
    BY <2>1, <2>2, <2>4, <2>5, <2>6
<1>14. ASSUME NEW k \in 1..Len(g) PROVE Frame(g, u, h, s, k)
  <2>0. Frame(f, t, due, s, k) /\ k \in 1..m /\ k < Len(f) /\ k + 1 \in 1..n /\ k \in 1..n
    <3>1. k \in 1..m /\ k \in 1..Len(f) /\ k < Len(f) /\ k + 1 \in 1..n /\ k \in 1..n
      BY <1>2, <1>13
    <3> QED
      BY <3>1 DEF Building
  <2>1. CASE k = m
    <3>1. /\ ~(k < Len(g)) /\ g[k][1] = f[m][1] /\ g[k][2] = e /\ u[k] = t[m]
          /\ h[k] = due[m] /\ h[k + 1] = due[m + 1]
      <4>1. ~(k < Len(g)) /\ k \in 1..n /\ k + 1 \in 1..n
        BY <1>2, <1>13, <2>0, <2>1
      <4> QED
        <5>1. g[k][1] = f[m][1] /\ g[k][2] = e
          BY <1>13, <2>1
        <5>2. u[k] = t[m] /\ h[k] = due[m] /\ h[k + 1] = due[m + 1]
          BY <1>11, <1>12, <2>0, <2>1, <4>1
        <5> QED
          BY <4>1, <5>1, <5>2
    <3>2. /\ t[m][1] = "*" /\ f[m][1] = Len(t[m][2]) /\ Len(t[m][2]) <= maxArrayLen
          /\ Len(f[m][2]) + 1 <= Len(t[m][2])
          /\ \A i \in 1..Len(f[m][2]) :
               f[m][2][i] = Meaning[t[m][2][i]] /\ f[m][2][i] # Broken
          /\ due[m + 1] = Rest(t[m][2], Len(f[m][2]) + 1 + 1, due[m])
          /\ t[n] = t[m][2][Len(f[m][2]) + 1]
          /\ Meaning[t[m]] = Broken => Meaning[s] = Broken
      BY <1>2, <2>0, <2>1 DEF Frame
    <3>3. ASSUME NEW i \in 1..Len(e) PROVE e[i] = Meaning[t[m][2][i]] /\ e[i] # Broken
      <4>1. CASE i = Len(f[m][2]) + 1
        BY <1>3, <1>7, <3>2, <4>1
      <4>2. CASE i # Len(f[m][2]) + 1
        <5>1. i \in 1..Len(f[m][2])
          BY <1>5, <1>7, <4>2
        <5> QED
          BY <1>7, <3>2, <5>1
      <4> QED
        BY <4>1, <4>2
    <3>4. Len(e) <= Len(t[m][2]) /\ h[k + 1] = Rest(t[m][2], Len(e) + 1, h[k])
      BY <1>7, <3>1, <3>2
    <3> QED
      BY <3>1, <3>2, <3>3, <3>4 DEF Frame
  <2>2. CASE k # m
    <3>1. k < Len(g) /\ k + 1 \in 1..m
      BY <1>2, <1>13, <2>0, <2>2
    <3>2. /\ g[k] = f[k] /\ u[k] = t[k] /\ u[k + 1] = t[k + 1] /\ h[k] = due[k]
          /\ h[k + 1] = due[k + 1]
      BY <1>11, <1>12, <1>13, <2>0, <2>2, <3>1
    <3> QED
      BY <2>0, <3>1, <3>2 DEF Frame
  <2> QED
    BY <2>1, <2>2
<1>15. h[1] = <<>> /\ u[1] = s /\ g # <<>>
  <2>1. 1 \in 1..n /\ 1 \in 1..m /\ Len(g) # 0
    BY <1>0, <1>2, <1>13
  <2> QED
    BY <1>11, <1>12, <2>1, EmptySeq DEF Building
<1>16. Building(g, u, h, s)
  BY <1>2, <1>11, <1>12, <1>13, <1>14, <1>15 DEF Building
<1> QED
  BY <1>1, <1>8, <1>9, <1>10, <1>16

-----------------------------------------------------------------------------
(* The steps of ReadReply.                                                 *)

\* What is on the wire and what is lost make up what the arrays under construction,
\* or the caller, are still waiting for.
Waiting(w, f, s, all) ==
    /\ s \in Replies /\ all \in BOOLEAN /\ w \in Seq(Replies)
    /\ \E lost \in Seq(Replies) :
         /\ all <=> lost = <<>>
         /\ f = <<>> => w \o lost = <<s>>
         /\ f # <<>> =>
              \E t, due : Building(f, t, due, s) /\ due[Len(f) + 1] = w \o lost

LEMMA WaitingFrom ==
    ASSUME NEW w \in Seq(Replies), NEW f, NEW s \in Replies, NEW all \in BOOLEAN,
           NEW lost \in Seq(Replies), all <=> lost = <<>>,
           NEW t, NEW due, Building(f, t, due, s), due[Len(f) + 1] = w \o lost
    PROVE  Waiting(w, f, s, all) /\ f # <<>>
BY DEF Waiting, Building

\* ReadReply is reading.
Reading == reply = Pending /\ Waiting(wire, frames, sent, whole)

\* ReadReply has returned.
Returned ==
    /\ sent \in Replies /\ whole \in BOOLEAN
    /\ reply = IF whole THEN Meaning[sent] ELSE Broken
    /\ frames = <<>>
    /\ reply # Broken => wire = <<>>

LEMMA SingleReply ==
    ASSUME NEW S, NEW x \in S, NEW w \in Seq(S), NEW q \in Seq(S), w \o q = <<x>>
    PROVE  /\ w # <<>> => Head(w) = x /\ Tail(w) = <<>> /\ q = <<>>
           /\ w = <<>> => q # <<>>
<1>1. PICK o : o = <<x>>
  OBVIOUS
<1>2. o \in Seq(S) /\ Head(o) = x /\ Tail(o) = <<>> /\ o # <<>>
  BY <1>1
<1>3. ASSUME w # <<>> PROVE Head(w) = x /\ Tail(w) = <<>> /\ q = <<>>
  <2>1. /\ Head(w \o q) = Head(w) /\ Tail(w \o q) = Tail(w) \o q /\ Tail(w) \in Seq(S)
    BY <1>3, HeadTailOfConcat
  <2>2. PICK y \in Seq(S) : y = Tail(w)
    BY <2>1
  <2>3. y \o q = <<>>
    BY <1>1, <1>2, <2>1, <2>2
  <2>4. y = <<>> /\ q = <<>>
    BY <2>3, ConcatEqualIffEmpty
  <2> QED
    BY <1>1, <1>2, <2>1, <2>2, <2>4
<1>4. ASSUME w = <<>> PROVE q # <<>>
  BY <1>1, <1>2, <1>4, ConcatEmptySeq
<1> QED
  BY <1>3, <1>4

\* What the next line belongs to: the reply that was sent, or the next element of
\* the innermost array.
LEMMA NextLine ==
    ASSUME Reading, wire # <<>>, frames # <<>> => Len(Top[2]) < Top[1]
    PROVE  /\ Head(wire) \in Replies
           /\ frames = <<>> => Head(wire) = sent /\ Tail(wire) = <<>> /\ whole
           /\ frames # <<>> =>
                \E lost, t, due :
                  /\ lost \in Seq(Replies)
                  /\ whole <=> lost = <<>>
                  /\ Building(frames, t, due, sent)
                  /\ Len(frames[Len(frames)][2]) < frames[Len(frames)][1]
                  /\ Splits(due[Len(frames) + 1], Head(wire), Tail(wire) \o lost)
                  /\ Tail(wire) \in Seq(Replies)
           /\ Meaning[Head(wire)] = Broken => Meaning[sent] = Broken
<1>1. PICK lost \in Seq(Replies) :
         /\ whole <=> lost = <<>>
         /\ frames = <<>> => wire \o lost = <<sent>>
         /\ frames # <<>> =>
              \E t, due : /\ Building(frames, t, due, sent)
                          /\ due[Len(frames) + 1] = wire \o lost
  BY DEF Reading, Waiting
<1>2. wire \in Seq(Replies) /\ sent \in Replies
  BY DEF Reading, Waiting
<1>3. /\ Head(wire) \in Replies /\ Tail(wire) \in Seq(Replies)
      /\ Head(wire \o lost) = Head(wire) /\ Tail(wire \o lost) = Tail(wire) \o lost
  BY <1>2, HeadTailOfConcat
<1>4. CASE frames = <<>>
  <2>1. Head(wire) = sent /\ Tail(wire) = <<>> /\ lost = <<>>
    BY <1>1, <1>2, <1>4, SingleReply
  <2> QED
    BY <1>1, <1>3, <1>4, <2>1
<1>5. CASE frames # <<>>
  <2>1. PICK t, due : Building(frames, t, due, sent) /\ due[Len(frames) + 1] = wire \o lost
    BY <1>1, <1>5
  <2>2. Len(frames[Len(frames)][2]) < frames[Len(frames)][1]
    BY <1>5 DEF Top, Last
  <2>3. PICK j : j = Len(frames[Len(frames)][2]) + 1
    OBVIOUS
  <2>4. PICK n : n = Len(frames)
    OBVIOUS
  <2>5. PICK d : d = due[n + 1]
    OBVIOUS
  <2>6. Splits(d, t[n][2][j], Rest(t[n][2], j + 1, due[n]))
    BY <2>1, <2>2, <2>3, <2>4, <2>5, NextElement
  <2>7. Spoils(t[n][2][j], sent)
    BY <2>1, <2>2, <2>3, <2>4, <2>5, NextElement
  <2>8. d = wire \o lost
    BY <2>1, <2>4, <2>5
  <2>9. Head(d) = Head(wire) /\ Tail(d) = Tail(wire) \o lost /\ d # <<>> /\ Head(d) = t[n][2][j]
    BY <1>3, <2>6, <2>8 DEF Splits
  <2>10. Splits(due[Len(frames) + 1], Head(wire), Tail(wire) \o lost)
    BY <2>4, <2>5, <2>9 DEF Splits
  <2>11. Meaning[Head(wire)] = Broken => Meaning[sent] = Broken
    BY <2>7, <2>9 DEF Spoils
  <2> QED
    BY <1>1, <1>3, <1>5, <2>1, <2>2, <2>10, <2>11
<1> QED
  BY <1>4, <1>5

\* A value goes to the caller or into the innermost array.
LEMMA ValueReturned ==
    ASSUME Reading, Expecting, NEW v, v = Meaning[Head(wire)], v # Broken,
           Return(frames, v), wire' = Tail(wire), UNCHANGED <<sent, whole>>
    PROVE  Reading' \/ Returned'
<1>0. wire # <<>> /\ (frames # <<>> => Len(Top[2]) < Top[1])
  BY DEF Expecting
<1>1. CASE frames = <<>>
  <2>1. Head(wire) = sent /\ Tail(wire) = <<>> /\ whole
    BY <1>0, <1>1, NextLine
  <2>2. reply' = Meaning[sent] /\ frames' = <<>> /\ wire' = <<>> /\ whole' /\ sent' = sent
    BY <1>1, <2>1 DEF Return
  <2>3. sent \in Replies
    BY DEF Reading, Waiting
  <2> QED
    BY <2>2, <2>3 DEF Returned
<1>2. CASE frames # <<>>
  <2>1. PICK lost, t, due :
          /\ lost \in Seq(Replies)
          /\ whole <=> lost = <<>>
          /\ Building(frames, t, due, sent)
          /\ Len(frames[Len(frames)][2]) < frames[Len(frames)][1]
          /\ Splits(due[Len(frames) + 1], Head(wire), Tail(wire) \o lost)
          /\ Tail(wire) \in Seq(Replies)
    BY <1>0, <1>2, NextLine
  <2>2. PICK n : n = Len(frames)
    OBVIOUS
  <2>3. PICK d : d = due[n + 1]
    OBVIOUS
  <2>4. Head(d) = Head(wire) /\ Tail(d) = Tail(wire) \o lost
    BY <2>1, <2>2, <2>3 DEF Splits
  <2>5. PICK h : h = [due EXCEPT ![n + 1] = Tail(d)]
    OBVIOUS
  <2>6. PICK g : g = [frames EXCEPT ![n] = <<@[1], Append(@[2], v)>>]
    OBVIOUS
  <2>7. Building(g, t, h, sent)
    BY <2>1, <2>2, <2>3, <2>4, <2>5, <2>6, ElementRead
  <2>8. frames' = g /\ reply' = Pending
    BY <1>2, <2>2, <2>6 DEF Return, Reading
  <2>9. Len(g) = n /\ h[n + 1] = Tail(wire) \o lost
    <3>1. Len(t) = n /\ Len(due) = n + 1 /\ n + 1 \in 1..Len(due) /\ n \in Nat
      BY <2>1, <2>2, BuildingLength
    <3>2. Len(t) = Len(g)
      BY <2>7, BuildingLength
    <3>3. h[n + 1] = Tail(d)
      BY <2>1, <2>5, <3>1, LenProperties DEF Building
    <3> QED
      BY <2>4, <3>1, <3>2, <3>3
  <2>10. g # <<>>
    BY <2>7 DEF Building
  <2>11. sent' = sent /\ whole' = whole /\ wire' \in Seq(Replies) /\ sent \in Replies /\ whole \in BOOLEAN
    BY <2>1 DEF Reading, Waiting
  <2>12. Building(frames', t, h, sent') /\ h[Len(frames') + 1] = wire' \o lost
    BY <2>2, <2>7, <2>8, <2>9, <2>11
  <2>13. Reading'
    <3>1. /\ whole' \in BOOLEAN /\ sent' \in Replies /\ (whole' <=> lost = <<>>)
          /\ lost \in Seq(Replies)
      BY <2>1, <2>11
    <3>2. Waiting(wire', frames', sent', whole')
      BY <2>11, <2>12, <3>1, WaitingFrom
    <3> QED
      BY <2>8, <3>2 DEF Reading
  <2> QED
    BY <2>13
<1> QED
  BY <1>1, <1>2

LEMMA LeafRead ==
    ASSUME Reading, ReadText \/ ReadInt \/ ReadNull \/ ReadBulk
    PROVE  Reading' \/ Returned'
<1>0. /\ Expecting /\ wire' = Tail(wire) /\ UNCHANGED <<sent, whole>> /\ Head(wire) \in Replies
  <2>1. Expecting /\ wire' = Tail(wire) /\ UNCHANGED <<sent, whole>>
    BY DEF ReadText, ReadInt, ReadNull, ReadBulk
  <2>2. wire # <<>> /\ (frames # <<>> => Len(Top[2]) < Top[1])
    BY <2>1 DEF Expecting
  <2> QED
    BY <2>1, <2>2, NextLine
<1>1. PICK r : r = Head(wire)
  OBVIOUS
<1>2. PICK l : l = Header(r)
  OBVIOUS
<1>3. /\ l[1] = "+" => Meaning[r] = <<"string", l[2]>>
      /\ l[1] = "-" => Meaning[r] = <<"RedisError", l[2]>>
      /\ l[1] = ":" => \A n \in parseAsciiInt(l[2]) : Meaning[r] = <<"int64", n>>
      /\ (l[1] \in {"$", "*"} /\ parseAsciiInt(l[2]) = {-1}) => Meaning[r] = Nil
      /\ (l[1] = "$" /\ \E n \in parseAsciiInt(l[2]) : n \in 0..maxBulkLen)
           => Meaning[r] = <<"string", r[2]>>
  BY <1>0, <1>1, <1>2, ReadsLeaf
<1>4. \E v : v = Meaning[r] /\ v # Broken /\ Return(frames, v)
  <2>1. CASE ReadText
    <3>1. CASE Line[1] = "+" /\ Return(frames, <<"string", Line[2]>>)
      BY <1>1, <1>2, <1>3, <3>1 DEF Line, Broken
    <3>2. CASE Line[1] = "-" /\ Return(frames, <<"RedisError", Line[2]>>)
      BY <1>1, <1>2, <1>3, <3>2 DEF Line, Broken
    <3> QED
      BY <2>1, <3>1, <3>2 DEF ReadText
  <2>2. CASE ReadInt
    <3>1. PICK n \in parseAsciiInt(Line[2]) : Return(frames, <<"int64", n>>)
      BY <2>2 DEF ReadInt
    <3>2. Line[1] = ":"
      BY <2>2 DEF ReadInt
    <3> QED
      BY <1>1, <1>2, <1>3, <3>1, <3>2 DEF Line, Broken
  <2>3. CASE ReadNull
    BY <1>1, <1>2, <1>3, <2>3 DEF ReadNull, Line, Broken, Nil
  <2>4. CASE ReadBulk
    BY <1>1, <1>2, <1>3, <2>4 DEF ReadBulk, Line, Broken
  <2> QED
    BY <2>1, <2>2, <2>3, <2>4
<1> QED
  BY <1>0, <1>1, <1>4, ValueReturned

LEMMA ArrayRead ==
    ASSUME Reading, ReadArray
    PROVE  Reading'
<1>0. /\ Expecting /\ Line[1] = "*" /\ wire # <<>> /\ (frames # <<>> => Len(Top[2]) < Top[1])
      /\ wire' = Head(wire)[2] \o Tail(wire) /\ UNCHANGED <<reply, sent, whole>>
  BY DEF ReadArray, Expecting
<1>1. PICK r : r = Head(wire)
  OBVIOUS
<1>2. r \in Replies
  BY <1>0, <1>1, NextLine
<1>3. PICK m \in parseAsciiInt(Line[2]) :
        m \in 0..maxArrayLen /\ frames' = Append(frames, <<m, <<>>>>)
  BY DEF ReadArray
<1>4. r[1] = "*" /\ r[2] \in Seq(Replies) /\ m = Len(r[2]) /\ Len(r[2]) <= maxArrayLen
  BY <1>0, <1>1, <1>2, <1>3, ReadsArray DEF Line
<1>5. PICK c : c = <<Len(r[2]), <<>>>>
  OBVIOUS
<1>6. frames' = Append(frames, c)
  BY <1>3, <1>4, <1>5
<1>7. /\ sent \in Replies /\ whole \in BOOLEAN /\ reply = Pending /\ wire \in Seq(Replies)
      /\ sent' = sent /\ whole' = whole /\ reply' = Pending
  BY <1>0 DEF Reading, Waiting
<1>8. PICK e \in Seq(Replies) : e = Tail(wire)
  BY <1>0, <1>7, HeadTailProperties
<1>9. wire' = r[2] \o e /\ wire' \in Seq(Replies)
  BY <1>0, <1>1, <1>4, <1>8, ConcatProperties
<1>10. CASE frames = <<>>
  <2>1. r = sent /\ e = <<>> /\ whole
    BY <1>0, <1>1, <1>8, <1>10, NextLine
  <2>2. wire' = r[2]
    BY <1>4, <1>9, <2>1, ConcatEmptySeq
  <2>3. PICK f : f = <<c>>
    OBVIOUS
  <2>4. frames' = f /\ Len(f) = 1
    BY <1>6, <1>10, <2>3
  <2>5. PICK h : h = <<<<>>, r[2]>>
    OBVIOUS
  <2>6. Building(f, <<r>>, h, r)
    BY <1>2, <1>4, <1>5, <2>3, <2>5, ReplyBegins
  <2>7. PICK q \in Seq(Replies) : q = <<>>
    <3>1. <<>> \in Seq(Replies)
      OBVIOUS
    <3> QED
      BY <3>1, Zenon
  <2>8. h[Len(f) + 1] = wire' \o q
    <3>1. wire' \o q = wire'
      BY <1>9, <2>7, ConcatEmptySeq
    <3>2. h[2] = r[2] /\ Len(f) + 1 = 2
      BY <2>4, <2>5
    <3> QED
      BY <2>2, <3>1, <3>2
  <2>9. PICK w \in Seq(Replies) : w = wire'
    BY <1>9
  <2>10. Waiting(w, f, r, TRUE)
    BY <1>2, <2>6, <2>7, <2>8, <2>9, WaitingFrom
  <2>11. whole' = TRUE
    BY <1>7, <2>1
  <2> QED
    BY <1>7, <2>1, <2>4, <2>9, <2>10, <2>11 DEF Reading
<1>11. CASE frames # <<>>
  <2>1. PICK lost, t, due :
          /\ lost \in Seq(Replies)
          /\ whole <=> lost = <<>>
          /\ Building(frames, t, due, sent)
          /\ Len(frames[Len(frames)][2]) < frames[Len(frames)][1]
          /\ Splits(due[Len(frames) + 1], r, e \o lost)
          /\ e \in Seq(Replies)
    BY <1>0, <1>1, <1>8, <1>11, NextLine
  <2>2. PICK n : n = Len(frames)
    OBVIOUS
  <2>3. PICK d : d = due[n + 1]
    OBVIOUS
  <2>4. Head(d) = r /\ Tail(d) = e \o lost
    BY <2>1, <2>2, <2>3 DEF Splits
  <2>5. PICK h : h = Append([due EXCEPT ![n + 1] = Tail(d)], r[2] \o Tail(d))
    OBVIOUS
  <2>6. PICK g : g = Append(frames, c)
    OBVIOUS
  <2>7. PICK u : u = Append(t, r)
    OBVIOUS
  <2>8. Building(g, u, h, sent)
    BY <1>4, <1>5, <2>1, <2>2, <2>3, <2>4, <2>5, <2>6, <2>7, ArrayBegins
  <2>9. h[Len(g) + 1] = r[2] \o Tail(d)
    <3>1. Len(due) = n + 1 /\ n \in Nat /\ Len(h) = Len(g) + 1
      BY <2>1, <2>2, <2>8, BuildingLength
    <3>2. PICK S : S = Seq(Replies)
      OBVIOUS
    <3>3. due \in Seq(S) /\ h \in Seq(S)
      BY <2>1, <2>8, <3>2 DEF Building
    <3>4. Tail(d) \in S
      BY <2>1, <2>4, <3>2, ConcatProperties
    <3>5. PICK i : i = [due EXCEPT ![n + 1] = Tail(d)]
      OBVIOUS
    <3>6. i \in Seq(S) /\ Len(i) = n + 1
      BY <3>1, <3>3, <3>4, <3>5, ExceptSeq
    <3>7. PICK x \in S : x = r[2] \o Tail(d)
      BY <1>4, <3>2, <3>4, ConcatProperties
    <3>8. h = Append(i, x)
      BY <2>5, <3>5, <3>7
    <3>9. h[Len(i) + 1] = x /\ Len(h) = Len(i) + 1
      BY <3>6, <3>8, AppendProperties
    <3> QED
      BY <3>1, <3>7, <3>9
  <2>10. h[Len(g) + 1] = wire' \o lost
    <3>1. r[2] \o (e \o lost) = (r[2] \o e) \o lost
      <4>1. PICK x \in Seq(Replies) : x = r[2]
        BY <1>4
      <4>2. (x \o e) \o lost = x \o (e \o lost)
        BY ConcatThree
      <4> QED
        BY <4>1, <4>2
    <3> QED
      BY <1>9, <2>4, <2>9, <3>1
  <2>11. PICK w \in Seq(Replies) : w = wire'
    BY <1>9
  <2>12. Waiting(w, g, sent, whole)
    BY <1>7, <2>1, <2>8, <2>10, <2>11, WaitingFrom
  <2> QED
    BY <1>6, <1>7, <2>6, <2>11, <2>12 DEF Reading
<1> QED
  BY <1>10, <1>11

LEMMA ArrayCompleted ==
    ASSUME Reading, ReturnArray
    PROVE  Reading' \/ Returned'
<1>1. PICK n : n = Len(frames)
  OBVIOUS
<1>2. PICK v : v = <<"slice", frames[n][2]>>
  OBVIOUS
<1>3. /\ frames # <<>> /\ Len(frames[n][2]) = frames[n][1] /\ reply = Pending
      /\ Return(SubSeq(frames, 1, n - 1), v) /\ UNCHANGED <<wire, sent, whole>>
  BY <1>1, <1>2 DEF ReturnArray, Top, Last, Front
<1>4. PICK lost, t, due :
        /\ lost \in Seq(Replies)
        /\ whole <=> lost = <<>>
        /\ Building(frames, t, due, sent)
        /\ due[n + 1] = wire \o lost
  BY <1>1, <1>3 DEF Reading, Waiting
<1>5. /\ wire \in Seq(Replies) /\ sent \in Replies /\ whole \in BOOLEAN /\ n \in Nat \ {0}
      /\ n \in 1..Len(frames)
  <2>1. Len(frames) \in Nat \ {0}
    BY <1>4, BuildingLength
  <2> QED
    BY <1>1, <2>1 DEF Reading, Waiting
<1>6. v = Meaning[t[n]] /\ v # Broken
  <2>1. v = Meaning[t[n]]
    BY <1>1, <1>2, <1>3, <1>4, ArrayEnds
  <2>2. v # Broken
    BY <1>1, <1>2, <1>3, <1>4, ArrayEnds
  <2> QED
    BY <2>1, <2>2
<1>7. due[n + 1] = due[n]
  <2>1. Settled(due, n)
    BY <1>1, <1>2, <1>3, <1>4, ArrayEnds
  <2> QED
    BY <2>1 DEF Settled
<1>8. PICK p : p = SubSeq(frames, 1, n - 1)
  OBVIOUS
<1>9. Len(p) = n - 1 /\ (p = <<>> <=> n = 1)
  <2>1. PICK S : S = Nat \X Seq(Values)
    OBVIOUS
  <2>2. frames \in Seq(S) /\ n - 1 \in 0..Len(frames)
    BY <1>1, <1>4, <1>5, <2>1 DEF Building
  <2>3. p \in Seq(S) /\ Len(p) = n - 1
    BY <1>8, <2>2, FrontProperties
  <2> QED
    BY <1>5, <2>3, EmptySeq
<1>10. CASE n = 1
  <2>1. due[1] = <<>> /\ t[1] = sent
    BY <1>4 DEF Building
  <2>2. wire = <<>> /\ lost = <<>>
    <3>1. wire \o lost = <<>>
      BY <1>4, <1>7, <1>10, <2>1
    <3> QED
      BY <1>5, <3>1, ConcatEqualIffEmpty
  <2>3. reply' = Meaning[sent] /\ frames' = <<>> /\ wire' = <<>> /\ sent' = sent /\ whole'
    BY <1>3, <1>4, <1>6, <1>8, <1>9, <1>10, <2>1, <2>2 DEF Return
  <2> QED
    BY <1>5, <2>3 DEF Returned
<1>11. CASE n # 1
  <2>1. PICK g : g = [p EXCEPT ![n - 1] = <<@[1], Append(@[2], v)>>]
    OBVIOUS
  <2>2. PICK u : u = SubSeq(t, 1, n - 1)
    OBVIOUS
  <2>3. PICK h : h = SubSeq(due, 1, n)
    OBVIOUS
  <2>4. Building(g, u, h, sent)
    BY <1>1, <1>2, <1>3, <1>4, <1>8, <1>11, <2>1, <2>2, <2>3, ArrayReturns
  <2>5. frames' = g /\ reply' = Pending
    BY <1>3, <1>8, <1>9, <1>11, <2>1 DEF Return
  <2>6. h[Len(g) + 1] = wire \o lost
    <3>1. Len(due) = n + 1 /\ Len(h) = Len(g) + 1
      BY <1>1, <1>4, <2>4, BuildingLength
    <3>2. PICK S : S = Seq(Replies)
      OBVIOUS
    <3>3. due \in Seq(S) /\ n \in 0..Len(due)
      BY <1>4, <1>5, <3>1, <3>2 DEF Building
    <3>4. Len(h) = n /\ \A i \in 1..n : h[i] = due[i]
      BY <2>3, <3>3, FrontProperties
    <3>5. h[n] = due[n]
      BY <1>5, <3>4
    <3> QED
      BY <1>4, <1>7, <3>1, <3>4, <3>5
  <2>7. Waiting(wire, g, sent, whole)
    BY <1>4, <1>5, <2>4, <2>6, WaitingFrom
  <2> QED
    BY <1>3, <2>5, <2>7 DEF Reading
<1> QED
  BY <1>10, <1>11

LEMMA ReadingFails ==
    ASSUME Reading, ReadFails
    PROVE  Returned'
<1>1. /\ frames # <<>> => Len(Top[2]) < Top[1]
      /\ wire = <<>> \/ (wire # <<>> /\ Unreadable(Line))
      /\ reply' = Broken /\ frames' = <<>> /\ sent' = sent /\ whole' = whole
  BY DEF ReadFails
<1>2. sent \in Replies /\ whole \in BOOLEAN
  BY DEF Reading, Waiting
<1>3. whole => Meaning[sent] = Broken
  <2>1. CASE wire = <<>>
    <3>1. PICK lost \in Seq(Replies) :
         /\ whole <=> lost = <<>>
         /\ frames = <<>> => wire \o lost = <<sent>>
         /\ frames # <<>> =>
              \E t, due : /\ Building(frames, t, due, sent)
                          /\ due[Len(frames) + 1] = wire \o lost
      BY DEF Reading, Waiting
    <3>2. wire \o lost = lost /\ wire \in Seq(Replies)
      BY <2>1, ConcatEmptySeq
    <3>3. lost # <<>>
      <4>1. CASE frames = <<>>
        BY <1>2, <2>1, <3>1, <3>2, <4>1, SingleReply
      <4>2. CASE frames # <<>>
        <5>1. PICK t, due : /\ Building(frames, t, due, sent)
                            /\ due[Len(frames) + 1] = lost
          BY <3>1, <3>2, <4>2
        <5>2. PICK n : n = Len(frames)
          OBVIOUS
        <5>3. Len(frames[n][2]) < frames[n][1]
          BY <1>1, <4>2, <5>2 DEF Top, Last
        <5>4. PICK j : j = Len(frames[n][2]) + 1
          OBVIOUS
        <5>5. Splits(lost, t[n][2][j], Rest(t[n][2], j + 1, due[n]))
          BY <5>1, <5>2, <5>3, <5>4, NextElement
        <5> QED
          BY <5>5 DEF Splits
      <4> QED
        BY <4>1, <4>2
    <3> QED
      BY <3>1, <3>3
  <2>2. CASE wire # <<>>
    <3>1. Head(wire) \in Replies /\ (Meaning[Head(wire)] = Broken => Meaning[sent] = Broken)
      BY <1>1, <2>2, NextLine
    <3>2. Meaning[Head(wire)] = Broken
      BY <1>1, <2>2, <3>1, ReadsLeaf DEF Line
    <3> QED
      BY <3>1, <3>2
  <2> QED
    BY <2>1, <2>2
<1> QED
  BY <1>1, <1>2, <1>3 DEF Returned

LEMMA RestLost ==
    ASSUME Reading, Lost
    PROVE  Reading'
<1>1. /\ whole' = FALSE /\ UNCHANGED <<frames, reply, sent>> /\ whole
      /\ wire \in Seq(Replies) /\ sent \in Replies /\ reply = Pending
  BY DEF Reading, Waiting, Lost
<1>2. PICK m \in 0..(Len(wire) - 1) : wire' = SubSeq(wire, 1, m)
  BY DEF Lost
<1>3. PICK w : w = SubSeq(wire, 1, m)
  OBVIOUS
<1>4. PICK q : q = SubSeq(wire, m + 1, Len(wire))
  OBVIOUS
<1>5. w \in Seq(Replies) /\ q \in Seq(Replies) /\ q # <<>> /\ w \o q = wire
  BY <1>1, <1>3, <1>4, CutShort
<1>6. PICK lost \in Seq(Replies) :
         /\ lost = <<>>
         /\ frames = <<>> => wire \o lost = <<sent>>
         /\ frames # <<>> =>
              \E t, due : /\ Building(frames, t, due, sent)
                          /\ due[Len(frames) + 1] = wire \o lost
  BY <1>1 DEF Reading, Waiting
<1>7. wire \o lost = w \o q
  BY <1>1, <1>5, <1>6, ConcatEmptySeq
<1>8. Waiting(w, frames, sent, FALSE)
  BY <1>1, <1>5, <1>6, <1>7 DEF Waiting
<1> QED
  BY <1>1, <1>2, <1>3, <1>8 DEF Reading

\* Every step of ReadReply and every loss.
LEMMA ReadReplyStep ==
    ASSUME Reading, ReadReply \/ Lost
    PROVE  Reading' \/ Returned'
BY LeafRead, ArrayRead, ArrayCompleted, ReadingFails, RestLost DEF ReadReply

\* A reply is sent into an empty connection.
LEMMA ReplySent ==
    ASSUME wire = <<>>, frames = <<>>, NEW r \in Replies, Send(r)
    PROVE  Reading'
<1>1. wire' = Append(<<>>, r) /\ sent' = r /\ whole' = TRUE /\ reply' = Pending /\ frames' = <<>>
  BY DEF Send
<1>2. wire' = <<r>> /\ wire' \in Seq(Replies)
  BY <1>1
<1>3. PICK w \in Seq(Replies) : w = <<r>>
  BY <1>2
<1>4. PICK q \in Seq(Replies) : q = <<>>
  <2>1. <<>> \in Seq(Replies)
    OBVIOUS
  <2> QED
    BY <2>1, Zenon
<1>5. w \o q = <<r>>
  BY <1>3, <1>4, ConcatEmptySeq
<1>6. Waiting(w, <<>>, r, TRUE)
  BY <1>4, <1>5 DEF Waiting
<1> QED
  BY <1>1, <1>2, <1>3, <1>6 DEF Reading

=============================================================================
