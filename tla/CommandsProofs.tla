---------------------------- MODULE CommandsProofs ----------------------------
(***************************************************************************)
(* The typed commands, proved: one connection answers every call with what *)
(* the server sent, the numbers and lists made of it are right, and the    *)
(* reader of reply.go hands out each item once.                            *)
(***************************************************************************)
EXTENDS Commands, RespReaderProofs

-----------------------------------------------------------------------------
(* Arithmetic.                                                              *)

LEMMA Quotient ==
    ASSUME NEW a \in Nat, NEW b \in Nat \ {0}
    PROVE  /\ a \div b \in Nat
           /\ (a \div b) * b <= a /\ a < ((a \div b) + 1) * b
<1>1. a = b * (a \div b) + (a % b) /\ a % b \in 0..(b - 1) /\ a \div b \in Int
  OBVIOUS
<1>2. PICK q \in Int, m \in 0..(b - 1) : q = a \div b /\ m = a % b
  BY <1>1
<1>3. a = b * q + m
  BY <1>1, <1>2
<1>4. q >= 0
  <2>1. q <= -1 => b * q <= -b
    OBVIOUS
  <2> QED
    BY <1>2, <1>3, <2>1
<1>5. q * b <= a /\ a < (q + 1) * b
  <2>1. q * b = b * q /\ (q + 1) * b = b * q + b
    OBVIOUS
  <2> QED
    BY <1>2, <1>3, <2>1
<1> QED
  BY <1>2, <1>4, <1>5

LEMMA SmallRemainder ==
    ASSUME NEW m \in Nat \ {0}, NEW x \in 0..(m - 1)
    PROVE  x % m = x
OBVIOUS

\* Within its range a number keeps its value.
LEMMA WrapKeeps ==
    ASSUME NEW x \in MinInt64..MaxInt64
    PROVE  Wrap(x) = x
<1>1. MaxInt64 \in Nat
  BY LimitsAssumption
<1>2. PICK m \in Nat \ {0} : m = MaxInt64 - MinInt64 + 1
  BY <1>1 DEF MinInt64
<1>3. x - MinInt64 \in 0..(m - 1)
  BY <1>1, <1>2 DEF MinInt64
<1>4. (x - MinInt64) % m = x - MinInt64
  BY <1>3, SmallRemainder
<1> QED
  BY <1>1, <1>2, <1>4 DEF Wrap, MinInt64

LEMMA NarrowKeeps ==
    ASSUME NEW x \in Cursor!MinInt32..MaxInt32
    PROVE  Cursor!Narrow(x) = x
<1>1. MaxInt32 \in Nat
  BY WidthsAssumption
<1>2. PICK m \in Nat \ {0} : m = MaxInt32 - Cursor!MinInt32 + 1
  BY <1>1 DEF Cursor!MinInt32
<1>3. x - Cursor!MinInt32 \in 0..(m - 1)
  BY <1>1, <1>2 DEF Cursor!MinInt32
<1>4. (x - Cursor!MinInt32) % m = x - Cursor!MinInt32
  BY <1>3, SmallRemainder
<1> QED
  BY <1>1, <1>2, <1>4 DEF Cursor!Narrow, Cursor!MinInt32

\* What SET is asked for.
LEMMA MillisecondsKept ==
    ASSUME NEW d \in Nat \ {0}, NEW n, n = Milliseconds(d)
    PROVE  /\ n >= 1 /\ d < (n + 1) * Millisecond
           /\ n > 1 => n * Millisecond <= d
<1>1. PICK u \in Nat \ {0} : u = Millisecond
  BY UnitsAssumption
<1>2. PICK q : q = d \div u
  OBVIOUS
<1>3. q \in Nat /\ q * u <= d /\ d < (q + 1) * u
  BY <1>2, Quotient
<1>4. n = IF q <= 0 THEN 1 ELSE q
  BY <1>1, <1>2 DEF Milliseconds
<1>5. CASE q = 0
  <2>1. n = 1 /\ (q + 1) * u = u /\ (n + 1) * u = u + u
    BY <1>4, <1>5
  <2> QED
    BY <1>1, <1>3, <2>1
<1>6. CASE q # 0
  BY <1>1, <1>3, <1>4, <1>6
<1> QED
  BY <1>5, <1>6

LEMMA SecondsTyped ==
    ASSUME NEW d \in Int
    PROVE  Seconds(d) \in Int
<1>1. PICK u \in Nat \ {0} : u = Second
  BY UnitsAssumption
<1>2. ASSUME NEW a \in Int PROVE Cursor!Quot(a, u) \in Int
  <2>1. a \div u \in Int /\ (-a) \div u \in Int
    BY <1>1
  <2> QED
    BY <1>2, <2>1 DEF Cursor!Quot
<1>3. Wrap(d + u - 1) \in Int
  <2>1. PICK w \in Nat \ {0} : w = MaxInt64 - MinInt64 + 1
    BY LimitsAssumption DEF MinInt64
  <2>2. PICK a \in Int : a = d + u - 1 - MinInt64
    BY <1>1, LimitsAssumption DEF MinInt64
  <2>3. a % w \in Int
    OBVIOUS
  <2> QED
    BY <2>1, <2>2, <2>3, LimitsAssumption DEF Wrap, MinInt64
<1> QED
  BY <1>1, <1>2, <1>3 DEF Seconds

\* What EXPIRE is asked for.
LEMMA SecondsKept ==
    ASSUME NEW d \in Nat \ {0}, d <= MaxInt64 - (Second - 1), NEW n, n = Seconds(d)
    PROVE  n * Second \in d..(d + Second - 1)
<1>1. PICK u \in Nat \ {0} : u = Second
  BY UnitsAssumption
<1>2. MaxInt64 \in Nat
  BY LimitsAssumption
<1>3. PICK x \in Nat : x = d + u - 1
  OBVIOUS
<1>4. x \in MinInt64..MaxInt64
  BY <1>1, <1>2, <1>3 DEF MinInt64
<1>5. Wrap(x) = x
  BY <1>4, WrapKeeps
<1>6. PICK q : q = x \div u
  OBVIOUS
<1>7. q \in Nat /\ q * u <= x /\ x < (q + 1) * u
  BY <1>6, Quotient
<1>8. n = q
  <2>1. n = Cursor!Quot(Wrap(d + Second - 1), Second)
    BY DEF Seconds
  <2>2. Wrap(d + Second - 1) = x
    BY <1>1, <1>3, <1>5
  <2> QED
    BY <1>1, <1>6, <2>1, <2>2 DEF Cursor!Quot
<1>9. (q + 1) * u = q * u + u /\ q * u \in Int
  BY <1>7
<1>10. PICK y \in Int : y = q * u
  BY <1>9
<1>11. y <= d + u - 1 /\ d <= y
  BY <1>3, <1>7, <1>9, <1>10
<1> QED
  BY <1>1, <1>8, <1>10, <1>11

-----------------------------------------------------------------------------
(* Values.                                                                  *)

\* What a value of Go is made of.
LEMMA ValueTypes ==
    ASSUME NEW v \in Values
    PROVE  /\ v[1] \in {"string", "RedisError", "int64", "slice", "nil", "broken"}
           /\ v[1] = "string" /\ v[2][1] \in {"num", "point"} => v[2][2] \in DOMAIN Float
           /\ v[1] = "string" => v = <<"string", v[2]>>
           /\ v[1] = "int64" => v[2] \in -MaxInt64..MaxInt64
           /\ v[1] = "slice" => v[2] \in Seq(Values)
           /\ v[1] = "broken" => v = Broken
<1>1. PICK r \in Replies : v = MeaningBy(Meaning, r)
  BY MeaningEquation DEF Values
<1>2. CASE r[1] = "+" \/ (r[1] = "$" /\ Size[r[2]] <= maxBulkLen)
  <2>1. v = <<"string", r[2]>>
    BY <1>1, <1>2 DEF MeaningBy
  <2> QED
    BY <1>2, <2>1, TextsAssumption
<1>3. CASE r[1] = "-"
  BY <1>1, <1>3 DEF MeaningBy
<1>4. CASE r[1] = ":" /\ InRange(r)
  <2>1. \E n \in -MaxInt64..MaxInt64 : Denotes(r[2], n)
    BY <1>4 DEF InRange
  <2>2. PICK n \in -MaxInt64..MaxInt64 :
          n = CHOOSE m \in -MaxInt64..MaxInt64 : Denotes(r[2], m)
    BY <2>1
  <2>3. v = <<"int64", n>>
    BY <1>1, <1>4, <2>2 DEF MeaningBy
  <2> QED
    BY <2>3
<1>5. CASE /\ r[1] = "*" /\ Len(r[2]) <= maxArrayLen
           /\ \A i \in 1..Len(r[2]) : Meaning[r[2][i]] # Broken
  <2>1. r[2] \in Seq(Replies)
    BY <1>5, RepliesAssumption
  <2>2. PICK e : e = [i \in 1..Len(r[2]) |-> Meaning[r[2][i]]]
    OBVIOUS
  <2>3. v = <<"slice", e>>
    BY <1>1, <1>5, <2>2 DEF MeaningBy
  <2>4. e \in Seq(Values)
    <3>1. Len(r[2]) \in Nat /\ \A i \in 1..Len(r[2]) : r[2][i] \in Replies
      BY <2>1, LenProperties, ElementOfSeq
    <3>2. \A i \in 1..Len(r[2]) : Meaning[r[2][i]] \in Values
      BY <3>1 DEF Values
    <3>3. e \in [1..Len(r[2]) -> Values]
      BY <2>2, <3>2
    <3> QED
      BY <3>1, <3>3, SeqDef
  <2> QED
    BY <2>3, <2>4
<1>6. CASE r[1] = "line" /\ r[2] \in Nulls
  BY <1>1, <1>6 DEF MeaningBy, Nil
<1>7. v = Broken \/ \/ r[1] = "+" \/ (r[1] = "$" /\ Size[r[2]] <= maxBulkLen)
                    \/ r[1] = "-"
                    \/ r[1] = ":" /\ InRange(r)
                    \/ /\ r[1] = "*" /\ Len(r[2]) <= maxArrayLen
                       /\ \A i \in 1..Len(r[2]) : Meaning[r[2][i]] # Broken
                    \/ r[1] = "line" /\ r[2] \in Nulls
  BY <1>1 DEF MeaningBy
<1> QED
  BY <1>2, <1>3, <1>4, <1>5, <1>6, <1>7 DEF Broken

-----------------------------------------------------------------------------
(* The conversions of reply.go.                                             *)

\* The truncation of h/2, when it is within the range, is the nearest there.
LEMMA HalvesTruncated ==
    ASSUME NEW h \in Int, NEW lo \in Int, NEW hi \in Int, NEW n, n = Cursor!Quot(h, 2),
           n \in lo..hi
    PROVE  Cursor!Nearest(n, h, lo, hi)
<1>1. CASE h >= 0
  <2>1. n = h \div 2 /\ n \in Int /\ 2 * n <= h /\ h < 2 * (n + 1)
    BY <1>1 DEF Cursor!Quot
  <2> QED
    BY <1>1, <2>1 DEF Cursor!Nearest
<1>2. CASE h < 0
  <2>1. n = -((-h) \div 2) /\ n \in Int /\ 2 * n >= h /\ h > 2 * (n - 1)
    BY <1>2 DEF Cursor!Quot
  <2> QED
    BY <1>2, <2>1 DEF Cursor!Nearest
<1> QED
  BY <1>1, <1>2

\* Between the ends, halves truncate into the range.
LEMMA HalvesInRange ==
    ASSUME NEW h \in Int, NEW lo \in Int, NEW hi \in Int, 2 * lo <= h, h <= 2 * hi,
           lo <= 0, 0 <= hi
    PROVE  Cursor!Quot(h, 2) \in lo..hi
<1>1. CASE h >= 0
  BY <1>1 DEF Cursor!Quot
<1>2. CASE h < 0
  <2>1. (-h) \div 2 \in Int /\ 0 <= (-h) \div 2 /\ 2 * ((-h) \div 2) <= -h
    BY <1>2
  <2> QED
    BY <1>2, <2>1 DEF Cursor!Quot
<1> QED
  BY <1>1, <1>2

LEMMA IntegerNearest ==
    ASSUME NEW h \in Int, NEW lo \in Int, NEW hi \in Int, h % 2 = 0, h \div 2 \in lo..hi
    PROVE  Cursor!Nearest(h \div 2, h, lo, hi)
<1>1. h = 2 * (h \div 2) /\ h \div 2 \in Int
  OBVIOUS
<1> QED
  BY <1>1 DEF Cursor!Nearest

LEMMA EndsNearest ==
    ASSUME NEW h \in Int, NEW lo \in Int, NEW hi \in Int, lo <= 0, 0 <= hi
    PROVE  /\ h > 2 * hi => Cursor!Nearest(hi, h, lo, hi)
           /\ h < 2 * lo => Cursor!Nearest(lo, h, lo, hi)
BY DEF Cursor!Nearest

LEMMA Ranges ==
    /\ MaxInt32 \in Nat /\ MaxInt64 \in Nat
    /\ Cursor!MinInt32 = -MaxInt32 - 1 /\ Cursor!MinInt64 = -MaxInt64 - 1
    /\ Cursor!MinInt32 \in Int /\ Cursor!MinInt64 \in Int
    /\ Exact \in Int /\ 2 * MaxInt32 + 2 <= Exact /\ Exact <= 2 * MaxInt64
<1>1. MaxInt32 \in Nat /\ MaxInt64 \in Nat
  BY WidthsAssumption
<1>2. Exact \in (2 * MaxInt32 + 2)..(2 * MaxInt64)
  BY FloatAssumption
<1> QED
  BY <1>1, <1>2 DEF Cursor!MinInt32, Cursor!MinInt64

\* A text that is a number, and its float64.
LEMMA Parsed ==
    ASSUME NEW t, t[1] \in {"num", "point"}, t[2] \in DOMAIN Float
    PROVE  LET h == t[2]
               f == Float[t[2]]
           IN /\ h \in Int /\ f \in Int
              /\ Cursor!ParseFloat(t)[1] = "float" /\ Cursor!ParseFloat(t)[2] = f
              /\ -Exact <= h /\ h <= Exact => f = h
              /\ h > Exact => f >= Exact
              /\ h < -Exact => f <= -Exact
<1>1. PICK h, f : h = t[2] /\ f = Float[t[2]]
  OBVIOUS
<1>2. h \in Int /\ f \in Int /\ (h > Exact => f >= Exact) /\ (h < -Exact => f <= -Exact)
  BY <1>1, FloatAssumption
<1>3. -Exact <= h /\ h <= Exact => f = h
  BY <1>1, <1>2, Ranges, FloatAssumption
<1>4. Cursor!ParseFloat(t) = <<"float", f>>
  BY <1>1 DEF Cursor!ParseFloat
<1> QED
  BY <1>1, <1>2, <1>3, <1>4

\* A float64 between the ends is truncated.
LEMMA FloatTruncated ==
    ASSUME NEW r, r[1] = "float", r[2] \in Int, NEW lo \in Int, NEW hi \in Int,
           2 * lo <= r[2], r[2] <= 2 * hi, lo <= 0, 0 <= hi,
           NEW x \in Cursor!FloatToInt(r, lo, hi)
    PROVE  Cursor!Nearest(x, r[2], lo, hi)
<1>1. PICK f \in Int : f = r[2]
  OBVIOUS
<1>2. Cursor!Quot(f, 2) \in lo..hi
  BY <1>1, HalvesInRange
<1>3. x = Cursor!Quot(f, 2)
  BY <1>1, <1>2 DEF Cursor!FloatToInt
<1> QED
  BY <1>1, <1>2, <1>3, HalvesTruncated

\* int32: what was rounded lies beyond the ends, before and after.
LEMMA TextNearest32 ==
    ASSUME NEW t, t[1] \in {"num", "point"}, t[2] \in DOMAIN Float,
           NEW x \in Cursor!TextAsInt32(t)
    PROVE  Cursor!Nearest(x, t[2], Cursor!MinInt32, MaxInt32)
<1>1. PICK h, f : h = t[2] /\ f = Float[t[2]]
  OBVIOUS
<1>2. PICK lo \in Int, hi \in Int, E \in Int :
        /\ lo = Cursor!MinInt32 /\ hi = MaxInt32 /\ E = Exact
        /\ lo <= 0 /\ 0 <= hi /\ 2 * hi + 2 <= E /\ -E <= 2 * lo
  BY Ranges
<1>3. PICK r : r = Cursor!ParseFloat(t)
  OBVIOUS
<1>4. /\ h \in Int /\ f \in Int /\ r[1] = "float" /\ r[2] = f
      /\ -E <= h /\ h <= E => f = h
      /\ h > E => f >= E
      /\ h < -E => f <= -E
  BY <1>1, <1>2, <1>3, Parsed
<1>5. CASE Cursor!IsInt(t, lo, hi)
  <2>1. h % 2 = 0 /\ h \div 2 \in lo..hi /\ x = h \div 2
    BY <1>1, <1>2, <1>5 DEF Cursor!TextAsInt32, Cursor!IsInt
  <2> QED
    BY <1>1, <1>2, <1>4, <2>1, IntegerNearest
<1>6. CASE ~Cursor!IsInt(t, lo, hi) /\ f > 2 * hi
  <2>1. x = hi
    BY <1>2, <1>3, <1>4, <1>6 DEF Cursor!TextAsInt32, Cursor!Above
  <2>2. h > 2 * hi
    BY <1>2, <1>4, <1>6
  <2> QED
    BY <1>1, <1>2, <1>4, <2>1, <2>2, EndsNearest
<1>7. CASE ~Cursor!IsInt(t, lo, hi) /\ ~(f > 2 * hi) /\ f < 2 * lo
  <2>1. x = lo
    BY <1>2, <1>3, <1>4, <1>7 DEF Cursor!TextAsInt32, Cursor!Above, Cursor!Below
  <2>2. h < 2 * lo
    BY <1>2, <1>4, <1>7
  <2> QED
    BY <1>1, <1>2, <1>4, <2>1, <2>2, EndsNearest
<1>8. CASE ~Cursor!IsInt(t, lo, hi) /\ ~(f > 2 * hi) /\ ~(f < 2 * lo)
  <2>1. x \in Cursor!FloatToInt(r, lo, hi)
    BY <1>2, <1>3, <1>4, <1>8 DEF Cursor!TextAsInt32, Cursor!Above, Cursor!Below
  <2>2. 2 * lo <= f /\ f <= 2 * hi
    BY <1>2, <1>4, <1>8
  <2>3. Cursor!Nearest(x, f, lo, hi)
    BY <1>2, <1>4, <2>1, <2>2, FloatTruncated
  <2>4. CASE f = h
    BY <1>1, <1>2, <2>3, <2>4
  <2>5. CASE f # h
    <3>1. h < 2 * lo /\ f = 2 * lo
      BY <1>2, <1>4, <2>2, <2>5
    <3>2. x = lo
      BY <1>2, <2>3, <3>1 DEF Cursor!Nearest
    <3> QED
      BY <1>1, <1>2, <1>4, <3>1, <3>2, EndsNearest
  <2> QED
    BY <2>4, <2>5
<1> QED
  BY <1>5, <1>6, <1>7, <1>8

LEMMA TextNearest64 ==
    ASSUME NEW t, t[1] \in {"num", "point"}, t[2] \in DOMAIN Float,
           NEW x \in Cursor!TextAsInt64(t)
    PROVE  LET literal == Cursor!IsInt(t, Cursor!MinInt64, MaxInt64)
               f == Float[t[2]]
           IN /\ literal \/ t[2] \in -Exact..Exact
                    => Cursor!Nearest(x, t[2], Cursor!MinInt64, MaxInt64)
              /\ ~literal /\ f \in (2 * Cursor!MinInt64)..(2 * MaxInt64)
                    => Cursor!Nearest(x, f, Cursor!MinInt64, MaxInt64)
<1>1. PICK h, f : h = t[2] /\ f = Float[t[2]]
  OBVIOUS
<1>2. PICK lo \in Int, hi \in Int, E \in Int :
        /\ lo = Cursor!MinInt64 /\ hi = MaxInt64 /\ E = Exact
        /\ lo <= 0 /\ 0 <= hi /\ E <= 2 * hi /\ 2 * lo <= -E
  BY Ranges
<1>3. PICK r : r = Cursor!ParseFloat(t)
  OBVIOUS
<1>4. /\ h \in Int /\ f \in Int /\ r[1] = "float" /\ r[2] = f
      /\ -E <= h /\ h <= E => f = h
  BY <1>1, <1>2, <1>3, Parsed
<1>5. CASE Cursor!IsInt(t, lo, hi)
  <2>1. h % 2 = 0 /\ h \div 2 \in lo..hi /\ x = h \div 2
    BY <1>1, <1>2, <1>5 DEF Cursor!TextAsInt64, Cursor!IsInt
  <2>2. Cursor!Nearest(x, h, lo, hi)
    BY <1>4, <2>1, IntegerNearest
  <2> QED
    BY <1>1, <1>2, <1>5, <2>2
<1>6. CASE ~Cursor!IsInt(t, lo, hi)
  <2>1. x \in Cursor!FloatToInt(r, lo, hi)
    BY <1>2, <1>3, <1>6 DEF Cursor!TextAsInt64
  <2>2. 2 * lo <= f /\ f <= 2 * hi => Cursor!Nearest(x, f, lo, hi)
    BY <1>2, <1>4, <2>1, FloatTruncated
  <2>3. ASSUME h \in -E..E PROVE Cursor!Nearest(x, h, lo, hi)
    BY <1>2, <1>4, <2>2, <2>3
  <2> QED
    BY <1>1, <1>2, <1>4, <1>6, <2>2, <2>3
<1> QED
  BY <1>5, <1>6

LEMMA IntegerReadBack ==
    ASSUME NEW n \in Cursor!MinInt64..MaxInt64
    PROVE  Cursor!AsInt64(<<"string", <<"num", 2 * n>>>>) = {n}
<1>1. n \in Int
  BY Ranges
<1>2. PICK h \in Int : h = 2 * n
  BY <1>1
<1>3. h % 2 = 0 /\ h \div 2 = n
  BY <1>1, <1>2
<1>4. PICK t : t = <<"num", h>>
  OBVIOUS
<1>5. t[1] = "num" /\ t[2] = h
  BY <1>4
<1>6. Cursor!IsInt(t, Cursor!MinInt64, MaxInt64)
  BY <1>3, <1>5 DEF Cursor!IsInt
<1>7. Cursor!TextAsInt64(t) = {n}
  BY <1>3, <1>5, <1>6 DEF Cursor!TextAsInt64
<1>8. PICK v : v = <<"string", t>>
  OBVIOUS
<1>9. v[1] = "string" /\ v[2] = t
  BY <1>8
<1>10. Cursor!AsInt64(v) = {n}
  BY <1>5, <1>7, <1>9 DEF Cursor!AsInt64, Cursor!IsNumber
<1> QED
  BY <1>2, <1>4, <1>8, <1>10

\* What the user has read last, if anything, was converted from a value.
Kinds == {"int32", "int64", "float64", "string"}

WasConverted(g) ==
    \E kind \in Kinds, v \in Values \cup {Nil} :
      \E x \in Cursor!Converted(kind, v) : g = <<kind, v, x>>

LEMMA ConvertedNearest ==
    ASSUME got = Cursor!NothingYet \/ WasConverted(got)
    PROVE  NumbersNearest
<1>1. CASE got = Cursor!NothingYet
  BY <1>1 DEF NumbersNearest, Cursor!NumbersNearest, Cursor!NothingYet
<1>2. CASE WasConverted(got)
  <2>1. PICK kind \in Kinds, v \in Values \cup {Nil} :
          \E x \in Cursor!Converted(kind, v) : got = <<kind, v, x>>
    BY <1>2 DEF WasConverted
  <2>2. PICK x \in Cursor!Converted(kind, v) : got = <<kind, v, x>>
    BY <2>1
  <2>3. got[1] = kind /\ got[2] = v /\ got[3] = x
    BY <2>2
  <2>4. /\ v[1] = "string" /\ v[2][1] \in {"num", "point"} => v[2][2] \in DOMAIN Float
        /\ v[1] = "int64" => v[2] \in -MaxInt64..MaxInt64
    BY ValueTypes DEF Nil
  <2>5. ASSUME v[1] = "string", v[2][1] \in {"num", "point"}
        PROVE  LET h == v[2][2]
                   literal == Cursor!IsInt(v[2], Cursor!MinInt64, MaxInt64)
               IN /\ kind = "int32" => Cursor!Nearest(x, h, Cursor!MinInt32, MaxInt32)
                  /\ kind = "int64" /\ (literal \/ h \in -Exact..Exact)
                       => Cursor!Nearest(x, h, Cursor!MinInt64, MaxInt64)
                  /\ kind = "int64" /\ ~literal
                       /\ Float[h] \in (2 * Cursor!MinInt64)..(2 * MaxInt64)
                       => Cursor!Nearest(x, Float[h], Cursor!MinInt64, MaxInt64)
    <3>1. PICK t : t = v[2]
      OBVIOUS
    <3>2. t[1] \in {"num", "point"} /\ t[2] \in DOMAIN Float /\ Cursor!IsNumber(t)
      BY <2>4, <2>5, <3>1 DEF Cursor!IsNumber
    <3>3. ASSUME kind = "int32" PROVE Cursor!Nearest(x, t[2], Cursor!MinInt32, MaxInt32)
      <4>1. x \in Cursor!TextAsInt32(t)
        BY <2>2, <2>5, <3>1, <3>2, <3>3 DEF Cursor!Converted, Cursor!AsInt32
      <4> QED
        BY <3>2, <4>1, TextNearest32
    <3>4. ASSUME kind = "int64" PROVE x \in Cursor!TextAsInt64(t)
      BY <2>2, <2>5, <3>1, <3>2, <3>4 DEF Cursor!Converted, Cursor!AsInt64
    <3> QED
      BY <3>1, <3>2, <3>3, <3>4, TextNearest64
  <2>6. ASSUME v[1] = "int64"
        PROVE  /\ kind = "int32" /\ v[2] \in Cursor!MinInt32..MaxInt32 => x = v[2]
               /\ kind = "int64" => x = v[2]
               /\ kind = "string" => Cursor!AsInt64(<<"string", x>>) = {v[2]}
    <3>1. v[2] \in Cursor!MinInt64..MaxInt64
      BY <2>4, <2>6, Ranges
    <3>2. kind = "int32" /\ v[2] \in Cursor!MinInt32..MaxInt32 => x = v[2]
      BY <2>2, <2>6, NarrowKeeps DEF Cursor!Converted, Cursor!AsInt32
    <3>3. kind = "int64" => x = v[2]
      BY <2>2, <2>6 DEF Cursor!Converted, Cursor!AsInt64
    <3>4. kind = "string" => x = <<"num", 2 * v[2]>>
      BY <2>2, <2>6 DEF Cursor!Converted, Cursor!AsString
    <3> QED
      BY <3>1, <3>2, <3>3, <3>4, IntegerReadBack
  <2> QED
    BY <2>3, <2>5, <2>6 DEF NumbersNearest, Cursor!NumbersNearest
<1> QED
  BY <1>1, <1>2

-----------------------------------------------------------------------------
(* The cursor of reply.go.                                                  *)

\* position counts the items handed out, which are the first ones in their order;
\* no ForEach under way has an item that is not there.
CursorInv ==
    /\ items \in Seq(Values)
    /\ position \in 0..Len(items)
    /\ delivered = [i \in 1..position |-> <<i, items[i]>>]
    /\ running \in Seq(0..Len(items))
    /\ got = Cursor!NothingYet \/ WasConverted(got)

LEMMA CursorOpens ==
    ASSUME NEW s \in Seq(Values), Cursor!Open(s)
    PROVE  CursorInv'
<1>1. /\ items' = s /\ position' = 0 /\ running' = <<>> /\ delivered' = <<>>
      /\ got' = Cursor!NothingYet
  BY DEF Cursor!Open
<1>2. 0 \in 0..Len(s) /\ <<>> \in Seq(0..Len(s)) /\ <<>> = [i \in 1..0 |-> <<i, s[i]>>]
  <2>1. Len(s) \in Nat
    BY LenProperties
  <2> QED
    BY <2>1
<1> QED
  BY <1>1, <1>2 DEF CursorInv

\* One item more is handed out.
LEMMA CursorAdvances ==
    ASSUME CursorInv, Cursor!HasNext, Cursor!Advance, items' = items,
           running' \in Seq(0..Len(items)), got' = Cursor!NothingYet \/ WasConverted(got')
    PROVE  CursorInv'
<1>1. PICK n \in Nat : n = position
  BY DEF CursorInv
<1>2. Len(items) \in Nat /\ n < Len(items) /\ items \in Seq(Values)
  BY <1>1, LenProperties DEF CursorInv, Cursor!HasNext
<1>3. PICK x : x = <<n + 1, items[n + 1]>>
  OBVIOUS
<1>4. /\ position' = n + 1 /\ delivered' = Append(delivered, x)
      /\ delivered = [i \in 1..n |-> <<i, items[i]>>]
  BY <1>1, <1>3 DEF CursorInv, Cursor!Advance
<1>5. delivered' = [i \in 1..(n + 1) |-> <<i, items[i]>>]
  <2>1. PICK e : e = [i \in 1..(n + 1) |-> <<i, items[i]>>]
    OBVIOUS
  <2>2. PICK d : d = delivered
    OBVIOUS
  <2>3. PICK S : S = {<<i, items[i]>> : i \in 1..(n + 1)}
    OBVIOUS
  <2>4. d \in Seq(S) /\ Len(d) = n /\ \A i \in 1..n : d[i] = <<i, items[i]>>
    <3>1. \A i \in 1..n : <<i, items[i]>> \in S
      BY <1>1, <2>3
    <3>2. d \in [1..n -> S]
      BY <1>4, <2>2, <3>1
    <3>3. d \in Seq(S)
      BY <1>1, <3>2, SeqDef
    <3> QED
      BY <1>1, <1>4, <2>2, <3>2, <3>3, LenProperties
  <2>5. x \in S
    BY <1>1, <1>3, <2>3
  <2>6. /\ Append(d, x) \in Seq(S) /\ Len(Append(d, x)) = n + 1
        /\ \A i \in 1..n : Append(d, x)[i] = d[i]
        /\ Append(d, x)[n + 1] = x
    BY <2>4, <2>5, AppendProperties
  <2>7. \A i \in 1..(n + 1) : <<i, items[i]>> \in S
    BY <2>3
  <2>8. e \in [1..(n + 1) -> S]
    BY <2>1, <2>7
  <2>9. e \in Seq(S) /\ Len(e) = n + 1
    <3>1. n + 1 \in Nat
      BY <1>1
    <3>2. e \in Seq(S)
      BY <2>8, <3>1, SeqDef
    <3> QED
      BY <2>8, <3>1, <3>2, LenProperties
  <2>10. ASSUME NEW i \in 1..(n + 1) PROVE Append(d, x)[i] = e[i]
    <3>1. e[i] = <<i, items[i]>>
      BY <2>1
    <3>2. CASE i = n + 1
      BY <1>3, <2>6, <3>1, <3>2
    <3>3. CASE i # n + 1
      <4>1. i \in 1..n
        BY <1>1, <3>3
      <4> QED
        BY <2>4, <2>6, <3>1, <4>1
    <3> QED
      BY <3>2, <3>3
  <2>11. Append(d, x) = e
    BY <2>6, <2>9, <2>10, SeqEqual
  <2> QED
    BY <1>4, <2>1, <2>2, <2>11
<1>6. n + 1 \in 0..Len(items)
  BY <1>1, <1>2
<1> QED
  BY <1>2, <1>4, <1>5, <1>6 DEF CursorInv

\* Nothing is handed out.
LEMMA CursorStays ==
    ASSUME CursorInv, UNCHANGED <<items, position, delivered>>,
           running' \in Seq(0..Len(items)), got' = Cursor!NothingYet \/ WasConverted(got')
    PROVE  CursorInv'
BY DEF CursorInv

LEMMA ReadableTypes ==
    ASSUME CursorInv, NEW v \in Cursor!Readables
    PROVE  v \in Values \cup {Nil}
BY ElementOfSeq DEF CursorInv, Cursor!Readables, Cursor!NoValue, Nil

LEMMA ValueRead ==
    ASSUME CursorInv, NEW v, Cursor!ReadValue(v),
           got' = Cursor!NothingYet \/ WasConverted(got')
    PROVE  CursorInv'
<1>1. items' = items /\ running' \in Seq(0..Len(items))
  BY DEF Cursor!ReadValue, CursorInv
<1>2. CASE Cursor!HasNext /\ Cursor!Advance
  BY <1>1, <1>2, CursorAdvances
<1>3. CASE UNCHANGED <<position, delivered>>
  BY <1>1, <1>3, CursorStays
<1> QED
  BY <1>2, <1>3 DEF Cursor!ReadValue

\* Every operation of the reader, by the user or by a callback.
LEMMA CursorStep ==
    ASSUME CursorInv, Cursor!UseReader
    PROVE  CursorInv'
<1>1. ASSUME NEW kind \in Kinds, Cursor!ReadAs(kind) PROVE CursorInv'
  <2>1. PICK v \in Cursor!Readables :
          /\ Cursor!ReadValue(v)
          /\ \E x \in Cursor!Converted(kind, v) : got' = <<kind, v, x>>
    BY <1>1 DEF Cursor!ReadAs
  <2>2. WasConverted(got')
    BY <2>1, ReadableTypes DEF WasConverted
  <2> QED
    BY <2>1, <2>2, ValueRead
<1>2. CASE Cursor!SkipValue
  BY <1>2, ValueRead DEF Cursor!SkipValue
<1>3. CASE Cursor!ReadArray
  <2>1. PICK v \in Cursor!Readables :
          IF v[1] = "slice" /\ running = <<>> /\ Cursor!HasNext /\ v = items[position + 1]
          THEN Cursor!Open(v[2])
          ELSE Cursor!ReadValue(v) /\ got' = Cursor!NothingYet
    BY <1>3 DEF Cursor!ReadArray
  <2>2. CASE v[1] = "slice" /\ Cursor!Open(v[2])
    <3>1. v \in Values
      BY <2>2, ReadableTypes DEF Nil
    <3>2. v[2] \in Seq(Values)
      BY <2>2, <3>1, ValueTypes
    <3> QED
      BY <2>2, <3>2, CursorOpens
  <2>3. CASE Cursor!ReadValue(v) /\ got' = Cursor!NothingYet
    BY <2>3, ValueRead
  <2> QED
    BY <2>1, <2>2, <2>3
<1>4. CASE Cursor!ForEach
  <2>1. /\ running' = Append(running, 0) /\ UNCHANGED <<items, position, delivered, got>>
    BY <1>4 DEF Cursor!ForEach
  <2>2. PICK S : S = 0..Len(items)
    OBVIOUS
  <2>3. running \in Seq(S) /\ 0 \in S
    BY <2>2, LenProperties DEF CursorInv
  <2>4. running' \in Seq(S)
    BY <2>1, <2>3, AppendProperties
  <2> QED
    BY <2>1, <2>2, <2>4, CursorStays DEF CursorInv
<1>5. CASE Cursor!Action
  <2>1. /\ Cursor!Looping /\ Cursor!HasNext /\ Cursor!SetTop(position + 1) /\ Cursor!Advance
        /\ UNCHANGED <<items, got>>
    BY <1>5 DEF Cursor!Action
  <2>2. PICK S : S = 0..Len(items)
    OBVIOUS
  <2>3. running \in Seq(S) /\ running # <<>> /\ position + 1 \in S
    BY <2>1, <2>2, LenProperties DEF CursorInv, Cursor!Looping, Cursor!HasNext
  <2>4. running' \in Seq(S)
    <3>1. Len(running) \in 1..Len(running)
      BY <2>3, EmptySeq
    <3>2. PICK q \in Seq(S) : q = running
      BY <2>3
    <3>3. PICK x \in S : x = position + 1
      BY <2>3
    <3>4. [q EXCEPT ![Len(q)] = x] \in Seq(S)
      BY <3>1, <3>2, ExceptSeq
    <3> QED
      BY <2>1, <3>2, <3>3, <3>4 DEF Cursor!SetTop
  <2> QED
    BY <2>1, <2>2, <2>4, CursorAdvances DEF CursorInv
<1>6. ASSUME UNCHANGED <<items, position, delivered, got>>, running # <<>>,
             Cursor!SetTop(0) \/ running' = SubSeq(running, 1, Len(running) - 1)
      PROVE  CursorInv'
  <2>1. PICK S : S = 0..Len(items)
    OBVIOUS
  <2>2. running \in Seq(S) /\ 0 \in S
    BY <2>1, LenProperties DEF CursorInv
  <2>3. PICK q \in Seq(S) : q = running
    BY <2>2
  <2>4. Len(q) \in Nat \ {0}
    BY <1>6, <2>3, EmptySeq
  <2>5. running' \in Seq(S)
    <3>1. CASE Cursor!SetTop(0)
      <4>1. Len(q) \in 1..Len(q)
        BY <2>4
      <4>2. PICK z \in S : z = 0
        BY <2>2
      <4>3. [q EXCEPT ![Len(q)] = z] \in Seq(S)
        BY <4>1, ExceptSeq
      <4> QED
        BY <2>3, <3>1, <4>2, <4>3 DEF Cursor!SetTop
    <3>2. CASE running' = SubSeq(running, 1, Len(running) - 1)
      <4>1. Len(q) - 1 \in 0..Len(q)
        BY <2>4
      <4>2. SubSeq(q, 1, Len(q) - 1) \in Seq(S)
        BY <4>1, FrontProperties
      <4> QED
        BY <2>3, <3>2, <4>2
    <3> QED
      BY <1>6, <3>1, <3>2
  <2> QED
    BY <1>6, <2>1, <2>5, CursorStays DEF CursorInv
<1>7. CASE Cursor!ActionReturns
  BY <1>6, <1>7 DEF Cursor!ActionReturns
<1>8. CASE Cursor!ForEachReturns
  BY <1>6, <1>8 DEF Cursor!ForEachReturns, Cursor!Looping
<1> QED
  BY <1>1, <1>2, <1>3, <1>4, <1>5, <1>7, <1>8 DEF Cursor!UseReader, Kinds

LEMMA CursorOrder ==
    ASSUME CursorInv
    PROVE  ItemsOnceInOrder
<1>1. Len(items) \in Nat /\ position \in Nat /\ position <= Len(items)
  BY LenProperties DEF CursorInv
<1>2. Len(delivered) = position
  <2>1. PICK d : d = [i \in 1..position |-> <<i, items[i]>>]
    OBVIOUS
  <2>2. d = delivered /\ Len(d) = position
    BY <1>1, <2>1 DEF CursorInv
  <2> QED
    BY <2>2
<1> QED
  BY <1>1, <1>2 DEF CursorInv, ItemsOnceInOrder, Cursor!ItemsOnceInOrder

-----------------------------------------------------------------------------
(* HGETALL: a list of fields and values becomes a map.                      *)

Field(s, i) == TextOf(s[2 * i - 1])
Value(s, i) == TextOf(s[2 * i])

\* m is the map after no pair of s, one pair, two and so on.
Merges(m, s, n) ==
    m = [i \in 0..n |-> IF i = 0 THEN <<>> ELSE Put(m[i - 1], Field(s, i), Value(s, i))]

LEMMA MergeSteps ==
    ASSUME NEW n \in Nat, NEW s, NEW m, Merges(m, s, n)
    PROVE  /\ m[0] = <<>>
           /\ \A i \in 1..n : m[i] = Put(m[i - 1], Field(s, i), Value(s, i))
BY DEF Merges

LEMMA MergesFrom ==
    ASSUME NEW n \in Nat, NEW s, NEW m,
           m = [i \in 0..n |-> m[i]], m[0] = <<>>,
           \A i \in 1..n : m[i] = Put(m[i - 1], Field(s, i), Value(s, i))
    PROVE  Merges(m, s, n)
<1>1. ASSUME NEW i \in 0..n
      PROVE  m[i] = IF i = 0 THEN <<>> ELSE Put(m[i - 1], Field(s, i), Value(s, i))
  <2>1. i = 0 \/ i \in 1..n
    OBVIOUS
  <2> QED
    BY <2>1
<1>2. [i \in 0..n |-> m[i]]
        = [i \in 0..n |-> IF i = 0 THEN <<>> ELSE Put(m[i - 1], Field(s, i), Value(s, i))]
  BY <1>1
<1> QED
  BY <1>2 DEF Merges

LEMMA MergesExist ==
    ASSUME NEW s, NEW len \in Nat
    PROVE  \E m : Merges(m, s, len)
<1> DEFINE T == {n \in Nat : \E m : Merges(m, s, n)}
<1>1. 0 \in T
  <2>1. Merges([i \in 0..0 |-> <<>>], s, 0)
    BY DEF Merges
  <2> QED
    BY <2>1
<1>2. ASSUME NEW n \in Nat, n \in T PROVE n + 1 \in T
  <2>1. PICK m : Merges(m, s, n)
    BY <1>2
  <2> DEFINE w == [i \in 0..(n + 1) |->
                     IF i <= n THEN m[i] ELSE Put(m[n], Field(s, n + 1), Value(s, n + 1))]
  <2>2. w[0] = <<>>
    BY <2>1, MergeSteps
  <2>3. ASSUME NEW i \in 1..(n + 1)
        PROVE  w[i] = Put(w[i - 1], Field(s, i), Value(s, i))
    <3>1. CASE i = n + 1
      BY <3>1
    <3>2. CASE i \in 1..n
      BY <2>1, <3>2, MergeSteps
    <3> QED
      BY <3>1, <3>2
  <2>4. w = [i \in 0..(n + 1) |-> w[i]]
    OBVIOUS
  <2> HIDE DEF w
  <2>5. Merges(w, s, n + 1)
    BY <2>2, <2>3, <2>4, n + 1 \in Nat, MergesFrom
  <2> QED
    BY <2>5
<1> HIDE DEF T
<1>3. len \in T
  BY <1>1, <1>2, Induction
<1> QED
  BY <1>3 DEF T

\* m maps each field of the first n pairs to the value that came last with it.
LastValues(m, s, n) ==
    /\ DOMAIN m = {Field(s, i) : i \in 1..n}
    /\ \A f \in DOMAIN m : \E i \in 1..n :
         /\ Field(s, i) = f /\ m[f] = Value(s, i)
         /\ \A j \in 1..n : Field(s, j) = f => j <= i

LEMMA MergedValues ==
    ASSUME NEW s, NEW len \in Nat, NEW m, Merges(m, s, len)
    PROVE  LastValues(m[len], s, len)
<1> DEFINE T == {n \in Nat : n <= len => LastValues(m[n], s, n)}
<1>1. 0 \in T
  <2>1. m[0] = <<>> /\ DOMAIN <<>> = {}
    BY MergeSteps
  <2>2. LastValues(m[0], s, 0)
    BY <2>1 DEF LastValues
  <2> QED
    BY <2>2
<1>2. ASSUME NEW n \in Nat, n \in T PROVE n + 1 \in T
  <2> SUFFICES ASSUME n + 1 <= len PROVE LastValues(m[n + 1], s, n + 1)
    OBVIOUS
  <2>1. PICK k : k = n + 1
    OBVIOUS
  <2>2. PICK f : f = Field(s, k)
    OBVIOUS
  <2>3. PICK x : x = Value(s, k)
    OBVIOUS
  <2>4. PICK p : p = m[n]
    OBVIOUS
  <2>5. PICK q : q = m[k]
    OBVIOUS
  <2>6. q = Put(p, f, x)
    <3>1. k \in 1..len /\ k - 1 = n
      BY <2>1
    <3> QED
      BY <2>2, <2>3, <2>4, <2>5, <3>1, MergeSteps
  <2>7. /\ DOMAIN q = {f} \cup DOMAIN p /\ q[f] = x
        /\ \A g \in DOMAIN p : g # f => q[g] = p[g]
    BY <2>6 DEF Put
  <2>8. LastValues(p, s, n)
    BY <1>2, <2>4
  <2>9. DOMAIN q = {Field(s, i) : i \in 1..k}
    <3>1. 1..k = 1..n \cup {k}
      BY <2>1
    <3>2. DOMAIN p = {Field(s, i) : i \in 1..n}
      BY <2>8 DEF LastValues
    <3>3. {Field(s, i) : i \in 1..k} = {Field(s, i) : i \in 1..n} \cup {Field(s, k)}
      BY <3>1
    <3> QED
      BY <2>2, <2>7, <3>2, <3>3
  <2>10. ASSUME NEW g \in DOMAIN q
         PROVE  \E i \in 1..k : /\ Field(s, i) = g /\ q[g] = Value(s, i)
                                /\ \A j \in 1..k : Field(s, j) = g => j <= i
    <3>1. CASE g = f
      <4>1. k \in 1..k /\ \A j \in 1..k : j <= k
        BY <2>1
      <4> QED
        BY <2>2, <2>3, <2>7, <3>1, <4>1
    <3>2. CASE g # f
      <4>1. g \in DOMAIN p /\ q[g] = p[g]
        BY <2>7, <3>2
      <4>2. PICK i \in 1..n : /\ Field(s, i) = g /\ p[g] = Value(s, i)
                              /\ \A j \in 1..n : Field(s, j) = g => j <= i
        BY <2>8, <4>1 DEF LastValues
      <4>3. i \in 1..k
        BY <2>1
      <4>4. ASSUME NEW j \in 1..k, Field(s, j) = g PROVE j <= i
        <5>1. j # k
          BY <2>2, <3>2, <4>4
        <5>2. j \in 1..n
          BY <2>1, <5>1
        <5> QED
          BY <4>2, <4>4, <5>2
      <4> QED
        BY <4>1, <4>2, <4>3, <4>4
    <3> QED
      BY <3>1, <3>2
  <2>11. LastValues(q, s, k)
    BY <2>9, <2>10 DEF LastValues
  <2> QED
    BY <2>1, <2>5, <2>11
<1> HIDE DEF T
<1>3. len \in T
  BY <1>1, <1>2, Induction
<1> QED
  BY <1>3 DEF T

LEMMA MapReplyMerges ==
    ASSUME NEW v, v[1] = "slice", Len(v[2]) \in Nat, Len(v[2]) % 2 = 0
    PROVE  \E m : Merges(m, v[2], Len(v[2]) \div 2) /\ MapReply(v) = <<"map", m[Len(v[2]) \div 2]>>
<1> DEFINE c == CHOOSE m :
                  m = [i \in 0..(Len(v[2]) \div 2) |->
                         IF i = 0 THEN <<>>
                         ELSE Put(m[i - 1], TextOf(v[2][2 * i - 1]), TextOf(v[2][2 * i]))]
<1>0. Len(v[2]) \div 2 \in Nat
  <2>1. PICK k \in Nat : k = Len(v[2])
    OBVIOUS
  <2>2. k \div 2 \in Nat
    OBVIOUS
  <2> QED
    BY <2>1, <2>2
<1>1. \E m : m = [i \in 0..(Len(v[2]) \div 2) |->
                    IF i = 0 THEN <<>>
                    ELSE Put(m[i - 1], TextOf(v[2][2 * i - 1]), TextOf(v[2][2 * i]))]
  BY <1>0, MergesExist DEF Merges, Field, Value
<1>2. c = [i \in 0..(Len(v[2]) \div 2) |->
             IF i = 0 THEN <<>>
             ELSE Put(c[i - 1], TextOf(v[2][2 * i - 1]), TextOf(v[2][2 * i]))]
  BY <1>1, Zenon
<1>3. MapReply(v) = <<"map", c[Len(v[2]) \div 2]>>
  BY DEF MapReply
<1> HIDE DEF c
<1>4. Merges(c, v[2], Len(v[2]) \div 2)
  BY <1>2 DEF Merges, Field, Value
<1> QED
  BY <1>3, <1>4

-----------------------------------------------------------------------------
(* The invariant.                                                           *)

\* Nothing was sent or received on the connection for the present call.
Fresh ==
    wire = <<>> /\ frames = <<>> /\ reply = Pending /\ sent = Nil /\ whole = TRUE

GoTypes == {"int", "bool", "text", "list", "map", "sha", "exists", "ok", "any"}

CommandInv ==
    /\ stage \in {"idle", "call", "done", "scan"}
    /\ as \in GoTypes \cup {"none"}
    /\ ttl \in MinInt64..MaxInt64
    /\ wire \in Seq(Replies)
    /\ IsRequest(asked)
    /\ stage = "idle" => Fresh /\ ttl = 0 /\ as = "none"
    /\ stage = "call" => (Reading \/ Returned) /\ as # "none"
    /\ stage = "done" => \/ Fresh /\ outcome = Failed /\ as = "none"
                         \/ Returned /\ outcome = Decoded(as, reply) /\ as # "none"
    /\ stage = "scan" => Fresh
    /\ stage # "done" => outcome = Nil
    /\ TtlKept
    /\ CursorInv

\* What ReadReply has returned.
LEMMA ReturnedTypes ==
    ASSUME Returned
    PROVE  /\ reply \in Values \cup {Broken} /\ reply # Pending
           /\ reply[1] \in {"string", "RedisError", "int64", "slice", "nil", "broken"}
           /\ reply[1] = "broken" => reply = Broken
           /\ reply # Broken => whole /\ wire = <<>>
           /\ frames = <<>>
<1>1. reply = Meaning[sent] \/ reply = Broken
  BY DEF Returned
<1>2. Meaning[sent] \in Values
  BY DEF Returned, Values
<1>3. reply \in Values \cup {Broken}
  BY <1>1, <1>2
<1>4. /\ reply[1] \in {"string", "RedisError", "int64", "slice", "nil", "broken"}
      /\ reply[1] = "broken" => reply = Broken
  BY <1>3, ValueTypes DEF Broken
<1>5. reply # Pending
  BY <1>4 DEF Pending
<1>6. reply # Broken => whole /\ wire = <<>>
  BY DEF Returned
<1> QED
  BY <1>3, <1>4, <1>5, <1>6 DEF Returned

LEMMA NoReplies == <<>> \in Seq(Replies)
OBVIOUS

LEMMA NoRequest == IsRequest(<<>>)
BY DEF IsRequest

LEMMA InitInv == Init => CommandInv
<1> SUFFICES ASSUME Init PROVE CommandInv
  OBVIOUS
<1>1. CursorInv
  <2>1. items = <<>> /\ position = 0 /\ running = <<>> /\ delivered = <<>> /\ got = Cursor!NothingYet
    BY DEF Init, Cursor!ReaderInit
  <2>2. /\ <<>> \in Seq(Values) /\ Len(<<>>) = 0 /\ <<>> \in Seq(0..0)
        /\ <<>> = [i \in 1..0 |-> <<i, <<>>[i]>>]
    OBVIOUS
  <2> QED
    BY <2>1, <2>2 DEF CursorInv
<1>2. 0 \in MinInt64..MaxInt64
  BY LimitsAssumption DEF MinInt64
<1>3. stage = "idle" /\ Fresh /\ ttl = 0 /\ as = "none" /\ outcome = Nil
  BY DEF Init, Fresh
<1>4. wire \in Seq(Replies) /\ IsRequest(asked)
  BY NoRequest, NoReplies DEF Init
<1> QED
  BY <1>1, <1>2, <1>3, <1>4 DEF CommandInv, TtlKept

LEMMA CursorUnchanged ==
    ASSUME CursorInv, UNCHANGED readerVars
    PROVE  CursorInv'
BY DEF CursorInv, readerVars

\* A request goes out.
LEMMA RequestSent ==
    ASSUME CommandInv, NEW args, NEW kind \in GoTypes, Do(args, kind), IsRequest(args),
           ttl' \in MinInt64..MaxInt64, TtlKept'
    PROVE  CommandInv'
<1>1. /\ stage = "idle" /\ stage' = "call" /\ as' = kind /\ UNCHANGED readerVars
      /\ asked' = args /\ outcome' = outcome
  BY DEF Do
<1>6. as' # "none" /\ as' \in GoTypes
  BY <1>1 DEF GoTypes
<1>7. IsRequest(asked)' /\ outcome' = Nil
  BY <1>1 DEF CommandInv, IsRequest
<1>2. PICK r \in Replies : Send(r)
  BY DEF Do
<1>3. wire = <<>> /\ frames = <<>>
  BY <1>1 DEF CommandInv, Fresh
<1>4. Reading'
  BY <1>2, <1>3, ReplySent
<1>5. CursorInv'
  BY <1>1, CursorUnchanged DEF CommandInv
<1>8. wire' \in Seq(Replies)
  BY <1>4 DEF Reading, Waiting
<1> QED
  BY <1>1, <1>4, <1>5, <1>6, <1>7, <1>8 DEF CommandInv

LEMMA CallInv ==
    ASSUME CommandInv, NEW args, NEW kind \in GoTypes, Call(args, kind), IsRequest(args)
    PROVE  CommandInv'
<1>1. Do(args, kind) /\ ttl' = ttl /\ stage = "idle"
  BY DEF Call, Do
<1>2. ttl' = 0 /\ ttl' \in MinInt64..MaxInt64
  BY <1>1 DEF CommandInv
<1>3. TtlKept'
  BY <1>2 DEF TtlKept
<1> QED
  BY <1>1, <1>2, <1>3, RequestSent

\* SET and EXPIRE with a TTL.
LEMMA SetInv ==
    ASSUME CommandInv, NEW d \in Durations, Set(d)
    PROVE  CommandInv'
<1>1. /\ d \in MinInt64..MaxInt64 /\ d \in Int
      /\ ttl' = d /\ ttl' \in MinInt64..MaxInt64
  BY UnitsAssumption, LimitsAssumption DEF Set, MinInt64
<1>2. PICK args : /\ args = IF d > 0 THEN <<"SET", "k", "v", "PX", Milliseconds(d)>>
                                     ELSE <<"SET", "k", "v">>
                  /\ Do(args, "ok")
  BY DEF Set
<1>3. asked' = args
  BY <1>2 DEF Do
<1>4. TtlKept'
  <2>1. CASE d > 0
    <3>1. d \in Nat \ {0}
      BY <1>1, <2>1
    <3>2. PICK n : n = Milliseconds(d)
      OBVIOUS
    <3>3. n >= 1 /\ d < (n + 1) * Millisecond /\ (n > 1 => n * Millisecond <= d)
      BY <3>1, <3>2, MillisecondsKept
    <3>4. asked' = <<"SET", "k", "v", "PX", n>>
      BY <1>2, <1>3, <2>1, <3>2
    <3>5. asked'[1] = "SET" /\ Len(asked') = 5 /\ asked'[5] = n
      BY <3>4
    <3> QED
      BY <1>1, <3>3, <3>5 DEF TtlKept
  <2>2. CASE ~(d > 0)
    BY <1>1, <2>2 DEF TtlKept
  <2> QED
    BY <2>1, <2>2
<1>5. IsRequest(args)
  <2>1. PICK n : n = Milliseconds(d)
    OBVIOUS
  <2>2. n \in Int
    BY <1>1, <2>1, UnitsAssumption DEF Milliseconds
  <2>3. IsRequest(<<"SET", "k", "v", "PX", n>>)
    BY <2>2 DEF IsRequest, NumbersAt, Arguments
  <2>4. IsRequest(<<"SET", "k", "v">>)
    BY DEF IsRequest, NumbersAt, Arguments
  <2> QED
    BY <1>2, <2>1, <2>3, <2>4
<1> QED
  BY <1>1, <1>2, <1>4, <1>5, RequestSent DEF GoTypes

LEMMA ExpireInv ==
    ASSUME CommandInv, NEW d \in Durations, Expire(d)
    PROVE  CommandInv'
<1>1. /\ d \in MinInt64..MaxInt64 /\ d \in Int
      /\ ttl' = d /\ ttl' \in MinInt64..MaxInt64
  BY UnitsAssumption, LimitsAssumption DEF Expire, MinInt64
<1>2. PICK n : n = Seconds(d)
  OBVIOUS
<1>3. Do(<<"EXPIRE", "k", n>>, "bool")
  BY <1>2 DEF Expire
<1>4. asked' = <<"EXPIRE", "k", n>> /\ asked'[1] = "EXPIRE" /\ asked'[3] = n
  BY <1>3 DEF Do
<1>5. TtlKept'
  <2>1. ASSUME d > 0, d <= MaxInt64 - (Second - 1) PROVE n * Second \in d..(d + Second - 1)
    <3>1. d \in Nat \ {0}
      BY <1>1, <2>1
    <3> QED
      BY <1>2, <2>1, <3>1, SecondsKept
  <2> QED
    BY <1>1, <1>4, <2>1 DEF TtlKept
<1>6. IsRequest(<<"EXPIRE", "k", n>>)
  <2>1. n \in Int
    BY <1>1, <1>2, SecondsTyped
  <2> QED
    BY <2>1 DEF IsRequest, NumbersAt, Arguments
<1> QED
  BY <1>1, <1>3, <1>5, <1>6, RequestSent DEF GoTypes

LEMMA KeysTyped == KeyLists \subseteq Seq(Arguments)
<1> SUFFICES ASSUME NEW ks \in KeyLists PROVE ks \in Seq(Arguments)
  OBVIOUS
<1>1. ks \in Seq(Names)
  BY UnitsAssumption
<1>2. ks \in [1..Len(ks) -> Arguments]
  BY <1>1, LenProperties, ElementOfSeq DEF Arguments
<1> QED
  BY <1>1, <1>2, LenProperties, SeqDef

\* A command with texts only, some of them the caller's.
LEMMA TextsAfter ==
    ASSUME NEW p \in Seq(Arguments), p # <<>>, NumbersAt(p[1]) = {}, NEW ks \in Seq(Arguments)
    PROVE  IsRequest(p \o ks) /\ IsRequest(p)
<1>1. p \o ks \in Seq(Arguments) /\ (p \o ks)[1] = p[1]
  <2>1. Len(p) \in Nat \ {0}
    BY EmptySeq
  <2> QED
    BY <2>1, ConcatProperties
<1>2. PICK q \in Seq(Arguments) : q = p \o ks
  BY <1>1
<1>3. IsRequest(q)
  BY <1>1, <1>2, ElementOfSeq DEF IsRequest
<1>4. IsRequest(p)
  BY ElementOfSeq DEF IsRequest
<1> QED
  BY <1>2, <1>3, <1>4

\* EVAL and EVALSHA give the number of keys.
LEMMA KeysAfter ==
    ASSUME NEW c \in {"EVAL", "EVALSHA"}, NEW t \in Arguments, NEW ks \in Seq(Arguments)
    PROVE  IsRequest(<<c, t, Len(ks)>> \o ks)
<1>1. PICK n \in Nat : n = Len(ks)
  BY LenProperties
<1>2. PICK p : p = <<c, t, n>>
  OBVIOUS
<1>3. Len(p) = 3 /\ p[1] = c /\ p[2] = t /\ p[3] = n
  BY <1>2
<1>4. PICK S : S = Arguments \cup Int
  OBVIOUS
<1>5. p \in Seq(S) /\ ks \in Seq(S)
  <2>1. c \in S /\ t \in S /\ n \in S
    BY <1>4 DEF Arguments
  <2>2. ks \in [1..n -> S]
    <3>1. \A i \in 1..n : ks[i] \in S
      BY <1>1, <1>4, ElementOfSeq
    <3> QED
      BY <1>1, <3>1, LenProperties
  <2> QED
    BY <1>2, <2>1, <2>2, SeqDef
<1>6. PICK q : q = p \o ks
  OBVIOUS
<1>7. /\ Len(q) = 3 + n
      /\ \A i \in 1..3 : q[i] = p[i]
      /\ \A i \in 4..(3 + n) : q[i] = ks[i - 3]
  <2>1. /\ Len(q) = Len(p) + Len(ks)
        /\ \A i \in 1..Len(p) : q[i] = p[i]
        /\ \A i \in 1..Len(ks) : q[Len(p) + i] = ks[i]
    BY <1>5, <1>6, ConcatProperties
  <2>2. ASSUME NEW i \in 4..(3 + n) PROVE q[i] = ks[i - 3]
    <3>1. i - 3 \in 1..n /\ 3 + (i - 3) = i
      OBVIOUS
    <3> QED
      BY <1>1, <1>3, <2>1, <3>1
  <2> QED
    BY <1>1, <1>3, <2>1, <2>2
<1>8. NumbersAt(q[1]) = {3}
  BY <1>3, <1>7 DEF NumbersAt
<1>9. ASSUME NEW i \in 1..Len(q)
      PROVE  IF i \in {3} THEN q[i] \in Int ELSE q[i] \in Arguments
  <2>1. CASE i \in 1..3
    <3>1. q[1] \in Arguments
      BY <1>3, <1>7 DEF Arguments
    <3> QED
      BY <1>3, <1>7, <2>1, <3>1
  <2>2. CASE i \in 4..(3 + n)
    <3>1. i - 3 \in 1..n
      BY <2>2
    <3>2. q[i] \in Arguments
      BY <1>1, <1>7, <2>2, <3>1, ElementOfSeq
    <3> QED
      BY <2>2, <3>2
  <2> QED
    BY <1>7, <2>1, <2>2
<1>10. IsRequest(q)
  BY <1>8, <1>9 DEF IsRequest
<1> QED
  BY <1>1, <1>2, <1>6, <1>10

\* What the commands begin with.
LEMMA Beginnings ==
    ASSUME NEW c \in Arguments
    PROVE  /\ <<c>> \in Seq(Arguments) /\ <<c>> # <<>> /\ <<c>>[1] = c
           /\ \A k \in Arguments :
                <<c, k>> \in Seq(Arguments) /\ <<c, k>> # <<>> /\ <<c, k>>[1] = c
           /\ \A k, f \in Arguments :
                <<c, k, f>> \in Seq(Arguments) /\ <<c, k, f>> # <<>> /\ <<c, k, f>>[1] = c
           /\ \A k, f, v \in Arguments :
                /\ <<c, k, f, v>> \in Seq(Arguments)
                /\ <<c, k, f, v>> # <<>> /\ <<c, k, f, v>>[1] = c
           /\ <<>> \in Seq(Arguments)
OBVIOUS

TextCommands == {"GET", "DEL", "EXISTS", "INCR", "TTL", "HSET", "HGET", "HGETALL", "HDEL",
                 "HEXISTS", "LPUSH", "RPUSH", "LPOP", "RPOP", "LLEN", "SADD", "SMEMBERS",
                 "SREM", "SISMEMBER", "SCARD", "PING", "FLUSHALL", "SCRIPT"}

LEMMA TextRequests ==
    ASSUME NEW c \in TextCommands
    PROVE  /\ IsRequest(<<c>>)
           /\ \A k \in Arguments : IsRequest(<<c, k>>)
           /\ \A k, f \in Arguments : IsRequest(<<c, k, f>>)
           /\ \A k, f, v \in Arguments : IsRequest(<<c, k, f, v>>)
           /\ \A ks \in KeyLists : IsRequest(<<c>> \o ks)
           /\ \A k \in Arguments, ks \in KeyLists : IsRequest(<<c, k>> \o ks)
<1>1. c \in Arguments /\ NumbersAt(c) = {}
  BY DEF TextCommands, NumbersAt, Arguments
<1>2. KeyLists \subseteq Seq(Arguments)
  BY KeysTyped
<1>3. IsRequest(<<c>>) /\ \A ks \in KeyLists : IsRequest(<<c>> \o ks)
  <2>1. <<c>> \in Seq(Arguments) /\ <<c>> # <<>> /\ <<c>>[1] = c
    BY <1>1, Beginnings
  <2>2. PICK p : p = <<c>>
    OBVIOUS
  <2>3. IsRequest(p) /\ \A ks \in KeyLists : IsRequest(p \o ks)
    BY <1>1, <1>2, <2>1, <2>2, TextsAfter, Beginnings
  <2> QED
    BY <2>2, <2>3
<1>4. ASSUME NEW k \in Arguments
      PROVE  /\ IsRequest(<<c, k>>)
             /\ \A ks \in KeyLists : IsRequest(<<c, k>> \o ks)
  <2>1. <<c, k>> \in Seq(Arguments) /\ <<c, k>> # <<>> /\ <<c, k>>[1] = c
    BY <1>1, Beginnings
  <2>2. PICK p : p = <<c, k>>
    OBVIOUS
  <2>3. IsRequest(p) /\ \A ks \in KeyLists : IsRequest(p \o ks)
    BY <1>1, <1>2, <2>1, <2>2, TextsAfter, Beginnings
  <2> QED
    BY <2>2, <2>3
<1>5. ASSUME NEW k \in Arguments, NEW f \in Arguments PROVE IsRequest(<<c, k, f>>)
  <2>1. <<c, k, f>> \in Seq(Arguments) /\ <<c, k, f>> # <<>> /\ <<c, k, f>>[1] = c
    BY <1>1, Beginnings
  <2> QED
    BY <1>1, <2>1, TextsAfter, Beginnings
<1>6. ASSUME NEW k \in Arguments, NEW f \in Arguments, NEW v \in Arguments
      PROVE  IsRequest(<<c, k, f, v>>)
  <2>1. /\ <<c, k, f, v>> \in Seq(Arguments)
        /\ <<c, k, f, v>> # <<>> /\ <<c, k, f, v>>[1] = c
    BY <1>1, Beginnings
  <2> QED
    BY <1>1, <2>1, TextsAfter, Beginnings
<1> QED
  BY <1>3, <1>4, <1>5, <1>6

LEMMA SomeArguments ==
    {"k", "f", "v", "body", "sha", "LOAD", "EXISTS"} \subseteq Arguments
BY DEF Arguments

\* A command on the key k, with what its caller lists behind it or not, and one on
\* the listed keys.
LEMMA KeyCall ==
    ASSUME CommandInv, NEW c \in TextCommands, NEW kind \in GoTypes, Call(<<c, "k">>, kind)
    PROVE  CommandInv'
<1>1. IsRequest(<<c, "k">>)
  BY SomeArguments, TextRequests
<1> QED
  BY <1>1, CallInv

LEMMA KeyAndListCall ==
    ASSUME CommandInv, NEW c \in TextCommands, NEW kind \in GoTypes, NEW ks \in KeyLists,
           Call(<<c, "k">> \o ks, kind)
    PROVE  CommandInv'
<1>1. IsRequest(<<c, "k">> \o ks)
  BY SomeArguments, TextRequests
<1> QED
  BY <1>1, CallInv

LEMMA ListCall ==
    ASSUME CommandInv, NEW c \in TextCommands, NEW kind \in GoTypes, NEW ks \in KeyLists,
           Call(<<c>> \o ks, kind)
    PROVE  CommandInv'
<1>1. IsRequest(<<c>> \o ks)
  BY TextRequests
<1> QED
  BY <1>1, CallInv

LEMMA StringCommandInv ==
    ASSUME CommandInv, StringCommand
    PROVE  CommandInv'
<1>1. CASE \E d \in Durations : Set(d) \/ Expire(d)
  BY <1>1, SetInv, ExpireInv
<1>2. CASE Get \/ Incr \/ TTL
  BY <1>2, KeyCall DEF Get, Incr, TTL, GoTypes, TextCommands
<1>3. CASE \E ks \in KeyLists : Del(ks) \/ Exists(ks)
  BY <1>3, ListCall DEF Del, Exists, GoTypes, TextCommands
<1>4. CASE \E n \in {MinInt64, MaxInt64} : IncrBy(n)
  <2>1. PICK n \in {MinInt64, MaxInt64} : IncrBy(n)
    BY <1>4
  <2>2. n \in Int
    BY LimitsAssumption DEF MinInt64
  <2>3. IsRequest(<<"INCRBY", "k", n>>)
    BY <2>2 DEF IsRequest, NumbersAt, Arguments
  <2> QED
    BY <2>1, <2>3, CallInv DEF IncrBy, GoTypes
<1> QED
  BY <1>1, <1>2, <1>3, <1>4 DEF StringCommand

LEMMA CollectionCommandInv ==
    ASSUME CommandInv, CollectionCommand
    PROVE  CommandInv'
<1>1. CASE HSet \/ HGet \/ HGetAll \/ HExists
  <2>1. /\ IsRequest(<<"HSET", "k", "f", "v">>) /\ IsRequest(<<"HGET", "k", "f">>)
        /\ IsRequest(<<"HGETALL", "k">>) /\ IsRequest(<<"HEXISTS", "k", "f">>)
    <3>1. {"HSET", "HGET", "HGETALL", "HEXISTS"} \subseteq TextCommands
      BY DEF TextCommands
    <3> QED
      BY <3>1, SomeArguments, TextRequests
  <2> QED
    BY <1>1, <2>1, CallInv DEF HSet, HGet, HGetAll, HExists, GoTypes
<1>2. CASE LPop \/ RPop \/ LLen
  BY <1>2, KeyCall DEF LPop, RPop, LLen, GoTypes, TextCommands
<1>3. CASE SMembers \/ SCard
  BY <1>3, KeyCall DEF SMembers, SCard, GoTypes, TextCommands
<1>6. CASE SIsMember
  <2>1. "SISMEMBER" \in TextCommands /\ "bool" \in GoTypes
    BY DEF TextCommands, GoTypes
  <2>2. IsRequest(<<"SISMEMBER", "k", "v">>)
    BY <2>1, SomeArguments, TextRequests
  <2> QED
    BY <1>6, <2>1, <2>2, CallInv DEF SIsMember
<1>4. CASE LRange(-1)
  <2>1. IsRequest(<<"LRANGE", "k", 0, -1>>)
    BY DEF IsRequest, NumbersAt, Arguments
  <2> QED
    BY <1>4, <2>1, CallInv DEF LRange, GoTypes
<1>5. CASE \E vs \in KeyLists : HDel(vs) \/ LPush(vs) \/ RPush(vs) \/ SAdd(vs) \/ SRem(vs)
  <2>1. PICK vs \in KeyLists : HDel(vs) \/ LPush(vs) \/ RPush(vs) \/ SAdd(vs) \/ SRem(vs)
    BY <1>5
  <2> QED
    BY <2>1, KeyAndListCall DEF HDel, LPush, RPush, SAdd, SRem, GoTypes, TextCommands
<1> QED
  BY <1>1, <1>2, <1>3, <1>4, <1>5, <1>6 DEF CollectionCommand

LEMMA ServerCommandInv ==
    ASSUME CommandInv, ServerCommand
    PROVE  CommandInv'
<1>1. CASE Ping \/ FlushAll \/ ScriptLoad \/ ScriptExists
  <2>1. /\ IsRequest(<<"PING">>) /\ IsRequest(<<"FLUSHALL">>)
        /\ IsRequest(<<"SCRIPT", "LOAD", "body">>) /\ IsRequest(<<"SCRIPT", "EXISTS", "sha">>)
    <3>1. {"PING", "FLUSHALL", "SCRIPT"} \subseteq TextCommands
      BY DEF TextCommands
    <3> QED
      BY <3>1, SomeArguments, TextRequests
  <2> QED
    BY <1>1, <2>1, CallInv DEF Ping, FlushAll, ScriptLoad, ScriptExists, GoTypes
<1>2. CASE \E ks \in KeyLists : Eval(ks) \/ EvalSha(ks)
  <2>1. PICK ks \in KeyLists : Eval(ks) \/ EvalSha(ks)
    BY <1>2
  <2>2. ks \in Seq(Arguments)
    BY KeysTyped
  <2>3. /\ IsRequest(<<"EVAL", "body", Len(ks)>> \o ks)
        /\ IsRequest(<<"EVALSHA", "sha", Len(ks)>> \o ks)
    <3>1. "body" \in Arguments /\ "sha" \in Arguments
      BY DEF Arguments
    <3> QED
      BY <2>2, <3>1, KeysAfter
  <2> QED
    BY <2>1, <2>3, CallInv DEF Eval, EvalSha, GoTypes
<1> QED
  BY <1>1, <1>2 DEF ServerCommand

LEMMA UnsupportedInv ==
    ASSUME CommandInv, Unsupported
    PROVE  CommandInv'
<1>1. /\ stage = "idle" /\ stage' = "done" /\ outcome' = Failed
      /\ asked' = <<"EVAL", "unsupported">>
      /\ UNCHANGED <<wire, frames, reply, sent, whole, ttl, as>> /\ UNCHANGED readerVars
  BY DEF Unsupported, respVars
<1>4. IsRequest(<<"EVAL", "unsupported">>)
  BY DEF IsRequest, NumbersAt, Arguments
<1>5. IsRequest(asked)'
  BY <1>1, <1>4 DEF IsRequest
<1>2. Fresh' /\ as' = "none"
  BY <1>1 DEF CommandInv, Fresh
<1>3. CursorInv'
  BY <1>1, CursorUnchanged DEF CommandInv
<1> QED
  BY <1>1, <1>2, <1>3, <1>5 DEF CommandInv, TtlKept

\* A step of ReadReply takes replies off the wire or puts the elements of one there.
LEMMA WireTyped ==
    ASSUME Reading, ReadReply \/ Lost, Reading' \/ Returned'
    PROVE  wire' \in Seq(Replies)
<1>1. wire \in Seq(Replies)
  BY DEF Reading, Waiting
<1>2. CASE Reading'
  BY <1>2 DEF Reading, Waiting
<1>3. CASE Returned'
  <2>1. reply' # Pending
    <3>1. sent' \in Replies /\ reply' \in {Meaning[sent'], Broken}
      BY <1>3 DEF Returned
    <3>2. Meaning[sent'] \in Values
      BY <3>1 DEF Values
    <3>3. Meaning[sent'][1] # "pending"
      BY <3>2, ValueTypes
    <3> QED
      BY <3>1, <3>3 DEF Pending, Broken
  <2>2. reply = Pending
    BY DEF Reading
  <2>3. wire' = wire \/ (wire # <<>> /\ wire' = Tail(wire))
    BY <2>1, <2>2 DEF ReadReply, ReadText, ReadInt, ReadNull, ReadBulk, ReadArray,
       ReturnArray, ReadFails, Lost, Expecting
  <2> QED
    BY <1>1, <2>3, HeadTailProperties
<1> QED
  BY <1>2, <1>3

LEMMA ReadReplyInv ==
    ASSUME CommandInv, stage = "call", ReadReply \/ Lost, UNCHANGED <<callVars, readerVars>>
    PROVE  CommandInv'
<1>1. reply = Pending
  BY DEF ReadReply, ReadText, ReadInt, ReadNull, ReadBulk, ReadArray, ReturnArray, ReadFails,
         Lost, Expecting
<1>2. Reading
  BY <1>1, ReturnedTypes DEF CommandInv
<1>3. Reading' \/ Returned'
  BY <1>2, ReadReplyStep
<1>4. UNCHANGED <<stage, asked, ttl, as, outcome>>
  BY DEF callVars
<1>5. CursorInv'
  BY CursorUnchanged DEF CommandInv
<1>6. TtlKept'
  BY <1>4 DEF CommandInv, TtlKept
<1>7. wire' \in Seq(Replies)
  BY <1>2, <1>3, WireTyped
<1>8. IsRequest(asked)'
  BY <1>4 DEF CommandInv, IsRequest
<1> QED
  BY <1>3, <1>4, <1>5, <1>6, <1>7, <1>8 DEF CommandInv

LEMMA AnsweredInv ==
    ASSUME CommandInv, Answered
    PROVE  CommandInv'
<1>1. /\ stage = "call" /\ reply # Pending /\ outcome' = Decoded(as, reply) /\ stage' = "done"
      /\ UNCHANGED <<wire, frames, reply, sent, whole, ttl, as, asked>> /\ UNCHANGED readerVars
  BY DEF Answered, respVars
<1>6. IsRequest(asked)'
  BY <1>1 DEF CommandInv, IsRequest
<1>2. Returned
  BY <1>1 DEF CommandInv, Reading
<1>3. Returned'
  BY <1>1, <1>2 DEF Returned
<1>4. outcome' = Decoded(as', reply')
  BY <1>1
<1>5. CursorInv'
  BY <1>1, CursorUnchanged DEF CommandInv
<1> QED
  BY <1>1, <1>3, <1>4, <1>5, <1>6 DEF CommandInv, TtlKept

\* A connection that is given back has nothing left in it.
LEMMA NothingBehind ==
    ASSUME CommandInv, stage \in {"done", "scan"}
    PROVE  frames = <<>> /\ (~Closed => wire = <<>>)
BY ReturnedTypes DEF CommandInv, Fresh, Closed

LEMMA ForgetInv ==
    ASSUME CommandInv, Forget
    PROVE  CommandInv'
<1>1. /\ stage \in {"done", "scan"} /\ stage' = "idle"
      /\ wire' = IF Closed THEN <<>> ELSE wire
      /\ reply' = Pending /\ sent' = Nil /\ whole' = TRUE /\ frames' = frames
      /\ ttl' = 0 /\ as' = "none" /\ Cursor!Open(<<>>)
      /\ asked' = <<>> /\ outcome' = Nil
  BY DEF Forget
<1>5. IsRequest(asked)' /\ wire' \in Seq(Replies)
  BY <1>1, NoRequest, NoReplies DEF CommandInv, IsRequest
<1>2. Fresh'
  BY <1>1, NothingBehind DEF Fresh
<1>3. CursorInv'
  <2>1. <<>> \in Seq(Values)
    OBVIOUS
  <2> QED
    BY <1>1, <2>1, CursorOpens
<1>4. 0 \in MinInt64..MaxInt64
  BY LimitsAssumption DEF MinInt64
<1> QED
  BY <1>1, <1>2, <1>3, <1>4, <1>5 DEF CommandInv, TtlKept

LEMMA ScanInv ==
    ASSUME CommandInv, Scan
    PROVE  CommandInv'
<1>1. /\ stage = "done" /\ stage' = "scan" /\ as = "any" /\ outcome[1] = "slice"
      /\ Cursor!Open(outcome[2])
      /\ reply' = Pending /\ sent' = Nil /\ UNCHANGED <<wire, frames, whole, ttl, as>>
      /\ asked' = <<>> /\ outcome' = Nil
  BY DEF Scan
<1>6. IsRequest(asked)'
  BY <1>1, NoRequest DEF IsRequest
<1>2. Returned /\ outcome = Decoded("any", reply)
  BY <1>1 DEF CommandInv
<1>3. outcome = reply /\ reply # Broken
  BY <1>1, <1>2 DEF Decoded, Failed, Broken
<1>4. Fresh'
  BY <1>1, <1>2, <1>3, ReturnedTypes DEF Fresh
<1>5. CursorInv'
  <2>1. reply \in Values
    BY <1>2, <1>3, ReturnedTypes
  <2>2. outcome[2] \in Seq(Values)
    BY <1>1, <1>3, <2>1, ValueTypes
  <2> QED
    BY <1>1, <2>2, CursorOpens
<1> QED
  BY <1>1, <1>4, <1>5, <1>6 DEF CommandInv, TtlKept

LEMMA ReadInv ==
    ASSUME CommandInv, Read
    PROVE  CommandInv'
<1>1. /\ stage = "scan" /\ Cursor!UseReader
      /\ UNCHANGED <<wire, frames, reply, sent, whole, stage, asked, ttl, as, outcome>>
  BY DEF Read, respVars, callVars
<1>2. CursorInv'
  BY <1>1, CursorStep DEF CommandInv
<1>3. Fresh'
  BY <1>1 DEF CommandInv, Fresh
<1>4. IsRequest(asked)'
  BY <1>1 DEF CommandInv, IsRequest
<1> QED
  BY <1>1, <1>2, <1>3, <1>4 DEF CommandInv, TtlKept

LEMMA StutterInv ==
    ASSUME CommandInv, UNCHANGED vars
    PROVE  CommandInv'
<1>1. /\ UNCHANGED <<wire, frames, reply, sent, whole, stage, asked, ttl, as, outcome>>
      /\ UNCHANGED readerVars
  BY DEF vars, respVars, callVars
<1>2. CursorInv'
  BY <1>1, CursorUnchanged DEF CommandInv
<1>3. (Reading => Reading') /\ (Returned => Returned') /\ (Fresh => Fresh')
  BY <1>1 DEF Reading, Returned, Fresh
<1>4. TtlKept'
  BY <1>1 DEF CommandInv, TtlKept
<1>5. IsRequest(asked)'
  BY <1>1 DEF CommandInv, IsRequest
<1> QED
  BY <1>1, <1>2, <1>3, <1>4, <1>5 DEF CommandInv

\* It holds of every reachable state.
LEMMA Invariant == Spec => []CommandInv
<1>1. ASSUME CommandInv, [Next]_vars PROVE CommandInv'
  <2>1. CASE StringCommand \/ CollectionCommand \/ ServerCommand
    BY <1>1, <2>1, StringCommandInv, CollectionCommandInv, ServerCommandInv
  <2>2. CASE Unsupported
    BY <1>1, <2>2, UnsupportedInv
  <2>3. CASE stage = "call" /\ (ReadReply \/ Lost) /\ UNCHANGED <<callVars, readerVars>>
    BY <1>1, <2>3, ReadReplyInv
  <2>4. CASE Answered
    BY <1>1, <2>4, AnsweredInv
  <2>5. CASE Forget
    BY <1>1, <2>5, ForgetInv
  <2>6. CASE Scan
    BY <1>1, <2>6, ScanInv
  <2>7. CASE Read
    BY <1>1, <2>7, ReadInv
  <2>8. CASE UNCHANGED vars
    BY <1>1, <2>8, StutterInv
  <2> QED
    BY <1>1, <2>1, <2>2, <2>3, <2>4, <2>5, <2>6, <2>7, <2>8 DEF Next
<1> QED
  BY InitInv, <1>1, PTL DEF Spec

-----------------------------------------------------------------------------
(* The theorems.                                                            *)

LEMMA CursorTyped ==
    ASSUME CommandInv
    PROVE  /\ items \in Seq(Values) /\ position \in 0..Len(items)
           /\ running \in Seq(0..Len(items)) /\ delivered \in Seq(Nat \X Values)
<1>1. /\ items \in Seq(Values) /\ position \in 0..Len(items)
      /\ running \in Seq(0..Len(items))
      /\ delivered = [i \in 1..position |-> <<i, items[i]>>]
  BY DEF CommandInv, CursorInv
<1>2. Len(items) \in Nat /\ \A i \in 1..Len(items) : items[i] \in Values
  BY <1>1, LenProperties, ElementOfSeq
<1>3. position \in Nat
  BY <1>1, <1>2
<1>4. \A i \in 1..position : <<i, items[i]>> \in Nat \X Values
  BY <1>1, <1>2, <1>3
<1>5. PICK S : S = Nat \X Values
  OBVIOUS
<1>6. delivered \in [1..position -> S]
  BY <1>1, <1>4, <1>5
<1>7. delivered \in Seq(S)
  BY <1>3, <1>6, SeqDef
<1> QED
  BY <1>1, <1>5, <1>7

\* What a command makes of a text is the text, of anything else the empty one.
LEMMA TextTyped ==
    /\ \A v \in Values : TextOf(v) \in Texts
    /\ Cursor!NoText \in Texts
    /\ \A v \in Values : v[1] = "string" => v[2] \in Texts
BY DEF TextOf, Texts

LEMMA ElementsTyped ==
    ASSUME NEW v \in Values, v[1] = "slice"
    PROVE  Len(v[2]) \in Nat /\ \A i \in 1..Len(v[2]) : v[2][i] \in Values
BY ValueTypes, LenProperties, ElementOfSeq

LEMMA ListTyped ==
    ASSUME NEW v \in Values, v[1] = "slice"
    PROVE  ListReply(v) \in {"list"} \X Seq(Texts)
<1>1. PICK n \in Nat : n = Len(v[2])
  BY ElementsTyped
<1>2. PICK s : s = [i \in 1..n |-> TextOf(v[2][i])]
  OBVIOUS
<1>3. s \in [1..n -> Texts]
  BY <1>1, <1>2, ElementsTyped, TextTyped
<1>4. s \in Seq(Texts)
  BY <1>3, SeqDef
<1>5. ListReply(v) = <<"list", s>>
  BY <1>1, <1>2 DEF ListReply
<1> QED
  BY <1>4, <1>5

LEMMA MapTyped ==
    ASSUME NEW v \in Values
    PROVE  MapReply(v) = Failed \/ IsResult("map", MapReply(v))
<1>1. CASE v[1] # "slice" \/ Len(v[2]) % 2 # 0
  BY <1>1 DEF MapReply
<1>2. CASE v[1] = "slice" /\ Len(v[2]) % 2 = 0
  <2>1. PICK n \in Nat : n = Len(v[2])
    BY <1>2, ElementsTyped
  <2>2. PICK k \in Nat : k = n \div 2 /\ 2 * k = n
    <3>1. n % 2 = 0
      BY <1>2, <2>1
    <3>2. n \div 2 \in Nat /\ 2 * (n \div 2) = n
      BY <3>1
    <3> QED
      BY <3>2
  <2>3. PICK m : Merges(m, v[2], k) /\ MapReply(v) = <<"map", m[k]>>
    BY <1>2, <2>1, <2>2, MapReplyMerges
  <2>4. PICK q : q = m[k]
    OBVIOUS
  <2>5. LastValues(q, v[2], k)
    BY <2>3, <2>4, MergedValues
  <2>6. ASSUME NEW i \in 1..k PROVE Field(v[2], i) \in Texts /\ Value(v[2], i) \in Texts
    <3>1. 2 * i - 1 \in 1..n /\ 2 * i \in 1..n
      BY <2>2
    <3>2. v[2][2 * i - 1] \in Values /\ v[2][2 * i] \in Values
      BY <1>2, <2>1, <3>1, ElementsTyped
    <3> QED
      BY <3>2, TextTyped DEF Field, Value
  <2>7. DOMAIN q \subseteq Texts /\ \A f \in DOMAIN q : q[f] \in Texts
    BY <2>5, <2>6 DEF LastValues
  <2>8. IsResult("map", <<"map", q>>)
    BY <2>7 DEF IsResult
  <2> QED
    BY <2>3, <2>4, <2>8
<1> QED
  BY <1>1, <1>2

\* A command returns the Go type it declares, or an error.
LEMMA DecodedTyped ==
    ASSUME Returned, NEW kind \in GoTypes
    PROVE  Decoded(kind, reply) = Failed \/ IsResult(kind, Decoded(kind, reply))
<1>1. PICK v \in Values \cup {Broken} :
        v = reply /\ v[1] \in {"string", "RedisError", "int64", "slice", "nil", "broken"}
  BY ReturnedTypes
<1>2. CASE v[1] \in {"RedisError", "broken"}
  BY <1>1, <1>2 DEF Decoded
<1>3. CASE v[1] \in {"string", "int64", "slice", "nil"}
  <2>1. v \in Values
    BY <1>3 DEF Broken
  <2>2. ASSUME NEW b \in BOOLEAN, NEW k \in {"bool", "exists"}
        PROVE  IsResult(k, <<"bool", b>>)
    BY <2>2 DEF IsResult
  <2>3. CASE kind = "int"
    BY <1>1, <1>3, <2>1, <2>3 DEF Decoded, IntReply, IsResult
  <2>4. CASE kind = "bool"
    <3>1. PICK b \in BOOLEAN : b <=> (v[2] = 1)
      OBVIOUS
    <3>2. Decoded(kind, v) = Failed \/ Decoded(kind, v) = <<"bool", v[2] = 1>>
      BY <1>3, <2>4 DEF Decoded, BoolReply
    <3>3. (v[2] = 1) \in BOOLEAN
      OBVIOUS
    <3> QED
      BY <1>1, <2>2, <2>4, <3>2, <3>3, Zenon
  <2>5. CASE kind \in {"text", "sha"}
    <3>1. v[1] = "string" => v \in {"string"} \X Texts
      BY <2>1, ValueTypes, TextTyped
    <3>2. Decoded(kind, v) \in {Failed, v, <<"string", Cursor!NoText>>}
      BY <1>3, <2>5 DEF Decoded, TextReply, ShaReply
    <3>3. Decoded(kind, v) = v => v[1] = "string" \/ v = Failed
      BY <1>3, <2>5 DEF Decoded, TextReply, ShaReply, Failed, Nil
    <3>4. <<"string", Cursor!NoText>> \in {"string"} \X Texts
      BY TextTyped
    <3> QED
      BY <1>1, <2>5, <3>1, <3>2, <3>3, <3>4 DEF IsResult
  <2>6. CASE kind = "list"
    <3>1. v[1] = "slice" => ListReply(v) \in {"list"} \X Seq(Texts)
      BY <2>1, ListTyped
    <3>2. Decoded(kind, v) = ListReply(v)
      BY <1>3, <2>6 DEF Decoded
    <3>3. v[1] # "slice" => ListReply(v) = Failed
      BY DEF ListReply
    <3> QED
      BY <1>1, <2>6, <3>1, <3>2, <3>3 DEF IsResult
  <2>7. CASE kind = "map"
    <3>1. Decoded(kind, v) = MapReply(v)
      BY <1>3, <2>7 DEF Decoded
    <3> QED
      BY <1>1, <2>1, <2>7, <3>1, MapTyped
  <2>8. CASE kind = "exists"
    <3>1. \/ Decoded(kind, v) = Failed
          \/ Decoded(kind, v) = <<"bool", v[2][1][2] = 1>>
      BY <1>3, <2>8 DEF Decoded, ExistsReply
    <3>2. (v[2][1][2] = 1) \in BOOLEAN
      OBVIOUS
    <3> QED
      BY <1>1, <2>2, <2>8, <3>1, <3>2, Zenon
  <2>9. CASE kind = "ok"
    BY <1>1, <1>3, <2>9 DEF Decoded, IsResult
  <2>10. CASE kind = "any"
    BY <1>1, <1>3, <2>1, <2>10 DEF Decoded, IsResult
  <2> QED
    BY <2>3, <2>4, <2>5, <2>6, <2>7, <2>8, <2>9, <2>10 DEF GoTypes
<1> QED
  BY <1>1, <1>2, <1>3

LEMMA RoundedTyped ==
    ASSUME NEW r, NEW lo \in Int, NEW hi \in Int, lo <= 0, 0 <= hi,
           NEW x \in Cursor!FloatToInt(r, lo, hi)
    PROVE  x \in lo..hi
BY DEF Cursor!FloatToInt

LEMMA FloatTyped ==
    ASSUME NEW n \in Int, -MaxInt64 <= n, n <= MaxInt64
    PROVE  Float[2 * n] \in Int
<1>1. 2 * n \in (2 * MinInt64)..(2 * MaxInt64)
  BY Ranges DEF MinInt64
<1>2. 2 * n \in DOMAIN Float
  BY <1>1, FloatAssumption
<1> QED
  BY <1>2, FloatAssumption

\* A conversion returns what it has in its name.
LEMMA ConvertedTyped ==
    ASSUME NEW kind \in Kinds, NEW v \in Values \cup {Nil},
           NEW x \in Cursor!Converted(kind, v)
    PROVE  IsConverted(kind, x)
<1>1. /\ v[1] = "string" /\ v[2][1] \in {"num", "point"} => v[2][2] \in DOMAIN Float
      /\ v[1] = "int64" => v[2] \in Int /\ -MaxInt64 <= v[2] /\ v[2] <= MaxInt64
      /\ v[1] = "string" => v[2] \in Texts
  BY ValueTypes, TextTyped, Ranges DEF Nil
<1>2. /\ Default \in Int /\ Cursor!MinInt32 <= Default /\ Default <= MaxInt32
      /\ MinInt64 <= Default /\ Default <= MaxInt64
      /\ Cursor!MinInt64 = MinInt64 /\ MinInt64 \in Int
  BY WidthsAssumption, Ranges DEF MinInt64
<1>3. CASE kind = "int32"
  <2>1. ASSUME NEW t, x \in Cursor!TextAsInt32(t) PROVE x \in Cursor!MinInt32..MaxInt32
    <3>1. PICK r : r = Cursor!ParseFloat(t)
      OBVIOUS
    <3>2. \/ x \in {t[2] \div 2} /\ Cursor!IsInt(t, Cursor!MinInt32, MaxInt32)
          \/ x \in {MaxInt32} \/ x \in {Cursor!MinInt32}
          \/ x \in Cursor!FloatToInt(r, Cursor!MinInt32, MaxInt32)
      BY <2>1, <3>1 DEF Cursor!TextAsInt32
    <3>3. x \in Cursor!FloatToInt(r, Cursor!MinInt32, MaxInt32) => x \in Cursor!MinInt32..MaxInt32
      BY Ranges, RoundedTyped
    <3> QED
      BY <3>2, <3>3, Ranges DEF Cursor!IsInt
  <2>2. \/ x = Default
        \/ v[1] = "int64" /\ x = Cursor!Narrow(v[2])
        \/ x \in Cursor!TextAsInt32(v[2])
    BY <1>3 DEF Cursor!Converted, Cursor!AsInt32
  <2>3. v[1] = "int64" => Cursor!Narrow(v[2]) \in Cursor!MinInt32..MaxInt32
    <3>1. ASSUME NEW a \in Int, NEW m \in Nat \ {0} PROVE a % m \in 0..(m - 1)
      OBVIOUS
    <3>2. PICK m \in Nat \ {0} : m = MaxInt32 - Cursor!MinInt32 + 1
      BY Ranges
    <3>3. ASSUME v[1] = "int64" PROVE (v[2] - Cursor!MinInt32) % m \in 0..(m - 1)
      <4>1. v[2] - Cursor!MinInt32 \in Int
        BY <1>1, <3>3, Ranges
      <4> QED
        BY <3>1, <4>1
    <3>4. MaxInt32 - Cursor!MinInt32 + 1 = m /\ m \in Int
      BY <3>2
    <3>5. ASSUME NEW y \in 0..(m - 1)
          PROVE  y + Cursor!MinInt32 \in Cursor!MinInt32..MaxInt32
      BY <3>4, Ranges
    <3> QED
      BY <3>3, <3>4, <3>5 DEF Cursor!Narrow
  <2>4. x \in Cursor!MinInt32..MaxInt32
    BY <1>2, <2>1, <2>2, <2>3, Ranges
  <2> QED
    BY <1>3, <2>4 DEF IsConverted
<1>4. CASE kind = "int64"
  <2>1. ASSUME NEW t, x \in Cursor!TextAsInt64(t) PROVE x \in MinInt64..MaxInt64
    <3>1. PICK r : r = Cursor!ParseFloat(t)
      OBVIOUS
    <3>2. \/ x \in {t[2] \div 2} /\ Cursor!IsInt(t, MinInt64, MaxInt64)
          \/ x \in Cursor!FloatToInt(r, MinInt64, MaxInt64)
      BY <1>2, <2>1, <3>1 DEF Cursor!TextAsInt64
    <3>3. x \in Cursor!FloatToInt(r, MinInt64, MaxInt64) => x \in MinInt64..MaxInt64
      BY <1>2, Ranges, RoundedTyped
    <3> QED
      BY <3>2, <3>3, Ranges DEF Cursor!IsInt
  <2>2. \/ x = Default
        \/ v[1] = "int64" /\ x = v[2]
        \/ x \in Cursor!TextAsInt64(v[2])
    BY <1>4 DEF Cursor!Converted, Cursor!AsInt64
  <2>3. x \in MinInt64..MaxInt64
    BY <1>1, <1>2, <2>1, <2>2, Ranges
  <2> QED
    BY <1>4, <2>3 DEF IsConverted
<1>5. CASE kind = "float64"
  <2>1. \/ x = <<"float", 2 * Default>>
        \/ v[1] = "int64" /\ x = <<"float", Float[2 * v[2]]>>
        \/ v[1] = "string" /\ Cursor!IsNumber(v[2]) /\ x = Cursor!ParseFloat(v[2])
    BY <1>5 DEF Cursor!Converted, Cursor!AsFloat64
  <2>2. v[1] = "int64" => Float[2 * v[2]] \in Int
    BY <1>1, FloatTyped
  <2>3. ASSUME v[1] = "string", Cursor!IsNumber(v[2]), x = Cursor!ParseFloat(v[2])
        PROVE  x[1] = "nan" \/ (x[1] = "float" /\ x[2] \in Int)
    <3>1. PICK t : t = v[2]
      OBVIOUS
    <3>2. CASE t[1] = "nan"
      BY <2>3, <3>1, <3>2 DEF Cursor!ParseFloat
    <3>3. CASE t[1] \in {"num", "point"}
      BY <1>1, <2>3, <3>1, <3>3, Parsed
    <3> QED
      BY <2>3, <3>1, <3>2, <3>3 DEF Cursor!IsNumber
  <2>4. x[1] = "nan" \/ (x[1] = "float" /\ x[2] \in Int)
    BY <1>2, <2>1, <2>2, <2>3
  <2> QED
    BY <1>5, <2>4 DEF IsConverted
<1>6. CASE kind = "string"
  <2>1. \/ v[1] = "string" /\ x = v[2]
        \/ v[1] = "int64" /\ x = <<"num", 2 * v[2]>>
        \/ x = Cursor!NoText
    BY <1>6 DEF Cursor!Converted, Cursor!AsString
  <2>2. x \in Texts \/ (x[1] = "num" /\ x[2] \in Int)
    BY <1>1, <2>1, TextTyped
  <2> QED
    BY <1>6, <2>2 DEF IsConverted
<1> QED
  BY <1>3, <1>4, <1>5, <1>6 DEF Kinds

LEMMA GotTyped ==
    ASSUME CommandInv
    PROVE  \/ got = Cursor!NothingYet
           \/ got[2] \in Values \cup {Nil} /\ IsConverted(got[1], got[3])
<1>1. CASE WasConverted(got)
  <2>1. PICK kind \in Kinds, v \in Values \cup {Nil} :
          \E x \in Cursor!Converted(kind, v) : got = <<kind, v, x>>
    BY <1>1 DEF WasConverted
  <2>2. PICK x \in Cursor!Converted(kind, v) : got = <<kind, v, x>>
    BY <2>1
  <2>3. got[1] = kind /\ got[2] = v /\ got[3] = x
    BY <2>2
  <2> QED
    BY <2>3, ConvertedTyped
<1> QED
  BY <1>1 DEF CommandInv, CursorInv

\* No array under construction has more elements than it was announced with.
LEMMA ArraysNotOverfull ==
    ASSUME Reading
    PROVE  \A i \in 1..Len(frames) : Len(frames[i][2]) <= frames[i][1]
<1>1. CASE frames = <<>>
  BY <1>1
<1>2. CASE frames # <<>>
  <2>1. PICK t, due : Building(frames, t, due, sent)
    BY <1>2 DEF Reading, Waiting
  <2>2. ASSUME NEW i \in 1..Len(frames) PROVE Len(frames[i][2]) <= frames[i][1]
    <3>1. /\ Len(frames[i][2]) \in Nat /\ Len(t[i][2]) \in Nat
          /\ Frame(frames, t, due, sent, i)
      BY <2>1, FrameTypes DEF Building
    <3>2. Len(frames[i][2]) <= Len(t[i][2])
      <4>1. CASE i < Len(frames)
        BY <3>1, <4>1 DEF Frame
      <4>2. CASE ~(i < Len(frames))
        BY <3>1, <4>2 DEF Frame
      <4> QED
        BY <4>1, <4>2
    <3> QED
      BY <3>1, <3>2 DEF Frame
  <2> QED
    BY <2>2
<1> QED
  BY <1>1, <1>2

\* What ReadReply has built and returned.
LEMMA ReaderTyped ==
    ASSUME CommandInv
    PROVE  /\ frames \in Seq(Nat \X Seq(Values))
           /\ \A i \in 1..Len(frames) : Len(frames[i][2]) <= frames[i][1]
           /\ reply \in Values \cup {Pending, Broken}
           /\ sent \in Replies \cup {Nil} /\ whole \in BOOLEAN
<1>1. CASE Fresh
  BY <1>1 DEF Fresh
<1>2. CASE Reading
  <2>1. sent \in Replies /\ whole \in BOOLEAN /\ reply = Pending
    BY <1>2 DEF Reading, Waiting
  <2>2. frames \in Seq(Nat \X Seq(Values))
    <3>1. CASE frames = <<>>
      BY <3>1
    <3>2. CASE frames # <<>>
      <4>1. PICK t, due : Building(frames, t, due, sent)
        BY <1>2, <3>2 DEF Reading, Waiting
      <4> QED
        BY <4>1 DEF Building
    <3> QED
      BY <3>1, <3>2
  <2> QED
    BY <1>2, <2>1, <2>2, ArraysNotOverfull
<1>3. CASE Returned
  <2>1. frames = <<>> /\ sent \in Replies /\ whole \in BOOLEAN
    BY <1>3 DEF Returned
  <2>2. reply \in Values \cup {Broken}
    BY <1>3, ReturnedTypes
  <2> QED
    BY <2>1, <2>2
<1> QED
  BY <1>1, <1>2, <1>3 DEF CommandInv

\* Every variable has its type: an EVAL sends a number where the number of keys
\* belongs, a call returns the Go type its command declares or an error (Answered), a
\* conversion the type in its name, ReadReply puts no more elements into an array than
\* its header announced at any level of nesting, and the reader of reply.go stands at
\* an index of its array, also below running callbacks.
THEOREM CommandsTyped == Spec => []TypeOK
<1>1. ASSUME CommandInv PROVE TypeOK
  <2>1. /\ wire \in Seq(Replies) /\ stage \in {"idle", "call", "done", "scan"}
        /\ IsRequest(asked) /\ ttl \in MinInt64..MaxInt64 /\ as \in GoTypes \cup {"none"}
        /\ stage # "done" => outcome = Nil
    BY <1>1 DEF CommandInv
  <2>2. ASSUME stage = "done" PROVE outcome = Failed \/ IsResult(as, outcome)
    <3>1. \/ outcome = Failed
          \/ Returned /\ as \in GoTypes /\ outcome = Decoded(as, reply)
      BY <1>1, <2>2 DEF CommandInv
    <3> QED
      BY <3>1, DecodedTyped
  <2> QED
    BY <1>1, <2>1, <2>2, ReaderTyped, CursorTyped, GotTyped DEF TypeOK, GoTypes
<1> QED
  BY Invariant, <1>1, PTL

\* ReadReply returns what the server sent, for every reply of any size and nesting
\* with errors, nulls and empty arrays in any place, and an error exactly when the
\* reply is beyond the client's limits or did not arrive whole.
THEOREM RepliesDecoded == Spec => []DecodesWhatWasSent
<1>1. ASSUME CommandInv PROVE DecodesWhatWasSent
  BY <1>1 DEF CommandInv, DecodesWhatWasSent, Fresh, Reading, Returned
<1> QED
  BY Invariant, <1>1, PTL

\* A connection goes back to the pool only between two replies: however deep the
\* reply was and wherever it broke off, the next command finds nothing of it.
THEOREM ConnectionsPooledAtBoundary == Spec => []PooledAtBoundary
<1>1. ASSUME CommandInv PROVE PooledAtBoundary
  BY <1>1, NothingBehind DEF CommandInv, Fresh, PooledAtBoundary
<1> QED
  BY Invariant, <1>1, PTL

\* The time EXPIRE or SET sends is the caller's, up to the rounding of its unit, for
\* every Duration but those within a second of the largest: there the sum of Expire
\* overflows and a negative number is sent.
THEOREM TtlsKept == Spec => []TtlKept
<1>1. CommandInv => TtlKept
  BY DEF CommandInv
<1> QED
  BY Invariant, <1>1, PTL

\* The reader of reply.go delivers the items of an array in their order, none
\* twice and none passed over, for arrays of any length and callbacks that use the
\* reader they run in, nested in any depth.
THEOREM ItemsDeliveredOnce == Spec => []ItemsOnceInOrder
<1>1. CommandInv => ItemsOnceInOrder
  BY CursorOrder DEF CommandInv
<1> QED
  BY Invariant, <1>1, PTL

\* At every width of int32 and int64, and whatever a float64 rounds to beyond Exact,
\* AsInt32 gives the nearest int32 of a number in a text, and AsInt64 the int64 it
\* truncates to if it is an integer literal that fits or is exact as a float64; of
\* another text AsInt64 gives what its float64 truncates to, if that fits.  An
\* integer that fits is unchanged.
THEOREM ConversionsNearest == Spec => []NumbersNearest
<1>1. CommandInv => NumbersNearest
  BY ConvertedNearest DEF CommandInv, CursorInv
<1> QED
  BY Invariant, <1>1, PTL

\* HGetAll maps each field of the reply to the value that came last with it, and
\* nothing else, for replies of any length.
THEOREM FieldsKeepTheirValues == Spec => []FieldsWithTheirValues
<1>1. ASSUME CommandInv, stage = "done", as = "map", outcome[1] = "map"
      PROVE  LET s == Meaning[sent][2]
                 m == outcome[2]
                 at(f) == {i \in 1..(Len(s) \div 2) : TextOf(s[2 * i - 1]) = f}
             IN /\ Len(s) % 2 = 0
                /\ DOMAIN m = {TextOf(s[2 * i - 1]) : i \in 1..(Len(s) \div 2)}
                /\ \A f \in DOMAIN m : \E i \in at(f) :
                     (\A j \in at(f) : j <= i) /\ m[f] = TextOf(s[2 * i])
  <2>1. Returned /\ outcome = Decoded("map", reply)
    BY <1>1 DEF CommandInv
  <2>2. /\ outcome = MapReply(reply) /\ reply[1] = "slice" /\ reply # Broken
        /\ Len(reply[2]) % 2 = 0
    <3>1. outcome # Failed
      BY <1>1 DEF Failed
    <3>2. reply[1] \notin {"RedisError", "broken"}
      BY <2>1, <3>1 DEF Decoded
    <3>3. outcome = MapReply(reply)
      BY <2>1, <3>2 DEF Decoded
    <3>4. ~(reply[1] # "slice" \/ Len(reply[2]) % 2 # 0)
      BY <3>1, <3>3 DEF MapReply
    <3>5. reply # Broken
      BY <3>2 DEF Broken
    <3> QED
      BY <3>3, <3>4, <3>5
  <2>3. reply = Meaning[sent]
    BY <2>1, <2>2 DEF Returned
  <2>4. PICK s : s = reply[2]
    OBVIOUS
  <2>5. s \in Seq(Values)
    BY <2>1, <2>2, <2>4, ReturnedTypes, ValueTypes
  <2>6. Len(s) \in Nat /\ Len(s) % 2 = 0
    BY <2>2, <2>4, <2>5, LenProperties
  <2>7. PICK n : n = Len(s) \div 2
    OBVIOUS
  <2>8. n \in Nat
    <3>1. PICK k \in Nat : k = Len(s)
      BY <2>6
    <3>2. k \div 2 \in Nat
      OBVIOUS
    <3> QED
      BY <2>7, <3>1, <3>2
  <2>9. PICK p : Merges(p, s, n) /\ MapReply(reply) = <<"map", p[n]>>
    BY <2>2, <2>4, <2>6, <2>7, MapReplyMerges
  <2>10. PICK m : m = outcome[2]
    OBVIOUS
  <2>11. LastValues(m, s, n)
    BY <2>2, <2>8, <2>9, <2>10, MergedValues
  <2>12. DOMAIN m = {TextOf(s[2 * i - 1]) : i \in 1..n}
    BY <2>11 DEF LastValues, Field
  <2>13. ASSUME NEW f \in DOMAIN m
         PROVE  \E i \in {i \in 1..n : TextOf(s[2 * i - 1]) = f} :
                  /\ \A j \in {j \in 1..n : TextOf(s[2 * j - 1]) = f} : j <= i
                  /\ m[f] = TextOf(s[2 * i])
    BY <2>11 DEF LastValues, Field, Value
  <2>14. Meaning[sent][2] = s
    BY <2>3, <2>4
  <2>15. /\ Len(s) % 2 = 0
         /\ DOMAIN m = {TextOf(s[2 * i - 1]) : i \in 1..(Len(s) \div 2)}
    BY <2>6, <2>7, <2>12
  <2>16. \A f \in DOMAIN m : \E i \in {i \in 1..(Len(s) \div 2) : TextOf(s[2 * i - 1]) = f} :
           /\ \A j \in {j \in 1..(Len(s) \div 2) : TextOf(s[2 * j - 1]) = f} : j <= i
           /\ m[f] = TextOf(s[2 * i])
    BY <2>7, <2>13
  <2>17. /\ Len(Meaning[sent][2]) % 2 = 0
         /\ DOMAIN outcome[2] =
              {TextOf(Meaning[sent][2][2 * i - 1]) : i \in 1..(Len(Meaning[sent][2]) \div 2)}
    BY <2>10, <2>14, <2>15
  <2>18. \A f \in DOMAIN outcome[2] :
           \E i \in {i \in 1..(Len(Meaning[sent][2]) \div 2) :
                      TextOf(Meaning[sent][2][2 * i - 1]) = f} :
             /\ \A j \in {j \in 1..(Len(Meaning[sent][2]) \div 2) :
                          TextOf(Meaning[sent][2][2 * j - 1]) = f} : j <= i
             /\ outcome[2][f] = TextOf(Meaning[sent][2][2 * i])
    BY <2>10, <2>14, <2>16
  <2> QED
    BY <2>17, <2>18
<1>2. CommandInv => FieldsWithTheirValues
  BY <1>1 DEF FieldsWithTheirValues
<1> QED
  BY Invariant, <1>2, PTL

=============================================================================
