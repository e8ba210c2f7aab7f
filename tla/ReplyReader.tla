---------------------------- MODULE ReplyReader ----------------------------
(***************************************************************************)
(* reply.go: the conversions of RedisReplyValue and the cursor of          *)
(* RedisArrayReplyReader, whose ForEach runs a callback that may use the   *)
(* same reader: read on, or start another ForEach.                         *)
(*                                                                         *)
(* A text is <<"num", h>>, the decimal notation of h/2 (an integer literal  *)
(* when h is even), <<"point", h>>, the same with a point or an exponent in *)
(* any case ("3.0"), <<"nan", 0>>, or something no parser takes for a       *)
(* number.  A float64 is <<"float", f>>, in halves too, or NaN.  Integer     *)
(* widths and the precision of a float64 are CONSTANTS.                      *)
(***************************************************************************)
EXTENDS Integers, Sequences

CONSTANTS
    MaxInt32, MaxInt64,   \* math.MaxInt32 and math.MaxInt64
    Float,                \* the float64 nearest to h/2, in halves, by h
    Exact,                \* up to this h (2^53) it is h itself
    Default,              \* the caller's default value
    MaxNesting            \* bound: ForEach calls within one another

MinInt32 == -MaxInt32 - 1
MinInt64 == -MaxInt64 - 1

VARIABLES
    items,      \* redisReply
    position,   \* items read so far
    running,    \* the ForEach calls under way: the item its callback has, or 0
    delivered,  \* items handed out, each with the index the callback was given
    got         \* the last conversion: of what, to what, with which result

-----------------------------------------------------------------------------
(* Conversions.  The result is a set: Go leaves the conversion of a float   *)
(* that does not fit (or is no number) to the implementation.               *)

Quot(a, b) == IF a >= 0 THEN a \div b ELSE -((-a) \div b)

\* ParseInt takes the text for an integer of the range.
IsInt(t, lo, hi) == t[1] = "num" /\ t[2] % 2 = 0 /\ t[2] \div 2 \in lo..hi

\* strconv.ParseFloat: the nearest float64.
ParseFloat(t) == IF t[1] = "nan" THEN t ELSE <<"float", Float[t[2]]>>

\* int32(r) and int64(r): truncation, of what fits.
FloatToInt(r, lo, hi) ==
    IF r[1] = "float" /\ Quot(r[2], 2) \in lo..hi THEN {Quot(r[2], 2)} ELSE {lo, 0, hi}

Above(r, n) == r[1] = "float" /\ r[2] > 2 * n
Below(r, n) == r[1] = "float" /\ r[2] < 2 * n

\* int32(n): the low bits.
Narrow(n) == ((n - MinInt32) % (MaxInt32 - MinInt32 + 1)) + MinInt32

\* Mutant: no check against the smallest int32.
TextAsInt32_NoLowerBound(t) ==
    IF IsInt(t, MinInt32, MaxInt32) THEN {t[2] \div 2}
    ELSE IF Above(ParseFloat(t), MaxInt32) THEN {MaxInt32}
    ELSE FloatToInt(ParseFloat(t), MinInt32, MaxInt32)

TextAsInt32(t) ==
    IF IsInt(t, MinInt32, MaxInt32) THEN {t[2] \div 2}
    ELSE IF Above(ParseFloat(t), MaxInt32) THEN {MaxInt32}
    ELSE IF Below(ParseFloat(t), MinInt32) THEN {MinInt32}
    ELSE FloatToInt(ParseFloat(t), MinInt32, MaxInt32)

TextAsInt64(t) ==
    IF IsInt(t, MinInt64, MaxInt64) THEN {t[2] \div 2}
    ELSE FloatToInt(ParseFloat(t), MinInt64, MaxInt64)

IsNumber(t) == t[1] \in {"num", "point", "nan"}

AsInt32(v) ==
    CASE v[1] = "string" -> IF IsNumber(v[2]) THEN TextAsInt32(v[2]) ELSE {Default}
      [] v[1] = "int64"  -> {Narrow(v[2])}
      [] OTHER -> {Default}

AsInt64(v) ==
    CASE v[1] = "string" -> IF IsNumber(v[2]) THEN TextAsInt64(v[2]) ELSE {Default}
      [] v[1] = "int64"  -> {v[2]}
      [] OTHER -> {Default}

AsFloat64(v) ==
    CASE v[1] = "string" /\ IsNumber(v[2]) -> {ParseFloat(v[2])}
      [] v[1] = "int64" -> {<<"float", Float[2 * v[2]]>>}
      [] OTHER -> {<<"float", 2 * Default>>}

NoText == <<"word", 0>>

AsString(v) ==
    CASE v[1] = "string" -> {v[2]}
      [] v[1] = "int64" -> {<<"num", 2 * v[2]>>}
      [] OTHER -> {NoText}

Converted(kind, v) ==
    CASE kind = "int32" -> AsInt32(v) [] kind = "int64" -> AsInt64(v)
      [] kind = "float64" -> AsFloat64(v) [] kind = "string" -> AsString(v)

NoValue == <<"nil">>
NothingYet == <<"none", NoValue, 0>>

-----------------------------------------------------------------------------
(* The cursor.                                                              *)

ReaderInit ==
    /\ items = <<>>
    /\ position = 0
    /\ running = <<>>
    /\ delivered = <<>>
    /\ got = NothingYet

\* NewRedisArrayReplyReader.
Open(s) ==
    /\ items' = s
    /\ position' = 0
    /\ running' = <<>>
    /\ delivered' = <<>>
    /\ got' = NothingYet

Top == running[Len(running)]

\* The user's code has the word: no ForEach, or the callback of the innermost.
UserRuns == running # <<>> => Top # 0

HasNext == position < Len(items)

Advance ==
    /\ position' = position + 1
    /\ delivered' = Append(delivered, <<position + 1, items[position + 1]>>)

\* ReadValue hands out v: the next item, or past the end a nil that moves nothing.
ReadValue(v) ==
    /\ UserRuns
    /\ \/ HasNext /\ v = items[position + 1] /\ Advance
       \/ ~HasNext /\ v = NoValue /\ UNCHANGED <<position, delivered>>
    /\ UNCHANGED <<items, running>>

Readables == {items[i] : i \in 1..Len(items)} \cup {NoValue}

SkipValue == \E v \in Readables : ReadValue(v) /\ got' = NothingYet

\* ReadInt32, ReadInt64, ReadFloat64 and ReadString, or ReadValue and the
\* conversion; NullableInt and NullableString have no pointer for nil.
ReadAs(kind) ==
    \E v \in Readables :
      /\ ReadValue(v)
      /\ \E x \in Converted(kind, v) : got' = <<kind, v, x>>

\* ReadArray consumes its item also when it is no array; the user reads on in
\* the nested one, if it is.
ReadArray ==
    \E v \in Readables :
      IF v[1] = "slice" /\ running = <<>> /\ HasNext /\ v = items[position + 1]
      THEN Open(v[2])
      ELSE ReadValue(v) /\ got' = NothingYet

\* The user calls ForEach.
ForEach ==
    /\ UserRuns
    /\ Len(running) < MaxNesting
    /\ running' = Append(running, 0)
    /\ UNCHANGED <<items, position, delivered, got>>

SetTop(i) == running' = [running EXCEPT ![Len(running)] = i]

\* The innermost ForEach is between two callbacks.
Looping == running # <<>> /\ Top = 0

\* The callback gets the next item; position is advanced before it runs.
Action ==
    /\ Looping /\ HasNext
    /\ SetTop(position + 1)
    /\ Advance
    /\ UNCHANGED <<items, got>>

\* Mutant: position is set to the item after the callback's once it has returned.
ActionReturns_SetsPosition ==
    /\ running # <<>> /\ Top # 0
    /\ position' = Top
    /\ SetTop(0) \/ running' = SubSeq(running, 1, Len(running) - 1)
    /\ UNCHANGED <<items, delivered, got>>

\* The callback returns: nil, and the loop goes on, or an error that ends it.
ActionReturns ==
    /\ running # <<>> /\ Top # 0
    /\ SetTop(0) \/ running' = SubSeq(running, 1, Len(running) - 1)
    /\ UNCHANGED <<items, position, delivered, got>>

ForEachReturns ==
    /\ Looping /\ ~HasNext
    /\ running' = SubSeq(running, 1, Len(running) - 1)
    /\ UNCHANGED <<items, position, delivered, got>>

UseReader ==
    \/ \E kind \in {"int32", "int64", "float64", "string"} : ReadAs(kind)
    \/ SkipValue \/ ReadArray
    \/ ForEach \/ Action \/ ActionReturns \/ ForEachReturns

-----------------------------------------------------------------------------
\* Whatever a callback does with the reader it runs in, no item is handed out
\* twice or passed over, and the index a callback gets is the item's own
\* (ForEach, ReadValue).
ItemsOnceInOrder ==
    /\ Len(delivered) <= Len(items)
    /\ delivered = [i \in 1..Len(delivered) |-> <<i, items[i]>>]

\* n is the integer of the range that h/2 truncates to, or the nearest end.
Nearest(n, h, lo, hi) ==
    /\ n \in lo..hi
    /\ \/ h >= 0 /\ 2 * n <= h /\ (n < hi => h < 2 * (n + 1))
       \/ h <= 0 /\ 2 * n >= h /\ (n > lo => h > 2 * (n - 1))

\* A text that is a number becomes the nearest int32, also when it was rounded on
\* the way.  It becomes the int64 it truncates to if it is an integer literal that
\* fits or a float64 has its halves (up to 2^52); beyond, a text with a point
\* becomes what its float64 truncates to, which may be another number, and next to
\* the ends of int64 that may not fit, so that Go leaves the result open.  An
\* integer that fits is kept, also when it is read back from the text it was turned
\* into (AsInt32, AsInt64, AsString).
NumbersNearest ==
    got[1] # "none" =>
      LET v == got[2]
          x == got[3]
      IN /\ v[1] = "string" /\ v[2][1] \in {"num", "point"} =>
              LET h == v[2][2]
                  literal == IsInt(v[2], MinInt64, MaxInt64)
              IN /\ got[1] = "int32" => Nearest(x, h, MinInt32, MaxInt32)
                 /\ got[1] = "int64" /\ (literal \/ h \in -Exact..Exact)
                      => Nearest(x, h, MinInt64, MaxInt64)
                 /\ got[1] = "int64" /\ ~literal
                      /\ Float[h] \in (2 * MinInt64)..(2 * MaxInt64)
                      => Nearest(x, Float[h], MinInt64, MaxInt64)
         /\ v[1] = "int64" =>
              /\ got[1] = "int32" /\ v[2] \in MinInt32..MaxInt32 => x = v[2]
              /\ got[1] = "int64" => x = v[2]
              /\ got[1] = "string" => AsInt64(<<"string", x>>) = {v[2]}

=============================================================================
