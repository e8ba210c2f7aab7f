------------------------------ MODULE Commands ------------------------------
(***************************************************************************)
(* The typed commands of redis/commands.go and redis/client.go: each builds *)
(* a request, sends it through Do and makes a Go value of the reply.  One   *)
(* connection serves call after call (RespReader reads it), as long as Do   *)
(* puts it back; a caller of Eval may go through an array with the reader   *)
(* of reply.go (ReplyReader).                                               *)
(*                                                                         *)
(* A request is a tuple of arguments: texts are strings, numbers numbers.   *)
(* Durations are in units of which Millisecond and Second have some.        *)
(***************************************************************************)
EXTENDS RespReader

CONSTANTS
    MaxInt32, Float, Exact, Default, MaxNesting,   \* see ReplyReader
    Millisecond, Second,
    Durations,    \* the TTLs callers pass, of the range of time.Duration
    Names,        \* the texts callers of variadic commands pass
    KeyLists      \* the lists of them they pass

MinInt64 == -MaxInt64 - 1

ASSUME WidthsAssumption ==
    /\ MaxInt32 \in Nat /\ MaxInt64 \in Nat /\ MaxInt32 <= MaxInt64
    /\ Default \in -MaxInt32..MaxInt32 /\ MaxNesting \in Nat
ASSUME UnitsAssumption ==
    /\ Millisecond \in Nat \ {0} /\ Second \in Nat \ {0}
    /\ Durations \subseteq MinInt64..MaxInt64 /\ KeyLists \subseteq Seq(Names)
ASSUME FloatAssumption ==   \* rounding keeps the order against what is exact
    /\ Exact \in (2 * MaxInt32 + 2)..(2 * MaxInt64)
    /\ (2 * MinInt64)..(2 * MaxInt64) \subseteq DOMAIN Float
    /\ \A h \in DOMAIN Float :
         /\ h \in Int /\ Float[h] \in Int
         /\ h \in -Exact..Exact => Float[h] = h
         /\ h > Exact => Float[h] >= Exact
         /\ h < -Exact => Float[h] <= -Exact
ASSUME TextsAssumption ==
    \A r \in Replies :
      r[1] \in {"+", "$"} /\ r[2][1] \in {"num", "point"} => r[2][2] \in DOMAIN Float

VARIABLES
    stage,     \* what the caller is doing: "idle", "call", "done" or "scan"
    asked,     \* the request of the present call
    ttl,       \* the TTL it was made with
    as,        \* the Go type its reply becomes
    outcome,   \* what the call returned
    items, position, running, delivered, got    \* see ReplyReader

Cursor == INSTANCE ReplyReader

readerVars == <<items, position, running, delivered, got>>
callVars == <<stage, asked, ttl, as, outcome>>
vars == <<respVars, callVars, readerVars>>

Failed == <<"error">>

Init ==
    /\ wire = <<>> /\ frames = <<>> /\ reply = Pending
    /\ sent = Nil /\ whole = TRUE
    /\ stage = "idle" /\ asked = <<>> /\ ttl = 0 /\ as = "none" /\ outcome = Nil
    /\ Cursor!ReaderInit

-----------------------------------------------------------------------------
(* Do, and what the commands make of its reply.                             *)

\* The request goes out and the server answers, as it likes.
Do(args, kind) ==
    /\ stage = "idle"
    /\ stage' = "call"
    /\ asked' = args
    /\ as' = kind
    /\ \E r \in Replies : Send(r)
    /\ UNCHANGED <<outcome, readerVars>>

\* A command without a TTL.
Call(args, kind) == Do(args, kind) /\ UNCHANGED ttl

\* WriteCommand refuses an argument of a type it does not know before it writes.
Unsupported ==
    /\ stage = "idle"
    /\ stage' = "done"
    /\ asked' = <<"EVAL", "unsupported">>
    /\ outcome' = Failed
    /\ UNCHANGED <<respVars, ttl, as, readerVars>>

\* reply.(string) of an element, the empty text for anything else.
TextOf(v) == IF v[1] = "string" THEN v[2] ELSE Cursor!NoText

IntReply(v)  == IF v[1] = "int64" THEN v ELSE Failed
BoolReply(v) == IF v[1] = "int64" THEN <<"bool", v[2] = 1>> ELSE Failed
TextReply(v) == IF v = Nil THEN <<"string", Cursor!NoText>>
                ELSE IF v[1] = "string" THEN v ELSE Failed
ListReply(v) == IF v[1] = "slice"
                THEN <<"list", [i \in 1..Len(v[2]) |-> TextOf(v[2][i])]>> ELSE Failed
ShaReply(v)  == IF v[1] = "string" THEN v ELSE Failed

ExistsReply(v) ==
    IF v[1] = "slice" /\ v[2] # <<>> /\ v[2][1][1] = "int64"
    THEN <<"bool", v[2][1][2] = 1>> ELSE Failed

\* m[f] = x
Put(m, f, x) == [g \in DOMAIN m \cup {f} |-> IF g = f THEN x ELSE m[g]]

\* Mutant: an entry already in the map is not overwritten.
MapReply_FirstWins(v) ==
    IF v[1] # "slice" \/ Len(v[2]) % 2 # 0 THEN Failed
    ELSE LET m[i \in 0..(Len(v[2]) \div 2)] ==
               IF i = 0 THEN <<>>
               ELSE IF TextOf(v[2][2 * i - 1]) \in DOMAIN m[i - 1] THEN m[i - 1]
               ELSE Put(m[i - 1], TextOf(v[2][2 * i - 1]), TextOf(v[2][2 * i]))
         IN <<"map", m[Len(v[2]) \div 2]>>

\* Fields and values in turn; a field that comes again is overwritten.
MapReply(v) ==
    IF v[1] # "slice" \/ Len(v[2]) % 2 # 0 THEN Failed
    ELSE LET m[i \in 0..(Len(v[2]) \div 2)] ==
               IF i = 0 THEN <<>>
               ELSE Put(m[i - 1], TextOf(v[2][2 * i - 1]), TextOf(v[2][2 * i]))
         IN <<"map", m[Len(v[2]) \div 2]>>

Decoded(kind, v) ==
    IF v[1] \in {"RedisError", "broken"} THEN Failed
    ELSE CASE kind = "int"    -> IntReply(v)
           [] kind = "bool"   -> BoolReply(v)
           [] kind = "text"   -> TextReply(v)
           [] kind = "list"   -> ListReply(v)
           [] kind = "map"    -> MapReply(v)
           [] kind = "sha"    -> ShaReply(v)
           [] kind = "exists" -> ExistsReply(v)
           [] kind = "ok"     -> Nil
           [] OTHER           -> v

\* Do and the command return.
Answered ==
    /\ stage = "call" /\ reply # Pending
    /\ outcome' = Decoded(as, reply)
    /\ stage' = "done"
    /\ UNCHANGED <<respVars, asked, ttl, as, readerVars>>

\* An error of ReadReply or WriteCommand closes the connection; so does an error
\* reply with more behind it.
Closed == reply = Broken \/ (reply[1] = "RedisError" /\ wire # <<>>)

\* The caller is done with the result.  The next call finds the connection as
\* this one left it, or a new one.
Forget ==
    /\ stage \in {"done", "scan"}
    /\ stage' = "idle"
    /\ wire' = IF Closed THEN <<>> ELSE wire
    /\ reply' = Pending /\ sent' = Nil /\ whole' = TRUE
    /\ asked' = <<>> /\ ttl' = 0 /\ as' = "none" /\ outcome' = Nil
    /\ Cursor!Open(<<>>)
    /\ UNCHANGED frames

\* The array a script returned is read with a RedisArrayReplyReader.
Scan ==
    /\ stage = "done"
    /\ as = "any" /\ outcome[1] = "slice"
    /\ stage' = "scan"
    /\ Cursor!Open(outcome[2])
    /\ asked' = <<>> /\ reply' = Pending /\ sent' = Nil /\ outcome' = Nil
    /\ UNCHANGED <<wire, frames, whole, ttl, as>>

Read == stage = "scan" /\ Cursor!UseReader /\ UNCHANGED <<respVars, callVars>>

-----------------------------------------------------------------------------
(* The requests that carry a time.                                          *)

Wrap(n) == ((n - MinInt64) % (MaxInt64 - MinInt64 + 1)) + MinInt64

Milliseconds(d) == IF d \div Millisecond <= 0 THEN 1 ELSE d \div Millisecond

\* Mutant: seconds are cut off, as for Set.
Seconds_Truncated(d) == Cursor!Quot(d, Second)

\* Whole seconds, rounded up when positive; the sum is one of int64.
Seconds(d) ==
    IF d > 0 THEN Cursor!Quot(Wrap(d + Second - 1), Second) ELSE Cursor!Quot(d, Second)

Set(d) ==
    /\ Do(IF d > 0 THEN <<"SET", "k", "v", "PX", Milliseconds(d)>>
                   ELSE <<"SET", "k", "v">>, "ok")
    /\ ttl' = d

Expire(d) == Do(<<"EXPIRE", "k", Seconds(d)>>, "bool") /\ ttl' = d

-----------------------------------------------------------------------------
(* The other requests.                                                      *)

Get           == Call(<<"GET", "k">>, "text")
Del(ks)       == Call(<<"DEL">> \o ks, "int")
Exists(ks)    == Call(<<"EXISTS">> \o ks, "int")
Incr          == Call(<<"INCR", "k">>, "int")
IncrBy(n)     == Call(<<"INCRBY", "k", n>>, "int")
TTL           == Call(<<"TTL", "k">>, "int")
HSet          == Call(<<"HSET", "k", "f", "v">>, "ok")
HGet          == Call(<<"HGET", "k", "f">>, "text")
HGetAll       == Call(<<"HGETALL", "k">>, "map")
HDel(fs)      == Call(<<"HDEL", "k">> \o fs, "int")
HExists       == Call(<<"HEXISTS", "k", "f">>, "bool")
LPush(vs)     == Call(<<"LPUSH", "k">> \o vs, "int")
RPush(vs)     == Call(<<"RPUSH", "k">> \o vs, "int")
LPop          == Call(<<"LPOP", "k">>, "text")
RPop          == Call(<<"RPOP", "k">>, "text")
LLen          == Call(<<"LLEN", "k">>, "int")
LRange(n)     == Call(<<"LRANGE", "k", 0, n>>, "list")
SAdd(ms)      == Call(<<"SADD", "k">> \o ms, "int")
SMembers      == Call(<<"SMEMBERS", "k">>, "list")
SRem(ms)      == Call(<<"SREM", "k">> \o ms, "int")
SIsMember     == Call(<<"SISMEMBER", "k", "v">>, "bool")
SCard         == Call(<<"SCARD", "k">>, "int")
Ping          == Call(<<"PING">>, "ok")
FlushAll      == Call(<<"FLUSHALL">>, "ok")
Eval(ks)      == Call(<<"EVAL", "body", Len(ks)>> \o ks, "any")
EvalSha(ks)   == Call(<<"EVALSHA", "sha", Len(ks)>> \o ks, "any")
ScriptLoad    == Call(<<"SCRIPT", "LOAD", "body">>, "sha")
ScriptExists  == Call(<<"SCRIPT", "EXISTS", "sha">>, "exists")

StringCommand ==
    \/ Get \/ Incr \/ TTL
    \/ \E d \in Durations : Set(d) \/ Expire(d)
    \/ \E ks \in KeyLists : Del(ks) \/ Exists(ks)
    \/ \E n \in {MinInt64, MaxInt64} : IncrBy(n)

CollectionCommand ==
    \/ HSet \/ HGet \/ HGetAll \/ HExists \/ LPop \/ RPop \/ LLen
    \/ SMembers \/ SIsMember \/ SCard \/ LRange(-1)
    \/ \E vs \in KeyLists : \/ HDel(vs) \/ LPush(vs) \/ RPush(vs)
                            \/ SAdd(vs) \/ SRem(vs)

ServerCommand ==
    \/ Ping \/ FlushAll \/ ScriptLoad \/ ScriptExists
    \/ \E ks \in KeyLists : Eval(ks) \/ EvalSha(ks)

Next ==
    \/ StringCommand \/ CollectionCommand \/ ServerCommand \/ Unsupported
    \/ stage = "call" /\ (ReadReply \/ Lost) /\ UNCHANGED <<callVars, readerVars>>
    \/ Answered \/ Forget \/ Scan \/ Read

Spec == Init /\ [][Next]_vars

-----------------------------------------------------------------------------
Texts == {v[2] : v \in {u \in Values : u[1] = "string"}} \cup {Cursor!NoText}

\* The arguments of a command that are numbers; the others are texts.
NumbersAt(command) ==
    CASE command \in {"EXPIRE", "INCRBY", "EVAL", "EVALSHA"} -> {3}
      [] command = "LRANGE" -> {3, 4}
      [] command = "SET" -> {5}
      [] OTHER -> {}

\* The texts requests are made of.
Arguments ==
    {"GET", "SET", "PX", "DEL", "EXISTS", "INCR", "INCRBY", "EXPIRE", "TTL", "HSET",
     "HGET", "HGETALL", "HDEL", "HEXISTS", "LPUSH", "RPUSH", "LPOP", "RPOP", "LLEN",
     "LRANGE", "SADD", "SMEMBERS", "SREM", "SISMEMBER", "SCARD", "PING", "FLUSHALL",
     "EVAL", "EVALSHA", "SCRIPT", "LOAD", "k", "f", "v", "body", "sha", "unsupported"}
      \cup Names

IsRequest(args) ==
    \A i \in 1..Len(args) :
      IF i \in NumbersAt(args[1]) THEN args[i] \in Int ELSE args[i] \in Arguments

\* x has the Go type a command with such a result returns.
IsResult(kind, x) ==
    CASE kind = "int" -> x[1] = "int64" /\ x \in Values
      [] kind \in {"bool", "exists"} -> x \in {"bool"} \X BOOLEAN
      [] kind \in {"text", "sha"} -> x \in {"string"} \X Texts
      [] kind = "list" -> x \in {"list"} \X Seq(Texts)
      [] kind = "map" -> /\ x[1] = "map" /\ DOMAIN x[2] \subseteq Texts
                         /\ \A f \in DOMAIN x[2] : x[2][f] \in Texts
      [] kind = "ok" -> x = Nil
      [] kind = "any" -> x[1] \in {"string", "int64", "slice", "nil"} /\ x \in Values
      [] OTHER -> FALSE

\* x is of the type a conversion has in its name.
IsConverted(kind, x) ==
    CASE kind = "int32" -> x \in Cursor!MinInt32..MaxInt32
      [] kind = "int64" -> x \in MinInt64..MaxInt64
      [] kind = "float64" -> x[1] = "nan" \/ (x[1] = "float" /\ x[2] \in Int)
      [] kind = "string" -> x \in Texts \/ (x[1] = "num" /\ x[2] \in Int)
      [] OTHER -> FALSE

\* Every variable has its type: a call returns the Go type of its command or an
\* error, and no array under construction is longer than announced.
TypeOK ==
    /\ wire \in Seq(Replies)
    /\ frames \in Seq(Nat \X Seq(Values))
    /\ \A i \in 1..Len(frames) : Len(frames[i][2]) <= frames[i][1]
    /\ reply \in Values \cup {Pending, Broken}
    /\ sent \in Replies \cup {Nil}
    /\ whole \in BOOLEAN
    /\ stage \in {"idle", "call", "done", "scan"}
    /\ IsRequest(asked)
    /\ ttl \in MinInt64..MaxInt64
    /\ as \in {"none", "int", "bool", "text", "list", "map", "sha", "exists", "ok", "any"}
    /\ stage = "done" => outcome = Failed \/ IsResult(as, outcome)
    /\ stage # "done" => outcome = Nil
    /\ items \in Seq(Values)
    /\ position \in 0..Len(items)
    /\ running \in Seq(0..Len(items))
    /\ delivered \in Seq(Nat \X Values)
    /\ got = Cursor!NothingYet \/ (got[2] \in Values \cup {Nil} /\ IsConverted(got[1], got[3]))

\* A connection is given back only between two replies: nothing is left in it
\* for the next command, however deep the reply was nested (Do 660-683).  This is
\* with the losses of Lost; a connection that ends within a line leaves nothing
\* either, but its half line is taken for the reply (see CutShort in CommandExec).
PooledAtBoundary ==
    (stage = "idle" \/ (stage \in {"done", "scan"} /\ ~Closed))
      => wire = <<>> /\ frames = <<>>

\* A key never lives shorter than EXPIRE was asked for nor as much as a second
\* longer, unless its TTL is within a second of the largest Duration, where the sum
\* of Expire overflows and a negative number is sent; SET cuts off
\* less than a millisecond and never asks for none (Set, Expire).
TtlKept ==
    stage = "call" /\ ttl > 0 =>
      \/ /\ asked[1] = "SET" /\ Len(asked) = 5
         /\ asked[5] >= 1
         /\ ttl < (asked[5] + 1) * Millisecond
         /\ asked[5] > 1 => asked[5] * Millisecond <= ttl
      \/ /\ asked[1] = "EXPIRE"
         /\ ttl <= MaxInt64 - (Second - 1) =>
              asked[3] * Second \in ttl..(ttl + Second - 1)

\* Fields of an HGETALL reply and the position of each one's last value.
FieldsWithTheirValues ==
    (stage = "done" /\ as = "map" /\ outcome[1] = "map") =>
      LET s == Meaning[sent][2]
          m == outcome[2]
          at(f) == {i \in 1..(Len(s) \div 2) : TextOf(s[2 * i - 1]) = f}
      IN /\ Len(s) % 2 = 0
         /\ DOMAIN m = {TextOf(s[2 * i - 1]) : i \in 1..(Len(s) \div 2)}
         /\ \A f \in DOMAIN m : \E i \in at(f) :
              (\A j \in at(f) : j <= i) /\ m[f] = TextOf(s[2 * i])

\* The reader of reply.go, see ReplyReader: no item twice or passed over, also
\* when a ForEach callback uses the reader it runs in.
ItemsOnceInOrder == Cursor!ItemsOnceInOrder

\* The conversions of reply.go, see ReplyReader: a number in a text becomes the
\* nearest int32, or the int64 it truncates to where a float64 is exact.
NumbersNearest == Cursor!NumbersNearest

=============================================================================
