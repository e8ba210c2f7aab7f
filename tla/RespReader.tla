----------------------------- MODULE RespReader -----------------------------
(***************************************************************************)
(* ReadReply of redis/resp.go: one reply is read from a connection, line   *)
(* by line.  The recursion of ReadReply over nested arrays is a stack of   *)
(* arrays under construction.                                              *)
(*                                                                         *)
(* A reply the server sends is a tree: <<"+", t>>, <<"-", t>>, <<":", s>>  *)
(* and <<"$", t>> with a text t or the digits s, <<"*", elements>>, and    *)
(* <<"line", l>> for a line that is a whole reply (the two nulls) or stands *)
(* where one should be.  Digits are numbers, the other characters have the  *)
(* names below.  What Go makes of a reply is a pair of type and value.      *)
(***************************************************************************)
EXTENDS Integers, Sequences, SequencesExt

CONSTANTS
    Replies,      \* the trees a server may send, with all their subtrees
    Depth,        \* how deep each of them is nested
    Size,         \* the length of a text in bytes
    Decimal,      \* the digits a server writes for a length
    MaxInt64,     \* math.MaxInt64
    maxBulkLen, maxArrayLen

Minus == -1
Plus  == -2
Other == -3       \* a character that is no digit and no sign

Nil     == <<"nil">>
Pending == <<"pending">>   \* ReadReply has not returned
Broken  == <<"broken">>    \* it returned an error

VARIABLES
    wire,     \* replies, and elements of one, on their way to the client
    frames,   \* arrays under construction, outermost first: <<length, elements>>
    reply,    \* what ReadReply returned
    sent,     \* the reply the server is sending
    whole     \* all of it arrives

respVars == <<wire, frames, reply, sent, whole>>

-----------------------------------------------------------------------------
(* What RESP2 says.                                                         *)

Signed(s) == s # <<>> /\ s[1] \in {Minus, Plus}
Digits(s) == IF Signed(s) THEN Tail(s) ELSE s

\* s is a decimal notation of n: the remainders of dividing by ten, last digit
\* first.
Denotes(s, n) ==
    LET ds == Digits(s)
        rest[k \in 0..Len(ds)] ==
            IF k = 0 THEN IF n < 0 THEN -n ELSE n ELSE rest[k - 1] \div 10
    IN /\ ds # <<>> /\ rest[Len(ds)] = 0
       /\ \A k \in 1..Len(ds) : ds[Len(ds) + 1 - k] = rest[k - 1] % 10
       /\ n # 0 => (n < 0 <=> s[1] = Minus)

Nulls == {<<"$", <<Minus, 1>>>>, <<"*", <<Minus, 1>>>>}

\* The number in a line that has one is within the limits of its type.
InRange(l) ==
    LET range == CASE l[1] = ":" -> -MaxInt64..MaxInt64
                   [] l[1] = "$" -> -1..maxBulkLen
                   [] l[1] = "*" -> -1..maxArrayLen
    IN \E n \in range : Denotes(l[2], n)

\* What no reply begins with.
Malformed(l) ==
    \/ l[1] \notin {"+", "-", ":", "$", "*"}
    \/ l[1] \in {":", "$", "*"} /\ l[2] \in Seq(Int) /\ ~InRange(l)

Length(r) == IF r[1] = "$" THEN Size[r[2]] ELSE Len(r[2])

ASSUME RepliesAssumption ==
    \A r \in Replies :
      /\ r[1] \in {"+", "-", ":", "$", "*", "line"}
      /\ Depth[r] \in Nat
      /\ r[1] = ":" => r[2] \in Seq(Int)
      /\ r[1] = "*" =>
           r[2] \in Seq(Replies) /\ \A i \in 1..Len(r[2]) : Depth[r[2][i]] < Depth[r]
      /\ r[1] = "line" => r[2] \in Nulls \/ Malformed(r[2])
ASSUME LengthsAssumption ==
    \A r \in Replies : r[1] \in {"$", "*"} =>
      LET n == Length(r)
      IN n \in Nat /\ Decimal[n] \in Seq(Int) /\ Denotes(Decimal[n], n)
ASSUME LimitsAssumption ==
    MaxInt64 \in Nat \ {0} /\ maxBulkLen \in 0..MaxInt64 /\ maxArrayLen \in 0..MaxInt64

-----------------------------------------------------------------------------
(* The server and the network.                                              *)

\* The line a reply begins with.
Header(r) ==
    CASE r[1] \in {"$", "*"} -> <<r[1], Decimal[Length(r)]>>
      [] r[1] = "line" -> r[2]
      [] OTHER -> r

Send(r) ==
    /\ wire' = Append(wire, r)
    /\ sent' = r
    /\ whole' = TRUE
    /\ reply' = Pending
    /\ UNCHANGED frames

\* The connection ends before the rest of the reply, or the deadline passes, at
\* the end of a line.  A text that is cut short counts as lost with its header:
\* ReadReply fails either way.  A line that is cut short is not, and passes for a
\* whole one: see CutShort in CommandExec.
Lost ==
    /\ reply = Pending /\ whole
    /\ \E n \in 0..(Len(wire) - 1) : wire' = SubSeq(wire, 1, n)
    /\ whole' = FALSE
    /\ UNCHANGED <<frames, reply, sent>>

-----------------------------------------------------------------------------
(* parseAsciiInt: the number a text stands for, or no number.               *)

\* The digits read so far, of at most one number, and one more.
Push(N, d) ==
    {n * 10 + d : n \in {m \in N : d \in 0..9 /\ m <= (MaxInt64 - d) \div 10}}

\* The loop over the digits.
Magnitude(ds) ==
    LET value[i \in 0..Len(ds)] == IF i = 0 THEN {0} ELSE Push(value[i - 1], ds[i])
    IN value[Len(ds)]

parseAsciiInt(s) ==
    LET sign == IF s # <<>> /\ s[1] = Minus THEN -1 ELSE 1
    IN IF Digits(s) = <<>> THEN {} ELSE {n * sign : n \in Magnitude(Digits(s))}

-----------------------------------------------------------------------------
(* ReadReply.                                                               *)

Top == Last(frames)

\* Mutant: the loop over an array runs once too often.
Expecting_OneMore ==
    /\ reply = Pending
    /\ frames # <<>> => Len(Top[2]) <= Top[1]
    /\ wire # <<>>

\* ReadReply is about to read a line: the reply's, or that of the next element.
Expecting ==
    /\ reply = Pending
    /\ frames # <<>> => Len(Top[2]) < Top[1]
    /\ wire # <<>>

Line == Header(Head(wire))

\* Mutant: an error inside an array is returned as the reply.
Return_ErrorEarly(stack, v) ==
    IF stack = <<>> \/ v[1] = "RedisError"
    THEN reply' = v /\ frames' = <<>>
    ELSE /\ frames' = [stack EXCEPT ![Len(stack)] = <<@[1], Append(@[2], v)>>]
         /\ UNCHANGED reply

\* A call of ReadReply returns v to its caller, or to the loop over an array.
Return(stack, v) ==
    IF stack = <<>>
    THEN reply' = v /\ frames' = <<>>
    ELSE /\ frames' = [stack EXCEPT ![Len(stack)] = <<@[1], Append(@[2], v)>>]
         /\ UNCHANGED reply

ReadText ==
    /\ Expecting
    /\ \/ Line[1] = "+" /\ Return(frames, <<"string", Line[2]>>)
       \/ Line[1] = "-" /\ Return(frames, <<"RedisError", Line[2]>>)
    /\ wire' = Tail(wire)
    /\ UNCHANGED <<sent, whole>>

ReadInt ==
    /\ Expecting
    /\ Line[1] = ":"
    /\ \E n \in parseAsciiInt(Line[2]) : Return(frames, <<"int64", n>>)
    /\ wire' = Tail(wire)
    /\ UNCHANGED <<sent, whole>>

ReadNull ==
    /\ Expecting
    /\ Line[1] \in {"$", "*"} /\ parseAsciiInt(Line[2]) = {-1}
    /\ Return(frames, Nil)
    /\ wire' = Tail(wire)
    /\ UNCHANGED <<sent, whole>>

\* Mutant: only n bytes are read, not the n + 2 with the terminator.
ReadBulk_NoTerminator ==
    /\ Expecting
    /\ Line[1] = "$"
    /\ \E n \in parseAsciiInt(Line[2]) : n \in 0..maxBulkLen
    /\ Return(frames, <<"string", Head(wire)[2]>>)
    /\ wire' = <<<<"line", <<"">>>>>> \o Tail(wire)
    /\ UNCHANGED <<sent, whole>>

\* The line, the text and the terminator that follows it.
ReadBulk ==
    /\ Expecting
    /\ Line[1] = "$"
    /\ \E n \in parseAsciiInt(Line[2]) : n \in 0..maxBulkLen
    /\ Return(frames, <<"string", Head(wire)[2]>>)
    /\ wire' = Tail(wire)
    /\ UNCHANGED <<sent, whole>>

\* The line; the elements come next.
ReadArray ==
    /\ Expecting
    /\ Line[1] = "*"
    /\ \E n \in parseAsciiInt(Line[2]) :
         n \in 0..maxArrayLen /\ frames' = Append(frames, <<n, <<>>>>)
    /\ wire' = Head(wire)[2] \o Tail(wire)
    /\ UNCHANGED <<reply, sent, whole>>

\* All elements are read.
ReturnArray ==
    /\ reply = Pending
    /\ frames # <<>>
    /\ Len(Top[2]) = Top[1]
    /\ Return(Front(frames), <<"slice", Top[2]>>)
    /\ UNCHANGED <<wire, sent, whole>>

\* A line ReadReply cannot go on from: empty, of no known type, or without a
\* number within bounds.
Unreadable(l) ==
    \/ l[1] \notin {"+", "-", ":", "$", "*"}
    \/ l[1] \in {":", "$", "*"} /\ parseAsciiInt(l[2]) = {}
    \/ l[1] = "$" /\ \E n \in parseAsciiInt(l[2]) : n < -1 \/ n > maxBulkLen
    \/ l[1] = "*" /\ \E n \in parseAsciiInt(l[2]) : n < -1 \/ n > maxArrayLen

\* An error goes up through every array under construction.
ReadFails ==
    /\ reply = Pending
    /\ frames # <<>> => Len(Top[2]) < Top[1]
    /\ wire = <<>> \/ (wire # <<>> /\ Unreadable(Line))
    /\ reply' = Broken
    /\ frames' = <<>>
    /\ UNCHANGED <<wire, sent, whole>>

ReadReply ==
    \/ ReadText \/ ReadInt \/ ReadNull \/ ReadBulk \/ ReadArray \/ ReturnArray
    \/ ReadFails

-----------------------------------------------------------------------------
(* What a reply means.                                                      *)

\* The value a reply stands for, when m has the values of its elements, or Broken
\* when the client refuses it: it takes integers from -MaxInt64 to MaxInt64 (not
\* the one below) and texts and arrays up to its limits, in any nesting.
MeaningBy(m, r) ==
    CASE r[1] = "+" \/ (r[1] = "$" /\ Size[r[2]] <= maxBulkLen) -> <<"string", r[2]>>
      [] r[1] = "-" -> <<"RedisError", r[2]>>
      [] r[1] = ":" /\ InRange(r) ->
           <<"int64", CHOOSE n \in -MaxInt64..MaxInt64 : Denotes(r[2], n)>>
      [] /\ r[1] = "*" /\ Len(r[2]) <= maxArrayLen
         /\ \A i \in 1..Len(r[2]) : m[r[2][i]] # Broken ->
           <<"slice", [i \in 1..Len(r[2]) |-> m[r[2][i]]]>>
      [] r[1] = "line" /\ r[2] \in Nulls -> Nil
      [] OTHER -> Broken

Meaning[r \in Replies] == MeaningBy(Meaning, r)

Values == {Meaning[r] : r \in Replies}

\* ReadReply returns what was sent, with every element of every array in its
\* place, errors and nulls among them; it fails exactly when the reply did not
\* arrive whole (cut between two lines or within a text) or is beyond the client's
\* limits (resp.go 104-164, 186-217).
DecodesWhatWasSent ==
    reply # Pending => reply = IF whole THEN Meaning[sent] ELSE Broken

=============================================================================
