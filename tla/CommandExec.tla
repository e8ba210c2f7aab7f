------------------------------ MODULE CommandExec ------------------------------
(***************************************************************************)
(* Client.Do on the connections the pool lends: execOn writes a command,   *)
(* arms deadlines and reads one reply; Do puts the connection back or      *)
(* discards it (redis/client.go).  The pool is its contract, ConnLease.    *)
(*                                                                         *)
(* RESP has no request identifiers: whatever comes next on a connection is *)
(* taken for the reply.  So the model follows every reply from the server  *)
(* over the wire and the bufio.Reader to the caller, cut into pieces: a    *)
(* simple reply is one piece, a bulk or an array has a head and a body.    *)
(***************************************************************************)
EXTENDS Naturals, Sequences, FiniteSets

CONSTANTS
    Callers,     \* goroutines that call Do
    Conns,       \* connection identities
    PoolSize,    \* Options.poolSize()
    MaxCalls,    \* bound: calls one caller makes
    Timeouts,    \* which of WriteTimeout and ReadTimeout are not disabled
    Conforming,  \* the server sends one reply per command and nothing else
    Together,    \* what a server appends to an error arrives with it
    None         \* no connection, no command

Directions == {"write", "read"}
Stray == <<"stray", 0>>   \* bytes that answer no command

ASSUME CallersAssumption == MaxCalls \in Nat /\ None \notin Conns
ASSUME TimeoutsAssumption == Timeouts \subseteq Directions
ASSUME ServerAssumption == Conforming \in BOOLEAN /\ Together \in BOOLEAN

VARIABLES
    live, lease, shut,  \* the pool, see ConnLease
    pc,        \* where a caller stands in Do
    calls,     \* calls a caller has started
    ctxEnds,   \* its ctx has a deadline
    first,     \* whose head a caller has read, while it waits for the body
    result,    \* how its last call ended, and whose bytes it got
    sent,      \* per connection: commands on their way to the server
    stream,    \* per connection: pieces on their way to the caller, oldest first
    buffered,  \* per connection: how many of them are in its bufio.Reader
    deadline,  \* per connection: directions with an armed deadline
    torn       \* connections on which part of a line was taken for the whole

poolVars == <<live, lease, shut>>
connVars == <<sent, stream, buffered, deadline, torn>>
vars == <<poolVars, pc, calls, ctxEnds, first, result, connVars>>

Pool == INSTANCE ConnLease

\* The command of the present call of c.
Command(c) == <<c, calls[c]>>

Init ==
    /\ Pool!Init
    /\ pc = [c \in Callers |-> "idle"]
    /\ calls = [c \in Callers |-> 0]
    /\ ctxEnds = [c \in Callers |-> FALSE]
    /\ first = [c \in Callers |-> None]
    /\ result = [c \in Callers |-> [end |-> "none", of |-> {}, torn |-> FALSE]]
    /\ sent = [cn \in Conns |-> <<>>]
    /\ stream = [cn \in Conns |-> <<>>]
    /\ buffered = [cn \in Conns |-> 0]
    /\ deadline = [cn \in Conns |-> {}]
    /\ torn = {}

-----------------------------------------------------------------------------
(* How Do lets go of its connection.                                       *)

\* Mutant: the deferred SetDeadline is missing.
Disarm_Forgets(c) == UNCHANGED deadline

\* The deferred SetDeadline of execOn.
Disarm(c) == deadline' = [deadline EXCEPT ![lease[c]] = {}]

\* How the call of c ends, whose bytes it got, and from what kind of connection.
End(c, how, of) ==
    result' = [result EXCEPT ![c] =
                 [end |-> how, of |-> of, torn |-> lease[c] \in torn]]

\* Mutant: the reader of a closed connection is used again.
CloseSockets_KeepsReader(W) ==
    /\ sent' = [cn \in Conns |-> IF cn \in W THEN <<>> ELSE sent[cn]]
    /\ stream' = [cn \in Conns |-> IF cn \in W THEN <<>> ELSE stream[cn]]
    /\ deadline' = [cn \in Conns |-> IF cn \in W THEN {} ELSE deadline[cn]]
    /\ torn' = torn \ W
    /\ UNCHANGED buffered

\* Sockets are closed and take with them what is under way.
CloseSockets(W) ==
    /\ sent' = [cn \in Conns |-> IF cn \in W THEN <<>> ELSE sent[cn]]
    /\ stream' = [cn \in Conns |-> IF cn \in W THEN <<>> ELSE stream[cn]]
    /\ buffered' = [cn \in Conns |-> IF cn \in W THEN 0 ELSE buffered[cn]]
    /\ deadline' = [cn \in Conns |-> IF cn \in W THEN {} ELSE deadline[cn]]
    /\ torn' = torn \ W

\* removeConn, or putConn when the pool is closed or the connection expired.
removeConn(c) ==
    /\ Pool!Drop(c)
    /\ pc' = [pc EXCEPT ![c] = "idle"]
    /\ CloseSockets({lease[c]})

\* One piece is read from the connection of c.
Consume(c) ==
    /\ stream' = [stream EXCEPT ![lease[c]] = Tail(@)]
    /\ buffered' = [buffered EXCEPT ![lease[c]] = @ - 1]
    /\ UNCHANGED torn

\* To the idle pool or a waiter, with what is under way on the connection.
Keep(c) ==
    /\ \/ /\ Pool!GiveBack(c)
          /\ pc' = [pc EXCEPT ![c] = "idle"]
       \/ \E d \in Callers :
            /\ pc[d] = "acquire"
            /\ Pool!Pass(c, d)
            /\ pc' = [pc EXCEPT ![c] = "idle", ![d] = "exec"]
    /\ Disarm(c)
    /\ UNCHANGED sent

\* putConn once the last piece is read.
putConn(c) == (Keep(c) /\ Consume(c)) \/ removeConn(c)

-----------------------------------------------------------------------------
(* Do and execOn.                                                          *)

\* Do starts a call with a ctx that has a deadline or not.
Start(c) ==
    /\ pc[c] = "idle"
    /\ calls[c] < MaxCalls
    /\ calls' = [calls EXCEPT ![c] = @ + 1]
    /\ \E b \in BOOLEAN : ctxEnds' = [ctxEnds EXCEPT ![c] = b]
    /\ pc' = [pc EXCEPT ![c] = "acquire"]
    /\ End(c, "none", {})
    /\ UNCHANGED <<poolVars, first, connVars>>

\* getConn returns a new connection or an idle one.
getConn(c) ==
    /\ pc[c] = "acquire"
    /\ \/ \E cn \in Conns : Pool!Connect(c, cn) /\ UNCHANGED connVars
       \/ \E cn \in Pool!Free : \E worn \in SUBSET (Pool!Free \ {cn}) :
            Pool!Lend(c, cn, worn) /\ CloseSockets(worn)
    /\ pc' = [pc EXCEPT ![c] = "exec"]
    /\ UNCHANGED <<calls, ctxEnds, first, result>>

\* getConn fails, or the ctx is done before it.  A connection that was handed to
\* a caller which gives up goes back unused (abandonWaiter): as if it had not been.
Refused(c) ==
    /\ pc[c] = "acquire"
    /\ pc' = [pc EXCEPT ![c] = "idle"]
    /\ End(c, "failed", {})
    /\ UNCHANGED <<poolVars, calls, ctxEnds, first, connVars>>

\* effectiveDeadline finds a deadline to arm.
Bounded(c, d) == d \in Timeouts \/ ctxEnds[c]

\* Mutant: the ctx deadline only shortens a timeout there is.
Arm_NeedsTimeout(c, d) ==
    deadline' = [deadline EXCEPT ![lease[c]] = IF d \in Timeouts THEN @ \cup {d} ELSE @]

\* Arms direction d, if the call has a deadline for it; what is armed stays.
Arm(c, d) ==
    deadline' = [deadline EXCEPT ![lease[c]] = IF Bounded(c, d) THEN @ \cup {d} ELSE @]

\* execOn finds its ctx alive and arms the write deadline.
ExecOn(c) ==
    /\ pc[c] = "exec"
    /\ pc' = [pc EXCEPT ![c] = "write"]
    /\ Arm(c, "write")
    /\ UNCHANGED <<poolVars, calls, ctxEnds, first, result, sent, stream, buffered, torn>>

\* execOn finds its ctx done; the connection is discarded unused.
CtxDone(c) ==
    /\ pc[c] = "exec"
    /\ removeConn(c)
    /\ End(c, "failed", {})
    /\ UNCHANGED <<calls, ctxEnds, first>>

\* WriteCommand succeeds and the read deadline is armed.
Write(c) ==
    /\ pc[c] = "write"
    /\ pc' = [pc EXCEPT ![c] = "read"]
    /\ sent' = [sent EXCEPT ![lease[c]] = Append(@, Command(c))]
    /\ Arm(c, "read")
    /\ UNCHANGED <<poolVars, calls, ctxEnds, first, result, stream, buffered, torn>>

\* The reader asks the socket for more and gets some of what is there.
Fill(c) ==
    /\ pc[c] \in {"read", "body"}
    /\ buffered[lease[c]] = 0
    /\ \E n \in 1 .. Len(stream[lease[c]]) :
         /\ Together /\ n < Len(stream[lease[c]]) => stream[lease[c]][n + 1].of # Stray
         /\ buffered' = [buffered EXCEPT ![lease[c]] = n]
    /\ UNCHANGED <<poolVars, pc, calls, ctxEnds, first, result, sent, stream, deadline, torn>>

P(cmd, part) == [of |-> cmd, part |-> part]

Reading(c, l) == pc[c] = l /\ buffered[lease[c]] > 0
Piece(c) == Head(stream[lease[c]])

\* Mutant: Do keeps the connection of every error reply.
AfterError_KeepsAll(c) == putConn(c)

\* Do after an error reply: a connection with more in its buffer is discarded.
AfterError(c) ==
    \/ buffered[lease[c]] = 1 /\ putConn(c)
    \/ buffered[lease[c]] > 1 /\ removeConn(c)

\* ReadReply reads the first piece of what it takes for the reply.  A body that
\* is read where a reply should begin passes for one.
ReadReply(c) ==
    /\ Reading(c, "read")
    /\ \/ /\ Piece(c).part \notin {"head", "error"}
          /\ putConn(c)
          /\ End(c, "reply", {Piece(c).of})
          /\ UNCHANGED first
       \/ /\ Piece(c).part = "error"
          /\ AfterError(c)
          /\ End(c, "error", {Piece(c).of})
          /\ UNCHANGED first
       \/ /\ Piece(c).part = "head"
          /\ Consume(c)
          /\ first' = [first EXCEPT ![c] = Piece(c).of]
          /\ pc' = [pc EXCEPT ![c] = "body"]
          /\ UNCHANGED <<poolVars, result, sent, deadline>>
    /\ UNCHANGED <<calls, ctxEnds>>

\* ReadReply reads on: so many bytes or elements, whosever they are.
ReadBody(c) ==
    /\ Reading(c, "body")
    /\ putConn(c)
    /\ End(c, "reply", {first[c], Piece(c).of})
    /\ UNCHANGED <<calls, ctxEnds, first>>

\* Mutant: a command that timed out leaves its connection in the pool.
Discard_Pools(c) ==
    \/ /\ Pool!GiveBack(c)
       /\ pc' = [pc EXCEPT ![c] = "idle"]
       /\ Disarm(c)
       /\ UNCHANGED <<sent, stream, buffered, torn>>
    \/ shut /\ removeConn(c)

\* Do after a transport or protocol error.
Discard(c) == removeConn(c)

\* A deadline that is armed passes while the socket blocks.
TimedOut(c) ==
    /\ \/ pc[c] = "write" /\ "write" \in deadline[lease[c]]
       \/ /\ pc[c] \in {"read", "body"} /\ "read" \in deadline[lease[c]]
          /\ buffered[lease[c]] = 0
    /\ Discard(c)
    /\ End(c, pc[c], {})
    /\ UNCHANGED <<calls, ctxEnds, first>>

\* It passes within the last line of the reply.  readLine takes the part that has
\* arrived for the line (bufio.Reader.ReadLine drops the error), and Do puts the
\* connection back, the rest of the line yet to come: for the next call a line, or
\* something that breaks it.  Within an earlier line the next read fails.
CutShort(c) ==
    /\ pc[c] \in {"read", "body"} /\ "read" \in deadline[lease[c]]
    /\ buffered[lease[c]] = 0 /\ stream[lease[c]] # <<>>
    /\ pc[c] = "read" => Piece(c).part # "head"
    /\ \/ /\ Keep(c)
          /\ stream' = [stream EXCEPT ![lease[c]] = <<P(Piece(c).of, "line")>> \o Tail(@)]
          /\ torn' = torn \cup {lease[c]}
          /\ UNCHANGED buffered
       \/ removeConn(c)
    /\ End(c, IF Piece(c).part = "error" THEN "error" ELSE "reply",
           IF pc[c] = "body" THEN {first[c], Piece(c).of} ELSE {Piece(c).of})
    /\ UNCHANGED <<calls, ctxEnds, first>>

\* The socket or the protocol breaks, or an argument has no encoding.
Broken(c) ==
    /\ pc[c] \in {"write", "read", "body"}
    /\ Discard(c)
    /\ End(c, "failed", {})
    /\ UNCHANGED <<calls, ctxEnds, first>>

-----------------------------------------------------------------------------
(* The server, and the rest of the pool.                                   *)

\* What the server may send for cmd; a misbehaving one appends to errors.
Replies(cmd) ==
    {<<P(cmd, "line")>>, <<P(cmd, "error")>>, <<P(cmd, "head"), P(cmd, "body")>>}
    \cup (IF Conforming THEN {} ELSE {<<P(cmd, "error"), P(Stray, "line")>>})

\* The server answers the oldest command of a connection.
Serve(cn) ==
    /\ sent[cn] # <<>>
    /\ sent' = [sent EXCEPT ![cn] = Tail(@)]
    /\ \E r \in Replies(Head(sent[cn])) : stream' = [stream EXCEPT ![cn] = @ \o r]
    /\ UNCHANGED <<poolVars, pc, calls, ctxEnds, first, result, buffered, deadline, torn>>

\* Warm-up, the reaper and Close.
Background ==
    /\ \/ \E cn \in Conns : Pool!Warm(cn)
       \/ Pool!Shutdown
    /\ UNCHANGED <<pc, calls, ctxEnds, first, result, connVars>>

\* They close idle connections.
Shed ==
    /\ \E worn \in SUBSET Pool!Free :
         worn # {} /\ Pool!Shed(worn) /\ CloseSockets(worn)
    /\ UNCHANGED <<pc, calls, ctxEnds, first, result>>

-----------------------------------------------------------------------------
Do(c) ==
    \/ Start(c) \/ getConn(c) \/ Refused(c) \/ ExecOn(c) \/ CtxDone(c) \/ Write(c)
    \/ Fill(c) \/ ReadReply(c) \/ ReadBody(c) \/ TimedOut(c) \/ CutShort(c)
    \/ Broken(c)

Next ==
    \/ \E c \in Callers : Do(c)
    \/ \E cn \in Conns : Serve(cn)
    \/ Background \/ Shed

Spec == Init /\ [][Next]_vars

\* A caller is scheduled, and a deadline that is armed passes.  Nothing is
\* assumed of the server or the network.
FairSpec ==
    /\ Spec
    /\ \A c \in Callers : WF_vars(ExecOn(c) \/ CtxDone(c))
    /\ \A c \in Callers : WF_vars(Fill(c) \/ ReadReply(c) \/ ReadBody(c))
    /\ \A c \in Callers : WF_vars(TimedOut(c) \/ CutShort(c))

-----------------------------------------------------------------------------
(* Properties.                                                             *)

Commands == Callers \X (1 .. MaxCalls)
Pieces == [of : Commands \cup {Stray}, part : {"line", "error", "head", "body"}]

\* Every variable has its type.
TypeOK ==
    /\ live \subseteq Conns
    /\ lease \in [Callers -> Conns \cup {None}]
    /\ shut \in BOOLEAN
    /\ pc \in [Callers -> {"idle", "acquire", "exec", "write", "read", "body"}]
    /\ calls \in [Callers -> 0 .. MaxCalls]
    /\ ctxEnds \in [Callers -> BOOLEAN]
    /\ first \in [Callers -> Commands \cup {Stray, None}]
    /\ result \in [Callers ->
         [end : {"none", "failed", "write", "read", "body", "reply", "error"},
          of : SUBSET (Commands \cup {Stray}), torn : BOOLEAN]]
    /\ sent \in [Conns -> Seq(Commands)]
    /\ stream \in [Conns -> Seq(Pieces)]
    /\ buffered \in [Conns -> Nat]
    /\ \A cn \in Conns : buffered[cn] <= Len(stream[cn])
    /\ deadline \in [Conns -> SUBSET Directions]
    /\ torn \subseteq Conns

\* A reply answers the command it is returned for, every byte of it, whatever
\* timed out, broke or was cut short before on whichever connection, unless the
\* connection is torn ("single-reply framing", client.go 660-675).
OwnReply == \A c \in Callers : ~result[c].torn => result[c].of \subseteq {Command(c)}

\* "On transport (I/O) errors the connection is discarded" (connection-pool.md 41):
\* no call gets bytes that another call left behind.
NoForeignReply == \A c \in Callers : result[c].of \subseteq {Command(c)}

\* A call times out only if it has a deadline itself: none is left armed on a
\* connection that returns to the pool (client.go 618-620).
OwnTimeout ==
    \A c \in Callers :
        /\ result[c].end = "write" => Bounded(c, "write")
        /\ result[c].end \in {"read", "body"} => Bounded(c, "read")

\* With deadlines for both directions a call that has its connection ends,
\* even if the server never answers (client.go 598-610).
BoundedCallEnds ==
    \A c \in Callers :
        (pc[c] \in {"exec", "write", "read", "body"} /\ Bounded(c, "write") /\ Bounded(c, "read"))
            ~> pc[c] \in {"idle", "acquire"}

=============================================================================
