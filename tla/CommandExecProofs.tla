--------------------------- MODULE CommandExecProofs ---------------------------
(***************************************************************************)
(* What holds of commands and replies for any number of callers,           *)
(* connections and calls.                                                  *)
(***************************************************************************)
EXTENDS CommandExec, TLAPS

-----------------------------------------------------------------------------
(* Types, and who has which connection.                                    *)

Using == {"exec", "write", "read", "body"}

PoolTypes ==
    /\ live \subseteq Conns
    /\ lease \in [Callers -> Conns \cup {None}]
    /\ shut \in BOOLEAN
    /\ pc \in [Callers -> {"idle", "acquire", "exec", "write", "read", "body"}]

CallTypes ==
    /\ calls \in [Callers -> 0 .. MaxCalls]
    /\ ctxEnds \in [Callers -> BOOLEAN]
    /\ first \in [Callers -> Commands \cup {Stray, None}]
    /\ result \in [Callers ->
         [end : {"none", "failed", "write", "read", "body", "reply", "error"},
          of : SUBSET (Commands \cup {Stray}), torn : BOOLEAN]]

ConnTypes ==
    /\ sent \in [Conns -> Seq(Commands)]
    /\ stream \in [Conns -> Seq(Pieces)]
    /\ buffered \in [Conns -> Nat]
    /\ \A cn \in Conns : buffered[cn] <= Len(stream[cn])
    /\ deadline \in [Conns -> SUBSET Directions]
    /\ torn \subseteq Conns

\* A caller has a connection exactly while it executes, a live one of its own.
LeaseInv ==
    /\ \A c \in Callers : pc[c] \in Using <=> lease[c] # None
    /\ \A c \in Callers : lease[c] # None => lease[c] \in live
    /\ \A c, d \in Callers : lease[c] # None /\ lease[c] = lease[d] => c = d

\* Who executes has started a call, and who reads on has read a head.
StartedInv ==
    /\ \A c \in Callers : pc[c] # "idle" => calls[c] > 0
    /\ \A c \in Callers : pc[c] = "body" => first[c] \in Commands \cup {Stray}

TypeInv == PoolTypes /\ CallTypes /\ ConnTypes /\ LeaseInv /\ StartedInv

LEMMA TypeInvIsTypeOK == TypeInv => TypeOK
BY DEF TypeInv, TypeOK, PoolTypes, CallTypes, ConnTypes

LEMMA TypeInvInit == Init => TypeInv
<1> SUFFICES ASSUME Init PROVE TypeInv
  OBVIOUS
<1>1. live = {} /\ lease = [c \in Callers |-> None] /\ shut = FALSE
  BY DEF Init, Pool!Init
<1>2. PoolTypes /\ LeaseInv /\ StartedInv
  BY <1>1 DEF Init, PoolTypes, LeaseInv, StartedInv, Using
<1>3. CallTypes
  BY CallersAssumption DEF Init, CallTypes
<1>4. ConnTypes
  <2>1. Len(<<>>) = 0 /\ <<>> \in Seq(Commands) /\ <<>> \in Seq(Pieces)
    OBVIOUS
  <2> QED
    BY <2>1 DEF Init, ConnTypes
<1> QED
  BY <1>2, <1>3, <1>4 DEF TypeInv

\* Closing sockets keeps the types of connections.
LEMMA CloseTyped ==
    ASSUME ConnTypes, NEW W, CloseSockets(W)
    PROVE  ConnTypes'
<1>1. Len(<<>>) = 0 /\ <<>> \in Seq(Commands) /\ <<>> \in Seq(Pieces)
  OBVIOUS
<1> QED
  BY <1>1 DEF ConnTypes, CloseSockets

\* What is buffered is there.
LEMMA PieceTyped ==
    ASSUME ConnTypes, NEW cn \in Conns, buffered[cn] > 0
    PROVE  /\ stream[cn] # <<>> /\ Head(stream[cn]) \in Pieces
           /\ Tail(stream[cn]) \in Seq(Pieces) /\ Len(Tail(stream[cn])) = Len(stream[cn]) - 1
           /\ Len(stream[cn]) \in Nat /\ buffered[cn] - 1 \in Nat
<1>1. stream[cn] \in Seq(Pieces) /\ buffered[cn] \in Nat /\ buffered[cn] <= Len(stream[cn])
  BY DEF ConnTypes
<1>2. Len(stream[cn]) \in Nat /\ Len(stream[cn]) > 0
  BY <1>1
<1>3. stream[cn] # <<>>
  BY <1>2
<1> QED
  BY <1>1, <1>2, <1>3

\* Reading a piece keeps them, too.
LEMMA ConsumeTyped ==
    ASSUME PoolTypes, ConnTypes, NEW c \in Callers, lease[c] # None, buffered[lease[c]] > 0,
           Consume(c), sent' = sent, deadline' \in [Conns -> SUBSET Directions]
    PROVE  ConnTypes'
<1> DEFINE cn == lease[c]
<1>1. cn \in Conns
  BY DEF PoolTypes
<1>2. /\ Tail(stream[cn]) \in Seq(Pieces) /\ Len(Tail(stream[cn])) = Len(stream[cn]) - 1
      /\ Len(stream[cn]) \in Nat /\ buffered[cn] - 1 \in Nat
  BY <1>1, PieceTyped
<1>3. /\ stream' = [stream EXCEPT ![cn] = Tail(stream[cn])]
      /\ buffered' = [buffered EXCEPT ![cn] = buffered[cn] - 1]
  BY DEF Consume
<1>4. buffered[cn] <= Len(stream[cn]) /\ buffered[cn] \in Nat
  BY <1>1 DEF ConnTypes
<1>5. buffered' \in [Conns -> Nat] /\ stream' \in [Conns -> Seq(Pieces)]
  BY <1>1, <1>2, <1>3 DEF ConnTypes
<1>6. \A x \in Conns : buffered'[x] <= Len(stream'[x])
  <2> TAKE x \in Conns
  <2>1. CASE x = cn
    <3>1. buffered'[x] = buffered[cn] - 1 /\ stream'[x] = Tail(stream[cn])
      BY <1>1, <1>3, <2>1 DEF ConnTypes
    <3> QED
      BY <1>2, <1>4, <3>1
  <2>2. CASE x # cn
    BY <1>3, <2>2 DEF ConnTypes
  <2> QED
    BY <2>1, <2>2
<1>7. torn' = torn
  BY DEF Consume
<1> QED
  BY <1>5, <1>6, <1>7 DEF ConnTypes

-----------------------------------------------------------------------------
(* Moves of the pool.                                                      *)

LEMMA RemoveTyped ==
    ASSUME TypeInv, NEW c \in Callers, removeConn(c)
    PROVE  /\ PoolTypes' /\ LeaseInv' /\ ConnTypes'
           /\ \A d \in Callers : pc'[d] # "idle" => pc'[d] = pc[d]
<1>1. /\ lease[c] # None /\ live' = live \ {lease[c]} /\ shut' = shut
      /\ lease' = [lease EXCEPT ![c] = None] /\ pc' = [pc EXCEPT ![c] = "idle"]
  BY DEF removeConn, Pool!Drop
<1>2. PoolTypes' /\ LeaseInv' /\ \A d \in Callers : pc'[d] # "idle" => pc'[d] = pc[d]
  BY <1>1 DEF TypeInv, PoolTypes, LeaseInv, Using
<1>3. ConnTypes'
  BY CloseTyped DEF TypeInv, removeConn
<1> QED
  BY <1>2, <1>3

\* The connection goes to the idle pool, or to a caller that waits.
LEMMA KeepTyped ==
    ASSUME TypeInv, NEW c \in Callers, pc[c] \in {"read", "body"}, Keep(c)
    PROVE  /\ PoolTypes' /\ LeaseInv'
           /\ deadline' \in [Conns -> SUBSET Directions] /\ sent' = sent
           /\ \A d \in Callers : pc'[d] \notin {"idle", "exec"} => pc'[d] = pc[d]
           /\ \A d \in Callers : pc'[d] = "exec" => pc[d] \in {"exec", "acquire"}
<1>0. lease[c] \in Conns /\ lease[c] # None /\ lease[c] \in live /\ None \notin Conns
  BY CallersAssumption DEF TypeInv, LeaseInv, PoolTypes, Using
<1>1. deadline' \in [Conns -> SUBSET Directions] /\ sent' = sent
  BY DEF Keep, Disarm, TypeInv, ConnTypes
<1>2. CASE Pool!GiveBack(c) /\ pc' = [pc EXCEPT ![c] = "idle"]
  <2>1. lease' = [lease EXCEPT ![c] = None] /\ live' = live /\ shut' = shut
    BY <1>2 DEF Pool!GiveBack
  <2> QED
    BY <1>0, <1>1, <1>2, <2>1 DEF TypeInv, PoolTypes, LeaseInv, Using
<1>3. ASSUME NEW d \in Callers, pc[d] = "acquire", Pool!Pass(c, d),
             pc' = [pc EXCEPT ![c] = "idle", ![d] = "exec"]
      PROVE  /\ PoolTypes' /\ LeaseInv'
             /\ \A e \in Callers : pc'[e] \notin {"idle", "exec"} => pc'[e] = pc[e]
             /\ \A e \in Callers : pc'[e] = "exec" => pc[e] \in {"exec", "acquire"}
  <2>1. /\ lease' = [lease EXCEPT ![c] = None, ![d] = lease[c]]
        /\ live' = live /\ shut' = shut /\ c # d
    BY <1>3 DEF Pool!Pass
  <2>2. /\ lease'[c] = None /\ lease'[d] = lease[c]
        /\ \A e \in Callers \ {c, d} : lease'[e] = lease[e]
        /\ lease' \in [Callers -> Conns \cup {None}]
    BY <1>0, <2>1 DEF TypeInv, PoolTypes
  <2>3. /\ pc'[c] = "idle" /\ pc'[d] = "exec"
        /\ \A e \in Callers \ {c, d} : pc'[e] = pc[e]
        /\ pc' \in [Callers -> {"idle", "acquire", "exec", "write", "read", "body"}]
    BY <1>3, <2>1 DEF TypeInv, PoolTypes
  <2>4. PoolTypes'
    BY <2>1, <2>2, <2>3 DEF TypeInv, PoolTypes
  <2>5. LeaseInv'
    BY <1>0, <2>1, <2>2, <2>3 DEF TypeInv, LeaseInv, Using
  <2> QED
    BY <1>3, <2>3, <2>4, <2>5
<1> QED
  BY <1>1, <1>2, <1>3 DEF Keep

LEMMA PutTyped ==
    ASSUME TypeInv, NEW c \in Callers, pc[c] \in {"read", "body"}, buffered[lease[c]] > 0,
           putConn(c)
    PROVE  /\ PoolTypes' /\ LeaseInv' /\ ConnTypes'
           /\ \A d \in Callers : pc'[d] \notin {"idle", "exec"} => pc'[d] = pc[d]
           /\ \A d \in Callers : pc'[d] = "exec" => pc[d] \in {"exec", "acquire"}
<1>1. CASE removeConn(c)
  BY <1>1, RemoveTyped
<1>2. CASE Keep(c) /\ Consume(c)
  <2>1. lease[c] # None
    BY DEF TypeInv, LeaseInv, Using
  <2>2. ConnTypes'
    BY <1>2, <2>1, KeepTyped, ConsumeTyped DEF TypeInv
  <2> QED
    BY <1>2, <2>2, KeepTyped
<1> QED
  BY <1>1, <1>2 DEF putConn

\* getConn lends a connection nobody has.
LEMMA GetTyped ==
    ASSUME TypeInv, NEW c \in Callers, getConn(c)
    PROVE  /\ PoolTypes' /\ LeaseInv' /\ ConnTypes'
           /\ pc[c] = "acquire" /\ pc' = [pc EXCEPT ![c] = "exec"]
           /\ UNCHANGED <<calls, ctxEnds, first, result>>
<1>0. /\ pc[c] = "acquire" /\ pc' = [pc EXCEPT ![c] = "exec"] /\ None \notin Conns
      /\ UNCHANGED <<calls, ctxEnds, first, result>>
  BY CallersAssumption DEF getConn
<1>1. ASSUME NEW cn \in Conns, cn \in live', live' \subseteq Conns, shut' = shut,
             lease' = [lease EXCEPT ![c] = cn],
             \A d \in Callers : lease[d] # cn /\ (lease[d] # None => lease[d] \in live')
      PROVE  PoolTypes' /\ LeaseInv'
  BY <1>0, <1>1 DEF TypeInv, PoolTypes, LeaseInv, Using
<1>2. ASSUME NEW cn \in Conns, Pool!Connect(c, cn), UNCHANGED connVars
      PROVE  PoolTypes' /\ LeaseInv' /\ ConnTypes'
  <2>1. ConnTypes'
    BY <1>2 DEF TypeInv, ConnTypes, connVars
  <2>2. /\ cn \notin live /\ live' = live \cup {cn} /\ shut' = shut
        /\ lease' = [lease EXCEPT ![c] = cn]
    BY <1>2 DEF Pool!Connect
  <2>3. \A d \in Callers : lease[d] # cn /\ (lease[d] # None => lease[d] \in live')
    BY <1>0, <2>2 DEF TypeInv, LeaseInv
  <2> QED
    BY <1>1, <2>1, <2>2, <2>3 DEF TypeInv, PoolTypes
<1>3. ASSUME NEW cn \in Pool!Free, NEW worn \in SUBSET (Pool!Free \ {cn}),
             Pool!Lend(c, cn, worn), CloseSockets(worn)
      PROVE  PoolTypes' /\ LeaseInv' /\ ConnTypes'
  <2>1. ConnTypes'
    BY <1>3, CloseTyped DEF TypeInv
  <2>2. /\ live' = live \ worn /\ lease' = [lease EXCEPT ![c] = cn] /\ shut' = shut
        /\ cn \in live /\ cn \notin worn
        /\ \A d \in Callers : lease[d] # None => lease[d] # cn /\ lease[d] \notin worn
    BY <1>3 DEF Pool!Lend, Pool!Free, Pool!Lent
  <2>3. cn \in Conns /\ live' \subseteq Conns /\ cn \in live'
    BY <2>2 DEF TypeInv, PoolTypes
  <2>4. \A d \in Callers : lease[d] # cn /\ (lease[d] # None => lease[d] \in live')
    BY <1>0, <2>2, <2>3 DEF TypeInv, LeaseInv
  <2> QED
    BY <1>1, <2>1, <2>2, <2>3, <2>4
<1> QED
  BY <1>0, <1>2, <1>3 DEF getConn

\* Deadlines are only armed for the connection of the caller.
LEMMA ArmTyped ==
    ASSUME TypeInv, NEW c \in Callers, NEW d \in Directions, Arm(c, d)
    PROVE  deadline' \in [Conns -> SUBSET Directions]
BY DEF Arm, TypeInv, ConnTypes

\* The result of a call.
LEMMA EndTyped ==
    ASSUME TypeInv, NEW c \in Callers,
           NEW how \in {"none", "failed", "write", "read", "body", "reply", "error"},
           NEW of \in SUBSET (Commands \cup {Stray}), End(c, how, of),
           UNCHANGED <<calls, ctxEnds, first>>
    PROVE  CallTypes'
BY DEF End, TypeInv, CallTypes

-----------------------------------------------------------------------------
(* Every step keeps the types.                                             *)

LEMMA CommandTyped ==
    ASSUME TypeInv, NEW c \in Callers, pc[c] # "idle"
    PROVE  Command(c) \in Commands
<1>1. calls[c] \in 1 .. MaxCalls
  BY CallersAssumption DEF TypeInv, CallTypes, StartedInv
<1> QED
  BY <1>1 DEF Command, Commands

\* Start of a call, and the steps of one that keep its connection or have none.
LEMMA EntryTyped ==
    ASSUME TypeInv, NEW c \in Callers,
           Start(c) \/ getConn(c) \/ Refused(c) \/ ExecOn(c) \/ Write(c) \/ Fill(c)
    PROVE  TypeInv'
<1> USE DEF poolVars, connVars
<1>k. /\ pc \in [Callers -> {"idle", "acquire", "exec", "write", "read", "body"}]
      /\ PoolTypes /\ CallTypes /\ ConnTypes /\ LeaseInv /\ StartedInv
  BY DEF TypeInv, PoolTypes
<1>1. CASE Start(c)
  <2>1. CallTypes'
    <3>1. calls[c] + 1 \in 0 .. MaxCalls
      BY <1>1, <1>k, CallersAssumption DEF Start, CallTypes
    <3> QED
      BY <1>1, <1>k, <3>1 DEF Start, End, CallTypes
  <2>2. PoolTypes' /\ LeaseInv' /\ ConnTypes'
    BY <1>1, <1>k DEF Start, PoolTypes, LeaseInv, ConnTypes, Using
  <2>3. StartedInv'
    <3>1. calls[c] + 1 > 0
      BY <1>k DEF CallTypes
    <3> QED
      BY <1>1, <1>k, <3>1 DEF Start, StartedInv, CallTypes
  <2> QED
    BY <2>1, <2>2, <2>3 DEF TypeInv
<1>2. CASE getConn(c)
  <2>1. CallTypes' /\ StartedInv'
    BY <1>2, <1>k, GetTyped DEF CallTypes, StartedInv
  <2> QED
    BY <1>2, <2>1, GetTyped DEF TypeInv
<1>3. CASE Refused(c)
  <2>1. CallTypes'
    BY <1>3, EndTyped DEF Refused
  <2>2. PoolTypes' /\ LeaseInv' /\ ConnTypes' /\ StartedInv'
    BY <1>3, <1>k DEF Refused, PoolTypes, LeaseInv, ConnTypes, StartedInv, Using
  <2> QED
    BY <2>1, <2>2 DEF TypeInv
<1>4. CASE ExecOn(c)
  <2>1. deadline' \in [Conns -> SUBSET Directions]
    BY <1>4, ArmTyped DEF ExecOn, Directions
  <2>2. PoolTypes' /\ LeaseInv' /\ StartedInv'
    BY <1>4, <1>k DEF ExecOn, PoolTypes, LeaseInv, StartedInv, Using
  <2>3. CallTypes' /\ ConnTypes'
    BY <1>4, <1>k, <2>1 DEF ExecOn, CallTypes, ConnTypes
  <2> QED
    BY <2>2, <2>3 DEF TypeInv
<1>5. CASE Write(c)
  <2>1. deadline' \in [Conns -> SUBSET Directions]
    BY <1>5, ArmTyped DEF Write, Directions
  <2>2. PoolTypes' /\ LeaseInv' /\ StartedInv'
    BY <1>5, <1>k DEF Write, PoolTypes, LeaseInv, StartedInv, Using
  <2>3. lease[c] \in Conns /\ Command(c) \in Commands
    BY <1>5, <1>k, CommandTyped DEF Write, LeaseInv, PoolTypes, Using
  <2>4. Append(sent[lease[c]], Command(c)) \in Seq(Commands)
    BY <1>k, <2>3 DEF ConnTypes
  <2>5. CallTypes' /\ ConnTypes'
    BY <1>5, <1>k, <2>1, <2>4 DEF Write, CallTypes, ConnTypes
  <2> QED
    BY <2>2, <2>5 DEF TypeInv
<1>6. CASE Fill(c)
  <2>1. PICK n \in 1 .. Len(stream[lease[c]]) : buffered' = [buffered EXCEPT ![lease[c]] = n]
    BY <1>6 DEF Fill
  <2>2. lease[c] \in Conns
    BY <1>6, <1>k DEF Fill, LeaseInv, PoolTypes, Using
  <2>3. Len(stream[lease[c]]) \in Nat
    BY <1>k, <2>2 DEF ConnTypes
  <2>4. n \in Nat /\ n <= Len(stream[lease[c]])
    BY <2>3
  <2>5. UNCHANGED <<sent, stream, deadline, torn>>
    BY <1>6 DEF Fill
  <2>6. ConnTypes'
    BY <1>k, <2>1, <2>2, <2>4, <2>5 DEF ConnTypes
  <2>7. PoolTypes' /\ LeaseInv' /\ StartedInv' /\ CallTypes'
    BY <1>6, <1>k DEF Fill, PoolTypes, LeaseInv, StartedInv, CallTypes, Using
  <2> QED
    BY <2>6, <2>7 DEF TypeInv
<1> QED
  BY <1>1, <1>2, <1>3, <1>4, <1>5, <1>6

\* The steps that read a reply.
LEMMA ReadTyped ==
    ASSUME TypeInv, NEW c \in Callers, ReadReply(c) \/ ReadBody(c)
    PROVE  TypeInv'
<1>k. /\ pc \in [Callers -> {"idle", "acquire", "exec", "write", "read", "body"}]
      /\ PoolTypes /\ CallTypes /\ ConnTypes /\ LeaseInv /\ StartedInv
  BY DEF TypeInv, PoolTypes
<1>0. pc[c] \in {"read", "body"} /\ buffered[lease[c]] > 0
  BY DEF ReadReply, ReadBody, Reading
<1>1. lease[c] \in Conns /\ lease[c] # None
  BY <1>0, <1>k, CallersAssumption DEF LeaseInv, PoolTypes, Using
<1>2. Piece(c) \in Pieces /\ Piece(c).of \in Commands \cup {Stray}
  BY <1>0, <1>1, <1>k, PieceTyped DEF Piece, Pieces
<1>3. CASE putConn(c) \/ removeConn(c)
  <2>1. /\ PoolTypes' /\ LeaseInv' /\ ConnTypes'
        /\ \A d \in Callers : pc'[d] # "idle" => pc[d] # "idle"
        /\ \A d \in Callers : pc'[d] = "body" => pc[d] = "body"
    BY <1>0, <1>3, PutTyped, RemoveTyped
  <2>2. /\ \/ End(c, "reply", {Piece(c).of}) \/ End(c, "error", {Piece(c).of})
           \/ pc[c] = "body" /\ End(c, "reply", {first[c], Piece(c).of})
        /\ UNCHANGED <<calls, ctxEnds, first>>
    <3>1. \A d \in Callers : pc'[d] = "body" => pc[d] = "body"
      BY <2>1
    <3>2. ~(Piece(c).part = "head" /\ pc[c] = "read" /\ pc' = [pc EXCEPT ![c] = "body"])
      BY <1>k, <3>1
    <3> QED
      BY <3>2 DEF ReadReply, ReadBody, Reading
  <2>3. CallTypes'
    <3>1. pc[c] = "body" => first[c] \in Commands \cup {Stray}
      BY <1>k DEF StartedInv
    <3> QED
      BY <1>2, <2>2, <3>1, EndTyped
  <2>4. StartedInv'
    BY <1>k, <2>1, <2>2 DEF StartedInv
  <2> QED
    BY <2>1, <2>3, <2>4 DEF TypeInv
<1>4. CASE /\ pc[c] = "read" /\ Consume(c) /\ first' = [first EXCEPT ![c] = Piece(c).of]
           /\ pc' = [pc EXCEPT ![c] = "body"]
           /\ UNCHANGED <<poolVars, result, sent, deadline, calls, ctxEnds>>
  <2>1. ConnTypes'
    <3>1. deadline' \in [Conns -> SUBSET Directions] /\ sent' = sent
      BY <1>4, <1>k DEF ConnTypes
    <3> QED
      BY <1>0, <1>1, <1>4, <1>k, <3>1, ConsumeTyped
  <2>2. PoolTypes' /\ LeaseInv'
    BY <1>4, <1>k DEF PoolTypes, LeaseInv, Using, poolVars
  <2>3. CallTypes' /\ StartedInv'
    BY <1>2, <1>4, <1>k DEF CallTypes, StartedInv
  <2> QED
    BY <2>1, <2>2, <2>3 DEF TypeInv
<1> QED
  BY <1>3, <1>4 DEF ReadReply, ReadBody, AfterError, Reading

\* The steps that discard a connection.
LEMMA DiscardTyped ==
    ASSUME TypeInv, NEW c \in Callers, CtxDone(c) \/ TimedOut(c) \/ Broken(c)
    PROVE  TypeInv'
<1>1. removeConn(c) /\ UNCHANGED <<calls, ctxEnds, first>>
  BY DEF CtxDone, TimedOut, Broken, Discard
<1>2. \E how \in {"failed", "write", "read", "body"} : End(c, how, {})
  BY DEF CtxDone, TimedOut, Broken
<1>3. CallTypes'
  BY <1>1, <1>2, EndTyped
<1>4. StartedInv'
  BY <1>1, RemoveTyped DEF TypeInv, StartedInv
<1> QED
  BY <1>1, <1>3, <1>4, RemoveTyped DEF TypeInv

\* A reply that is cut short.
LEMMA CutTyped ==
    ASSUME TypeInv, NEW c \in Callers, CutShort(c)
    PROVE  TypeInv'
<1>k. PoolTypes /\ CallTypes /\ ConnTypes /\ LeaseInv /\ StartedInv
  BY DEF TypeInv
<1>0. /\ pc[c] \in {"read", "body"} /\ stream[lease[c]] # <<>> /\ buffered[lease[c]] = 0
      /\ UNCHANGED <<calls, ctxEnds, first>>
  BY DEF CutShort
<1>1. lease[c] \in Conns /\ lease[c] # None
  BY <1>0, <1>k, CallersAssumption DEF LeaseInv, PoolTypes, Using
<1>2. /\ Piece(c) \in Pieces /\ Tail(stream[lease[c]]) \in Seq(Pieces)
      /\ stream[lease[c]] = <<Piece(c)>> \o Tail(stream[lease[c]])
  BY <1>0, <1>1, <1>k DEF Piece, ConnTypes
<1>3. /\ Piece(c).of \in Commands \cup {Stray} /\ P(Piece(c).of, "line") \in Pieces
      /\ pc[c] = "body" => first[c] \in Commands \cup {Stray}
  BY <1>2, <1>k DEF Pieces, P, StartedInv
<1>4. CallTypes'
  <2>1. PICK how \in {"reply", "error"}, of \in SUBSET (Commands \cup {Stray}) : End(c, how, of)
    BY <1>3 DEF CutShort
  <2> QED
    BY <1>0, <2>1, EndTyped
<1>5. CASE removeConn(c)
  BY <1>0, <1>4, <1>5, <1>k, RemoveTyped DEF TypeInv, StartedInv
<1>6. CASE Keep(c) /\ ~removeConn(c)
  <2>1. /\ stream' = [stream EXCEPT ![lease[c]] =
                         <<P(Piece(c).of, "line")>> \o Tail(stream[lease[c]])]
        /\ torn' = torn \cup {lease[c]} /\ buffered' = buffered
    BY <1>6 DEF CutShort
  <2>2. /\ <<P(Piece(c).of, "line")>> \o Tail(stream[lease[c]]) \in Seq(Pieces)
        /\ Len(<<P(Piece(c).of, "line")>> \o Tail(stream[lease[c]])) \in Nat
    BY <1>2, <1>3
  <2>3. ConnTypes'
    <3>1. stream' \in [Conns -> Seq(Pieces)]
      BY <1>1, <1>k, <2>1, <2>2 DEF ConnTypes
    <3>2. \A cn \in Conns : buffered'[cn] <= Len(stream'[cn])
      BY <1>0, <1>1, <1>k, <2>1, <2>2 DEF ConnTypes
    <3> QED
      BY <1>0, <1>1, <1>6, <1>k, <2>1, <3>1, <3>2, KeepTyped DEF ConnTypes
  <2>4. StartedInv'
    BY <1>0, <1>6, <1>k, KeepTyped DEF StartedInv
  <2> QED
    BY <1>0, <1>4, <1>6, <2>3, <2>4, KeepTyped DEF TypeInv
<1> QED
  BY <1>5, <1>6 DEF CutShort

\* The server and the rest of the pool.
LEMMA WorldTyped ==
    ASSUME TypeInv, (\E cn \in Conns : Serve(cn)) \/ Background \/ Shed
    PROVE  TypeInv'
<1>k. PoolTypes /\ CallTypes /\ ConnTypes /\ LeaseInv /\ StartedInv
  BY DEF TypeInv
<1>1. ASSUME NEW cn \in Conns, Serve(cn)
      PROVE  TypeInv'
  <2>1. PICK r \in Replies(Head(sent[cn])) : stream' = [stream EXCEPT ![cn] = @ \o r]
    BY <1>1 DEF Serve
  <2>2. sent[cn] # <<>> /\ sent' = [sent EXCEPT ![cn] = Tail(sent[cn])]
        /\ UNCHANGED <<poolVars, pc, calls, ctxEnds, first, result, buffered, deadline, torn>>
    BY <1>1 DEF Serve
  <2>3. Head(sent[cn]) \in Commands /\ Tail(sent[cn]) \in Seq(Commands)
    BY <1>k, <2>2 DEF ConnTypes
  <2>4. r \in Seq(Pieces)
    <3>1. /\ \A part \in {"line", "error", "head", "body"} : P(Head(sent[cn]), part) \in Pieces
          /\ P(Stray, "line") \in Pieces
      BY <2>3 DEF P, Pieces
    <3>2. \A x, y \in Pieces : <<x>> \in Seq(Pieces) /\ <<x, y>> \in Seq(Pieces)
      OBVIOUS
    <3>3. \/ \E x \in Pieces : r = <<x>>
          \/ \E x, y \in Pieces : r = <<x, y>>
      BY <3>1 DEF Replies
    <3> QED
      BY <3>2, <3>3
  <2>5. /\ stream[cn] \o r \in Seq(Pieces)
        /\ Len(stream[cn] \o r) = Len(stream[cn]) + Len(r)
        /\ Len(r) \in Nat /\ Len(stream[cn]) \in Nat
    BY <1>k, <2>4 DEF ConnTypes
  <2>6. buffered[cn] <= Len(stream[cn] \o r) /\ buffered[cn] \in Nat
    BY <1>k, <2>5 DEF ConnTypes
  <2>7. ConnTypes'
    BY <1>k, <2>1, <2>2, <2>3, <2>5, <2>6 DEF ConnTypes
  <2>8. PoolTypes' /\ LeaseInv' /\ StartedInv' /\ CallTypes'
    BY <1>k, <2>2 DEF PoolTypes, LeaseInv, StartedInv, CallTypes, Using, poolVars
  <2> QED
    BY <2>7, <2>8 DEF TypeInv
<1>2. CASE Background
  <2>1. /\ lease' = lease /\ live \subseteq live' /\ live' \subseteq Conns /\ shut' \in BOOLEAN
        /\ UNCHANGED <<pc, calls, ctxEnds, first, result, connVars>>
    BY <1>2, <1>k DEF Background, Pool!Warm, Pool!Shutdown, PoolTypes
  <2> QED
    BY <1>k, <2>1 DEF TypeInv, PoolTypes, CallTypes, ConnTypes, LeaseInv, StartedInv, Using,
                      connVars
<1>3. CASE Shed
  <2>1. PICK worn \in SUBSET Pool!Free : Pool!Shed(worn) /\ CloseSockets(worn)
    BY <1>3 DEF Shed
  <2>2. ConnTypes'
    BY <1>k, <2>1, CloseTyped
  <2>3. /\ lease' = lease /\ shut' = shut /\ live' = live \ worn
        /\ UNCHANGED <<pc, calls, ctxEnds, first, result>>
        /\ \A c \in Callers : lease[c] # None => lease[c] \notin worn
    BY <1>3, <2>1 DEF Shed, Pool!Shed, Pool!Free, Pool!Lent
  <2>4. PoolTypes' /\ LeaseInv' /\ StartedInv' /\ CallTypes'
    BY <1>k, <2>3 DEF PoolTypes, LeaseInv, StartedInv, CallTypes, Using
  <2> QED
    BY <2>2, <2>4 DEF TypeInv
<1> QED
  BY <1>1, <1>2, <1>3

LEMMA TypeInvStep == TypeInv /\ [Next]_vars => TypeInv'
<1> SUFFICES ASSUME TypeInv, [Next]_vars PROVE TypeInv'
  OBVIOUS
<1>1. CASE UNCHANGED vars
  BY <1>1 DEF vars, poolVars, connVars, TypeInv, PoolTypes, CallTypes, ConnTypes, LeaseInv,
              StartedInv, Using
<1> QED
  BY <1>1, EntryTyped, ReadTyped, DiscardTyped, CutTyped, WorldTyped DEF Next, Do

LEMMA TypeInvAlways == Spec => []TypeInv
BY TypeInvInit, TypeInvStep, PTL DEF Spec

\* Every variable keeps its type (TypeOK): in particular the reader never holds
\* more than its own connection sent, however often connections are reused.
THEOREM CommandTypeCorrect == Spec => []TypeOK
BY TypeInvAlways, TypeInvIsTypeOK, PTL

-----------------------------------------------------------------------------
(* How a connection changes hands.                                         *)

Unused(cn) == \A c \in Callers : lease[c] # cn

\* Nothing happens on cn.
Untouched(cn) ==
    /\ sent'[cn] = sent[cn] /\ stream'[cn] = stream[cn] /\ buffered'[cn] = buffered[cn]
    /\ deadline'[cn] = deadline[cn] /\ (cn \in torn' <=> cn \in torn)

\* The socket of cn is closed.
Closed(cn) ==
    /\ sent'[cn] = <<>> /\ stream'[cn] = <<>> /\ buffered'[cn] = 0
    /\ deadline'[cn] = {} /\ cn \notin torn'

LEMMA CloseMoves ==
    ASSUME TypeInv, NEW W, CloseSockets(W), NEW cn \in Conns
    PROVE  IF cn \in W THEN Closed(cn) ELSE Untouched(cn)
BY DEF CloseSockets, Closed, Untouched

LEMMA RemoveMoves ==
    ASSUME TypeInv, NEW c \in Callers, removeConn(c)
    PROVE  /\ pc'[c] = "idle" /\ lease'[c] = None
           /\ \A d \in Callers \ {c} : pc'[d] = pc[d] /\ lease'[d] = lease[d]
           /\ \A d \in Callers \ {c} : lease[d] # None => lease[d] # lease[c]
           /\ \A cn \in Conns : Unused(cn)' => Unused(cn) \/ cn = lease[c]
           /\ \A cn \in Conns \ {lease[c]} : Untouched(cn)
           /\ lease[c] \in Conns /\ Closed(lease[c])
<1>1. /\ lease[c] # None /\ lease' = [lease EXCEPT ![c] = None]
      /\ pc' = [pc EXCEPT ![c] = "idle"] /\ CloseSockets({lease[c]})
  BY DEF removeConn, Pool!Drop
<1>2. /\ pc'[c] = "idle" /\ lease'[c] = None /\ lease[c] \in Conns
      /\ \A d \in Callers \ {c} : pc'[d] = pc[d] /\ lease'[d] = lease[d]
      /\ \A d \in Callers \ {c} : lease[d] # None => lease[d] # lease[c]
  BY <1>1 DEF TypeInv, PoolTypes, LeaseInv
<1>3. \A cn \in Conns : Unused(cn)' => Unused(cn) \/ cn = lease[c]
  BY <1>2 DEF Unused
<1>4. (\A cn \in Conns \ {lease[c]} : Untouched(cn)) /\ Closed(lease[c])
  BY <1>1, <1>2, CloseMoves
<1> QED
  BY <1>2, <1>3, <1>4

\* The connection goes to the idle pool, or to a caller that waits.
LEMMA KeepMoves ==
    ASSUME TypeInv, NEW c \in Callers, pc[c] \in Using, Keep(c)
    PROVE  /\ lease[c] \in Conns /\ pc'[c] = "idle" /\ lease'[c] = None
           /\ \A d \in Callers \ {c} :
                \/ pc'[d] = pc[d] /\ lease'[d] = lease[d]
                \/ pc[d] = "acquire" /\ pc'[d] = "exec" /\ lease'[d] = lease[c]
           /\ \A d \in Callers \ {c} : lease[d] # None => lease[d] # lease[c]
           /\ \A cn \in Conns : Unused(cn)' => Unused(cn) \/ cn = lease[c]
           /\ sent' = sent /\ deadline'[lease[c]] = {}
           /\ \A cn \in Conns \ {lease[c]} : deadline'[cn] = deadline[cn]
<1>1. /\ lease[c] \in Conns /\ None \notin Conns
      /\ \A d \in Callers \ {c} : lease[d] # None => lease[d] # lease[c]
  BY CallersAssumption DEF TypeInv, PoolTypes, LeaseInv
<1>2. /\ sent' = sent /\ deadline'[lease[c]] = {}
      /\ \A cn \in Conns \ {lease[c]} : deadline'[cn] = deadline[cn]
  BY <1>1 DEF Keep, Disarm, TypeInv, ConnTypes
<1>3. CASE Pool!GiveBack(c) /\ pc' = [pc EXCEPT ![c] = "idle"]
  <2>1. lease' = [lease EXCEPT ![c] = None]
    BY <1>3 DEF Pool!GiveBack
  <2>2. /\ pc'[c] = "idle" /\ lease'[c] = None
        /\ \A d \in Callers \ {c} : pc'[d] = pc[d] /\ lease'[d] = lease[d]
    BY <1>3, <2>1 DEF TypeInv, PoolTypes
  <2> QED
    BY <1>1, <1>2, <2>2 DEF Unused
<1>4. ASSUME NEW e \in Callers, pc[e] = "acquire", Pool!Pass(c, e),
             pc' = [pc EXCEPT ![c] = "idle", ![e] = "exec"]
      PROVE  /\ pc'[c] = "idle" /\ lease'[c] = None
             /\ \A d \in Callers \ {c} :
                  \/ pc'[d] = pc[d] /\ lease'[d] = lease[d]
                  \/ pc[d] = "acquire" /\ pc'[d] = "exec" /\ lease'[d] = lease[c]
             /\ \A cn \in Conns : Unused(cn)' => Unused(cn) \/ cn = lease[c]
  <2>1. lease' = [lease EXCEPT ![c] = None, ![e] = lease[c]] /\ c # e
        /\ lease[e] = None
    BY <1>4 DEF Pool!Pass
  <2>2. /\ pc'[c] = "idle" /\ lease'[c] = None /\ pc'[e] = "exec" /\ lease'[e] = lease[c]
        /\ \A d \in Callers \ {c, e} : pc'[d] = pc[d] /\ lease'[d] = lease[d]
    BY <1>4, <2>1 DEF TypeInv, PoolTypes
  <2>3. \A cn \in Conns : Unused(cn)' => Unused(cn) \/ cn = lease[c]
    BY <1>1, <2>1, <2>2 DEF Unused
  <2> QED
    BY <1>4, <2>2, <2>3
<1> QED
  BY <1>1, <1>2, <1>3, <1>4 DEF Keep

\* Its last piece is read.
LEMMA ConsumeMoves ==
    ASSUME TypeInv, NEW c \in Callers, lease[c] \in Conns, Consume(c)
    PROVE  /\ stream'[lease[c]] = Tail(stream[lease[c]]) /\ torn' = torn
           /\ \A cn \in Conns \ {lease[c]} :
                stream'[cn] = stream[cn] /\ buffered'[cn] = buffered[cn]
BY DEF Consume, TypeInv, ConnTypes

\* It is read in part.
LEMMA CutMoves ==
    ASSUME TypeInv, NEW c \in Callers, CutShort(c), ~removeConn(c)
    PROVE  /\ Keep(c) /\ pc[c] \in Using /\ lease[c] \in torn'
           /\ \A cn \in Conns \ {lease[c]} :
                /\ stream'[cn] = stream[cn] /\ buffered'[cn] = buffered[cn]
                /\ cn \in torn' <=> cn \in torn
BY DEF CutShort, Using, TypeInv, ConnTypes

\* getConn gives c a connection that nobody uses, as it is, or a new one.
LEMMA GetMoves ==
    ASSUME TypeInv, NEW c \in Callers, getConn(c)
    PROVE  /\ pc'[c] = "exec" /\ lease'[c] \in Conns /\ Unused(lease'[c])
           /\ \A d \in Callers \ {c} : pc'[d] = pc[d] /\ lease'[d] = lease[d]
           /\ \A cn \in Conns : Unused(cn)' => Unused(cn)
           /\ \A cn \in Conns : Untouched(cn) \/ (Closed(cn) /\ Unused(cn))
<1>0. /\ pc[c] = "acquire" /\ pc' = [pc EXCEPT ![c] = "exec"] /\ lease[c] = None
      /\ None \notin Conns
  BY CallersAssumption DEF getConn, TypeInv, LeaseInv, Using
<1>1. \E cn \in Conns : lease' = [lease EXCEPT ![c] = cn] /\ Unused(cn)
  <2>1. ASSUME NEW cn \in Conns, Pool!Connect(c, cn)
        PROVE  lease' = [lease EXCEPT ![c] = cn] /\ Unused(cn)
    BY <1>0, <2>1 DEF Pool!Connect, Unused, TypeInv, LeaseInv
  <2>2. ASSUME NEW cn \in Pool!Free, NEW worn, Pool!Lend(c, cn, worn)
        PROVE  cn \in Conns /\ lease' = [lease EXCEPT ![c] = cn] /\ Unused(cn)
    <3>1. cn \in Conns
      BY DEF Pool!Free, TypeInv, PoolTypes
    <3> QED
      BY <1>0, <2>2, <3>1 DEF Pool!Lend, Pool!Free, Pool!Lent, Unused
  <2> QED
    BY <2>1, <2>2 DEF getConn
<1>2. /\ pc'[c] = "exec" /\ lease'[c] \in Conns /\ Unused(lease'[c])
      /\ \A d \in Callers \ {c} : pc'[d] = pc[d] /\ lease'[d] = lease[d]
  BY <1>0, <1>1 DEF TypeInv, PoolTypes
<1>3. \A cn \in Conns : Unused(cn)' => Unused(cn)
  BY <1>0, <1>2 DEF Unused
<1>4. \A cn \in Conns : Untouched(cn) \/ (Closed(cn) /\ Unused(cn))
  <2>1. CASE UNCHANGED connVars
    BY <2>1 DEF connVars, Untouched
  <2>2. ASSUME NEW worn \in SUBSET Pool!Free, CloseSockets(worn), NEW cn \in Conns
        PROVE  Untouched(cn) \/ (Closed(cn) /\ Unused(cn))
    <3>1. cn \in worn => Unused(cn)
      BY <1>0 DEF Pool!Free, Pool!Lent, Unused
    <3> QED
      BY <2>2, <3>1, CloseMoves
  <2> QED
    BY <2>1, <2>2 DEF getConn
<1> QED
  BY <1>2, <1>3, <1>4

\* The pool's own steps.
LEMMA PoolMoves ==
    ASSUME TypeInv, Background \/ Shed
    PROVE  /\ UNCHANGED <<lease, pc, calls, ctxEnds, first, result>>
           /\ \A cn \in Conns : Untouched(cn) \/ (Closed(cn) /\ Unused(cn))
<1>1. CASE Background
  BY <1>1 DEF Background, Pool!Warm, Pool!Shutdown, connVars, Untouched
<1>2. CASE Shed
  <2>1. PICK worn \in SUBSET Pool!Free : Pool!Shed(worn) /\ CloseSockets(worn)
    BY <1>2 DEF Shed
  <2>2. \A cn \in Conns : cn \in worn => Unused(cn)
    BY CallersAssumption DEF Pool!Free, Pool!Lent, Unused
  <2>3. \A cn \in Conns : Untouched(cn) \/ (Closed(cn) /\ Unused(cn))
    BY <2>1, <2>2, CloseMoves
  <2> QED
    BY <1>2, <2>1, <2>3 DEF Shed, Pool!Shed
<1> QED
  BY <1>1, <1>2

-----------------------------------------------------------------------------
(* Deadlines.                                                              *)

\* What is armed on a connection is a deadline of the caller that has it.
OwnDeadlines ==
    /\ \A cn \in Conns : Unused(cn) => deadline[cn] = {}
    /\ \A c \in Callers : lease[c] # None => \A d \in deadline[lease[c]] : Bounded(c, d)

DeadlineInv == OwnDeadlines /\ OwnTimeout

\* A step of c that ends its use of the connection.
LEMMA LetGoDisarms ==
    ASSUME TypeInv, OwnDeadlines, NEW c \in Callers, pc[c] \in Using,
           Keep(c) \/ removeConn(c), ctxEnds' = ctxEnds
    PROVE  OwnDeadlines'
<1>0. lease[c] \in Conns /\ None \notin Conns
  BY CallersAssumption DEF TypeInv, LeaseInv, PoolTypes
<1>p. lease \in [Callers -> Conns \cup {None}]
  BY DEF TypeInv, PoolTypes
<1>1. CASE removeConn(c)
  <2>1. \A cn \in Conns : Unused(cn)' => deadline'[cn] = {}
    BY <1>1, RemoveMoves DEF OwnDeadlines, Untouched, Closed
  <2>2. \A e \in Callers : lease'[e] # None => \A d \in deadline'[lease'[e]] : Bounded(e, d)'
    BY <1>1, <1>p, RemoveMoves DEF OwnDeadlines, Bounded, Untouched
  <2> QED
    BY <2>1, <2>2 DEF OwnDeadlines
<1>2. CASE Keep(c)
  <2>1. \A cn \in Conns : Unused(cn)' => deadline'[cn] = {}
    BY <1>2, KeepMoves DEF OwnDeadlines
  <2>2. \A e \in Callers : lease'[e] # None => \A d \in deadline'[lease'[e]] : Bounded(e, d)'
    <3> TAKE e \in Callers
    <3>1. CASE e = c
      BY <1>2, <3>1, KeepMoves
    <3>2. CASE e # c /\ lease'[e] = lease[e]
      BY <1>2, <1>p, <3>2, KeepMoves DEF OwnDeadlines, Bounded
    <3>3. CASE e # c /\ lease'[e] = lease[c]
      BY <1>2, <3>3, KeepMoves
    <3> QED
      BY <1>2, <3>1, <3>2, <3>3, KeepMoves
  <2> QED
    BY <2>1, <2>2 DEF OwnDeadlines
<1> QED
  BY <1>1, <1>2

LEMMA OwnDeadlinesStep ==
    ASSUME TypeInv, OwnDeadlines, [Next]_vars
    PROVE  OwnDeadlines'
<1>p. /\ lease \in [Callers -> Conns \cup {None}] /\ None \notin Conns
      /\ \A c, d \in Callers : lease[c] # None /\ lease[c] = lease[d] => c = d
      /\ \A c \in Callers : pc[c] \in Using <=> lease[c] # None
      /\ ctxEnds \in [Callers -> BOOLEAN] /\ deadline \in [Conns -> SUBSET Directions]
  BY CallersAssumption DEF TypeInv, PoolTypes, LeaseInv, CallTypes, ConnTypes
\* Neither deadlines nor leases change.
<1>s. CASE UNCHANGED <<lease, deadline, ctxEnds>>
  BY <1>s DEF OwnDeadlines, Unused, Bounded
<1>1. ASSUME NEW c \in Callers, Start(c)
      PROVE  OwnDeadlines'
  <2>1. UNCHANGED <<lease, deadline>> /\ lease[c] = None
    BY <1>1, <1>p DEF Start, poolVars, connVars, Using
  <2>2. \A e \in Callers \ {c} : ctxEnds'[e] = ctxEnds[e]
    BY <1>1, <1>p DEF Start
  <2> QED
    BY <2>1, <2>2 DEF OwnDeadlines, Unused, Bounded
<1>2. ASSUME NEW c \in Callers, getConn(c)
      PROVE  OwnDeadlines'
  <2>1. ctxEnds' = ctxEnds
    BY <1>2 DEF getConn
  <2>2. \A cn \in Conns : Unused(cn)' => deadline'[cn] = {}
    BY <1>2, GetMoves DEF OwnDeadlines, Untouched, Closed
  <2>3. \A e \in Callers : lease'[e] # None => \A d \in deadline'[lease'[e]] : Bounded(e, d)'
    <3> TAKE e \in Callers
    <3>1. CASE e = c
      BY <1>2, <3>1, GetMoves DEF OwnDeadlines, Untouched, Closed
    <3>2. CASE e # c
      BY <1>2, <1>p, <2>1, <3>2, GetMoves DEF OwnDeadlines, Bounded, Untouched, Unused
    <3> QED
      BY <3>1, <3>2
  <2> QED
    BY <2>2, <2>3 DEF OwnDeadlines
<1>3. ASSUME NEW c \in Callers, NEW d \in Directions, Arm(c, d), pc[c] \in Using,
             UNCHANGED <<lease, ctxEnds>>
      PROVE  OwnDeadlines'
  <2>1. /\ lease[c] \in Conns /\ \A cn \in Conns \ {lease[c]} : deadline'[cn] = deadline[cn]
        /\ \A x \in deadline'[lease[c]] : x \in deadline[lease[c]] \/ Bounded(c, x)
    BY <1>3, <1>p DEF Arm
  <2>2. \A cn \in Conns : Unused(cn)' => deadline'[cn] = {}
    BY <1>3, <2>1 DEF OwnDeadlines, Unused
  <2>3. \A e \in Callers : lease'[e] # None => \A x \in deadline'[lease'[e]] : Bounded(e, x)'
    BY <1>3, <1>p, <2>1 DEF OwnDeadlines, Bounded
  <2> QED
    BY <2>2, <2>3 DEF OwnDeadlines
<1>4. ASSUME NEW c \in Callers, ExecOn(c) \/ Write(c)
      PROVE  OwnDeadlines'
  BY <1>3, <1>4 DEF ExecOn, Write, Using, Directions, poolVars
<1>5. ASSUME NEW c \in Callers,
             Refused(c) \/ Fill(c) \/ CtxDone(c) \/ TimedOut(c) \/ Broken(c)
             \/ ReadReply(c) \/ ReadBody(c) \/ CutShort(c)
      PROVE  OwnDeadlines'
  <2>1. \/ UNCHANGED <<lease, deadline, ctxEnds>>
        \/ pc[c] \in Using /\ (Keep(c) \/ removeConn(c)) /\ ctxEnds' = ctxEnds
    BY <1>5 DEF Refused, Fill, CtxDone, TimedOut, Broken, ReadReply, ReadBody, Discard,
                AfterError, CutShort, putConn, Reading, Using, poolVars, connVars
  <2> QED
    BY <1>s, <2>1, LetGoDisarms
<1>6. ASSUME NEW cn \in Conns, Serve(cn)
      PROVE  OwnDeadlines'
  BY <1>6, <1>s DEF Serve, poolVars
<1>7. CASE Background \/ Shed
  BY <1>7, <1>p, PoolMoves DEF OwnDeadlines, Unused, Bounded, Untouched, Closed
<1>8. CASE UNCHANGED vars
  BY <1>8, <1>s DEF vars, poolVars, connVars
<1> QED
  BY <1>1, <1>2, <1>4, <1>5, <1>6, <1>7, <1>8 DEF Next, Do

LEMMA OwnTimeoutStep ==
    ASSUME TypeInv, DeadlineInv, [Next]_vars
    PROVE  OwnTimeout'
<1>p. /\ ctxEnds \in [Callers -> BOOLEAN] /\ OwnDeadlines /\ OwnTimeout
      /\ DOMAIN result = Callers
      /\ \A c \in Callers : pc[c] \in Using <=> lease[c] # None
  BY DEF TypeInv, CallTypes, LeaseInv, DeadlineInv
<1>s. CASE UNCHANGED <<ctxEnds, result>>
  BY <1>p, <1>s DEF OwnTimeout, Bounded
\* A call ends in another way.
<1>e. ASSUME NEW c \in Callers, NEW how \in {"none", "failed", "reply", "error"}, NEW of,
             End(c, how, of), \A e \in Callers \ {c} : ctxEnds'[e] = ctxEnds[e]
      PROVE  OwnTimeout'
  <2>1. result'[c].end = how /\ \A e \in Callers \ {c} : result'[e] = result[e]
    BY <1>e, <1>p DEF End
  <2>2. result'[c].end \notin {"write", "read", "body"}
    BY <2>1
  <2> QED
    BY <1>e, <1>p, <2>1, <2>2 DEF OwnTimeout, Bounded
<1>1. ASSUME NEW c \in Callers, Start(c) \/ Refused(c) \/ CtxDone(c) \/ Broken(c)
      PROVE  OwnTimeout'
  BY <1>1, <1>e, <1>p DEF Start, Refused, CtxDone, Broken
<1>2. ASSUME NEW c \in Callers, ReadReply(c) \/ ReadBody(c) \/ CutShort(c)
      PROVE  OwnTimeout'
  BY <1>2, <1>e, <1>s DEF ReadReply, ReadBody, CutShort
<1>3. ASSUME NEW c \in Callers, getConn(c) \/ ExecOn(c) \/ Write(c) \/ Fill(c)
      PROVE  OwnTimeout'
  BY <1>3, <1>s DEF getConn, ExecOn, Write, Fill
<1>4. ASSUME NEW c \in Callers, TimedOut(c)
      PROVE  OwnTimeout'
  <2>1. /\ \/ pc[c] = "write" /\ "write" \in deadline[lease[c]]
           \/ pc[c] \in {"read", "body"} /\ "read" \in deadline[lease[c]]
        /\ End(c, pc[c], {}) /\ ctxEnds' = ctxEnds
    BY <1>4 DEF TimedOut
  <2>2. lease[c] # None
    BY <1>p, <2>1 DEF Using
  <2>3. /\ pc[c] = "write" => Bounded(c, "write")
        /\ pc[c] \in {"read", "body"} => Bounded(c, "read")
    BY <1>p, <2>1, <2>2 DEF OwnDeadlines
  <2>4. result'[c].end = pc[c] /\ \A e \in Callers \ {c} : result'[e] = result[e]
    BY <1>p, <2>1 DEF End
  <2> QED
    BY <1>p, <2>1, <2>3, <2>4 DEF OwnTimeout, Bounded
<1>5. CASE (\E cn \in Conns : Serve(cn)) \/ Background \/ Shed \/ UNCHANGED vars
  BY <1>5, <1>s DEF Serve, Background, Shed, vars
<1> QED
  BY <1>1, <1>2, <1>3, <1>4, <1>5 DEF Next, Do

\* A call times out only if it has a deadline itself (OwnTimeout): none is left
\* armed on a connection that goes back to the pool or to a waiter.
THEOREM OwnTimeoutAlways == Spec => []OwnTimeout
<1>1. Init => DeadlineInv
  BY DEF Init, Pool!Init, DeadlineInv, OwnDeadlines, OwnTimeout, Unused
<1>2. TypeInv /\ DeadlineInv /\ [Next]_vars => DeadlineInv'
  BY OwnDeadlinesStep, OwnTimeoutStep DEF DeadlineInv
<1>3. DeadlineInv => OwnTimeout
  BY DEF DeadlineInv
<1> QED
  BY <1>1, <1>2, <1>3, TypeInvAlways, PTL DEF Spec

-----------------------------------------------------------------------------
(* Framing, on connections that are not torn.                              *)

Quiet(cn) == sent[cn] = <<>> /\ stream[cn] = <<>>

\* The reply to cmd, or an error with more behind it, of which a read gets all.
WholeReply(cmd, cn) ==
    \/ stream[cn] \in {<<P(cmd, "line")>>, <<P(cmd, "error")>>,
                       <<P(cmd, "head"), P(cmd, "body")>>}
    \/ /\ stream[cn] = <<P(cmd, "error"), P(Stray, "line")>> /\ buffered[cn] \in {0, 2}
       /\ Together

\* What is under way on the connection of c is the exchange of its command: the
\* command, or its reply, or the rest of its reply.
Exchange(c) ==
    lease[c] \notin torn =>
      /\ pc[c] \in {"exec", "write"} => Quiet(lease[c])
      /\ pc[c] = "read" =>
           \/ sent[lease[c]] = <<Command(c)>> /\ stream[lease[c]] = <<>>
           \/ sent[lease[c]] = <<>> /\ WholeReply(Command(c), lease[c])
      /\ pc[c] = "body" =>
           /\ sent[lease[c]] = <<>> /\ stream[lease[c]] = <<P(Command(c), "body")>>
           /\ first[c] = Command(c)

\* On a connection nobody uses nothing is.
Framing ==
    /\ \A cn \in Conns : Unused(cn) => cn \in torn \/ Quiet(cn)
    /\ \A c \in Callers : Exchange(c)

FramingInv == Framing /\ OwnReply

\* What a server appends to an error is seen with it.
Server == Conforming \/ Together

\* Nothing happens on cn but for deadlines.
SameWire(cn) ==
    /\ sent'[cn] = sent[cn] /\ stream'[cn] = stream[cn] /\ buffered'[cn] = buffered[cn]
    /\ cn \in torn' <=> cn \in torn

\* An exchange that nobody touches.
LEMMA SameExchange ==
    ASSUME NEW c \in Callers, Exchange(c), pc'[c] = pc[c], lease'[c] = lease[c],
           pc[c] \in Using => SameWire(lease[c]),
           calls'[c] = calls[c], first'[c] = first[c]
    PROVE  Exchange(c)'
BY DEF Exchange, WholeReply, Quiet, Command, Using, SameWire

\* c lets go of a connection whose last piece it has read, or which is torn, or
\* closes it.
LEMMA LetGoQuiet ==
    ASSUME TypeInv, Framing, NEW c \in Callers, pc[c] \in Using,
           \/ removeConn(c)
           \/ /\ Keep(c)
              /\ \A cn \in Conns \ {lease[c]} : SameWire(cn)
              /\ \/ lease[c] \in torn'
                 \/ sent[lease[c]] = <<>> /\ stream'[lease[c]] = <<>>,
           UNCHANGED <<calls, first>>
    PROVE  Framing'
<1>p. /\ lease \in [Callers -> Conns \cup {None}] /\ None \notin Conns
      /\ \A d \in Callers : pc[d] \in Using <=> lease[d] # None
  BY CallersAssumption DEF TypeInv, PoolTypes, LeaseInv
<1>1. CASE removeConn(c)
  <2>1. \A cn \in Conns : Unused(cn)' => cn \in torn' \/ Quiet(cn)'
    BY <1>1, RemoveMoves DEF Framing, Quiet, Untouched, Closed
  <2>2. ASSUME NEW e \in Callers
        PROVE  Exchange(e)'
    <3>1. CASE e = c
      BY <1>1, <3>1, RemoveMoves DEF Exchange
    <3>2. CASE e # c
      <4>1. /\ pc'[e] = pc[e] /\ lease'[e] = lease[e]
            /\ pc[e] \in Using => lease[e] \in Conns /\ lease[e] # lease[c]
        BY <1>1, <1>p, <3>2, RemoveMoves
      <4>2. pc[e] \in Using => SameWire(lease[e])
        BY <1>1, <4>1, RemoveMoves DEF Untouched, SameWire
      <4> QED
        BY <4>1, <4>2, SameExchange DEF Framing
    <3> QED
      BY <3>1, <3>2
  <2> QED
    BY <2>1, <2>2 DEF Framing
<1>2. CASE ~removeConn(c)
  <2>0. Keep(c) /\ \A cn \in Conns \ {lease[c]} : SameWire(cn)
    BY <1>2
  <2>2. \/ lease[c] \in torn'
        \/ sent'[lease[c]] = <<>> /\ stream'[lease[c]] = <<>>
    BY <1>2, <2>0, KeepMoves
  <2>3. \A cn \in Conns : Unused(cn)' => cn \in torn' \/ Quiet(cn)'
    BY <2>0, <2>2, KeepMoves DEF Framing, Quiet, SameWire
  <2>4. ASSUME NEW e \in Callers
        PROVE  Exchange(e)'
    <3>1. CASE e = c
      <4>1. pc'[e] = "idle"
        BY <2>0, <3>1, KeepMoves
      <4> QED
        BY <4>1 DEF Exchange
    <3>2. CASE e # c /\ pc'[e] = pc[e] /\ lease'[e] = lease[e]
      <4>1. pc[e] \in Using => lease[e] \in Conns /\ lease[e] # lease[c]
        BY <1>p, <2>0, <3>2, KeepMoves
      <4> QED
        BY <2>0, <3>2, <4>1, SameExchange DEF Framing
    <3>3. CASE pc'[e] = "exec" /\ lease'[e] = lease[c]
      BY <2>2, <3>3 DEF Exchange, Quiet
    <3> QED
      BY <2>0, <3>1, <3>2, <3>3, KeepMoves
  <2> QED
    BY <2>3, <2>4 DEF Framing
<1> QED
  BY <1>1, <1>2

\* A step of c alone, which keeps its connection.
LEMMA OneExchange ==
    ASSUME TypeInv, Framing, NEW c \in Callers, pc[c] \in Using,
           lease' = lease, calls' = calls, Exchange(c)',
           \A e \in Callers \ {c} : pc'[e] = pc[e] /\ first'[e] = first[e],
           \A cn \in Conns \ {lease[c]} : SameWire(cn)
    PROVE  Framing'
<1>1. /\ lease \in [Callers -> Conns \cup {None}]
      /\ \A e \in Callers : pc[e] \in Using <=> lease[e] # None
      /\ \A d, e \in Callers : lease[d] # None /\ lease[d] = lease[e] => d = e
  BY DEF TypeInv, PoolTypes, LeaseInv
<1>2. \A cn \in Conns : Unused(cn)' => cn \in torn' \/ Quiet(cn)'
  BY DEF Framing, Quiet, Unused, SameWire
<1>3. ASSUME NEW e \in Callers \ {c}
      PROVE  Exchange(e)'
  <2>1. pc[e] \in Using => SameWire(lease[e])
    BY <1>1
  <2> QED
    BY <2>1, SameExchange DEF Framing
<1> QED
  BY <1>2, <1>3 DEF Framing

\* A step that leaves callers, and connections in use, alone.
LEMMA NobodysExchange ==
    ASSUME TypeInv, Framing, UNCHANGED <<lease, pc, calls, first>>,
           \A cn \in Conns : SameWire(cn) \/ (Closed(cn) /\ Unused(cn))
    PROVE  Framing'
<1>1. /\ lease \in [Callers -> Conns \cup {None}]
      /\ \A e \in Callers : pc[e] \in Using <=> lease[e] # None
  BY DEF TypeInv, PoolTypes, LeaseInv
<1>2. \A cn \in Conns : Unused(cn)' => cn \in torn' \/ Quiet(cn)'
  BY DEF Framing, Quiet, Unused, SameWire, Closed
<1>3. ASSUME NEW e \in Callers
      PROVE  Exchange(e)'
  <2>1. pc[e] \in Using => SameWire(lease[e])
    BY <1>1 DEF Unused
  <2> QED
    BY <2>1, SameExchange DEF Framing
<1> QED
  BY <1>2, <1>3 DEF Framing

\* What c reads is of its own command, and the last piece is the last, unless
\* more than it is buffered.
LEMMA PieceIsOwn ==
    ASSUME TypeInv, Framing, NEW c \in Callers, pc[c] \in {"read", "body"},
           lease[c] \notin torn, stream[lease[c]] # <<>>
    PROVE  /\ sent[lease[c]] = <<>> /\ Piece(c).of = Command(c)
           /\ \/ stream[lease[c]] = <<Piece(c)>> /\ (pc[c] = "read" => Piece(c).part # "head")
              \/ /\ pc[c] = "read" /\ Piece(c).part = "head"
                 /\ stream[lease[c]] = <<Piece(c), P(Command(c), "body")>>
              \/ pc[c] = "read" /\ Piece(c).part = "error" /\ buffered[lease[c]] \in {0, 2}
           /\ pc[c] = "body" => stream[lease[c]] = <<Piece(c)>> /\ first[c] = Command(c)
<1>2. \A x, y : Head(<<x>>) = x /\ Head(<<x, y>>) = x
  OBVIOUS
<1>3. CASE pc[c] = "body"
  <2>1. /\ sent[lease[c]] = <<>> /\ stream[lease[c]] = <<P(Command(c), "body")>>
        /\ first[c] = Command(c)
    BY <1>3 DEF Framing, Exchange
  <2> QED
    BY <1>2, <1>3, <2>1 DEF Piece, P
<1>4. CASE pc[c] = "read"
  <2>1. sent[lease[c]] = <<>> /\ WholeReply(Command(c), lease[c])
    BY <1>4 DEF Framing, Exchange
  <2>2. CASE \/ stream[lease[c]] = <<P(Command(c), "line")>>
             \/ stream[lease[c]] = <<P(Command(c), "error")>>
    BY <1>2, <1>4, <2>1, <2>2 DEF Piece, P
  <2>3. CASE stream[lease[c]] = <<P(Command(c), "head"), P(Command(c), "body")>>
    BY <1>2, <1>4, <2>1, <2>3 DEF Piece, P
  <2>4. CASE /\ stream[lease[c]] = <<P(Command(c), "error"), P(Stray, "line")>>
             /\ buffered[lease[c]] \in {0, 2}
    BY <1>2, <1>4, <2>1, <2>4 DEF Piece, P
  <2> QED
    BY <2>1, <2>2, <2>3, <2>4 DEF WholeReply
<1> QED
  BY <1>3, <1>4

\* Start of a call, and getting a connection.
LEMMA EntryFramed ==
    ASSUME TypeInv, Framing, NEW c \in Callers, Start(c) \/ getConn(c) \/ Refused(c)
    PROVE  Framing'
<1>p. /\ lease \in [Callers -> Conns \cup {None}] /\ None \notin Conns
      /\ pc \in [Callers -> {"idle", "acquire", "exec", "write", "read", "body"}]
      /\ calls \in [Callers -> 0 .. MaxCalls]
      /\ \A d \in Callers : pc[d] \in Using <=> lease[d] # None
  BY CallersAssumption DEF TypeInv, PoolTypes, CallTypes, LeaseInv
<1>1. CASE Start(c) \/ Refused(c)
  <2>1. /\ UNCHANGED <<lease, first, connVars>> /\ pc'[c] \in {"idle", "acquire"}
        /\ \A e \in Callers \ {c} : pc'[e] = pc[e] /\ calls'[e] = calls[e]
    BY <1>1, <1>p DEF Start, Refused, poolVars
  <2>2. (\A cn \in Conns : Unused(cn)' => cn \in torn' \/ Quiet(cn)') /\ \A cn : SameWire(cn)
    BY <2>1 DEF Framing, Quiet, Unused, connVars, SameWire
  <2>3. Exchange(c)'
    BY <2>1 DEF Exchange
  <2>4. \A e \in Callers \ {c} : Exchange(e)'
    BY <2>1, <2>2, SameExchange DEF Framing
  <2> QED
    BY <2>2, <2>3, <2>4 DEF Framing
<1>2. CASE getConn(c)
  <2>1. /\ pc'[c] = "exec" /\ lease'[c] \in Conns /\ Unused(lease'[c])
        /\ \A e \in Callers \ {c} : pc'[e] = pc[e] /\ lease'[e] = lease[e]
        /\ \A cn \in Conns : Unused(cn)' => Unused(cn)
        /\ \A cn \in Conns : SameWire(cn) \/ (Closed(cn) /\ Unused(cn))
        /\ calls' = calls /\ first' = first
    BY <1>2, GetMoves DEF getConn, Untouched, SameWire
  <2>2. \A cn \in Conns : Unused(cn) => cn \in torn' \/ Quiet(cn)'
    BY <2>1 DEF Framing, Quiet, SameWire, Closed
  <2>3. Exchange(c)'
    BY <2>1, <2>2 DEF Exchange, Quiet
  <2>4. ASSUME NEW e \in Callers \ {c}
        PROVE  Exchange(e)'
    <3>1. pc[e] \in Using => SameWire(lease[e])
      BY <1>p, <2>1 DEF Unused
    <3> QED
      BY <2>1, <3>1, SameExchange DEF Framing
  <2> QED
    BY <2>1, <2>2, <2>3, <2>4 DEF Framing
<1> QED
  BY <1>1, <1>2

\* The steps of a call that keep its connection.
LEMMA KeepFramed ==
    ASSUME Server, TypeInv, Framing, NEW c \in Callers,
           \/ ExecOn(c) \/ Write(c) \/ Fill(c)
           \/ ReadReply(c) /\ Piece(c).part = "head"
    PROVE  Framing'
<1>p. /\ lease[c] \in Conns /\ pc[c] \in Using
      /\ pc \in [Callers -> {"idle", "acquire", "exec", "write", "read", "body"}]
      /\ first \in [Callers -> Commands \cup {Stray, None}]
      /\ sent \in [Conns -> Seq(Commands)] /\ stream \in [Conns -> Seq(Pieces)]
      /\ buffered \in [Conns -> Nat]
  BY DEF ExecOn, Write, Fill, ReadReply, Reading, TypeInv, PoolTypes, LeaseInv, CallTypes,
         ConnTypes, Using
<1>f. Exchange(c)
  BY DEF Framing
<1>1. CASE ExecOn(c)
  <2>1. /\ pc'[c] = "write" /\ \A e \in Callers \ {c} : pc'[e] = pc[e] /\ first'[e] = first[e]
        /\ UNCHANGED <<lease, calls, sent, stream, buffered, torn>> /\ pc[c] = "exec"
    BY <1>1, <1>p DEF ExecOn, poolVars
  <2>2. Exchange(c)'
    BY <1>f, <2>1 DEF Exchange, Quiet
  <2> QED
    BY <1>p, <2>1, <2>2, OneExchange DEF SameWire
<1>2. CASE Write(c)
  <2>1. /\ pc'[c] = "read" /\ \A e \in Callers \ {c} : pc'[e] = pc[e] /\ first'[e] = first[e]
        /\ UNCHANGED <<lease, calls, stream, buffered, torn>> /\ pc[c] = "write"
        /\ sent'[lease[c]] = Append(sent[lease[c]], Command(c))
        /\ \A cn \in Conns \ {lease[c]} : sent'[cn] = sent[cn]
    BY <1>2, <1>p DEF Write, poolVars
  <2>2. lease[c] \notin torn => sent[lease[c]] = <<>> /\ stream[lease[c]] = <<>>
    BY <1>f, <2>1 DEF Exchange, Quiet
  <2>3. \A x : Append(<<>>, x) = <<x>>
    OBVIOUS
  <2>4. lease[c] \notin torn => sent'[lease[c]] = <<Command(c)>>
    BY <2>1, <2>2, <2>3
  <2>5. Exchange(c)'
    BY <2>1, <2>2, <2>4 DEF Exchange, Command
  <2> QED
    BY <1>p, <2>1, <2>5, OneExchange DEF SameWire
<1>3. CASE Fill(c)
  <2>1. /\ UNCHANGED <<lease, pc, calls, first, sent, stream, torn>>
        /\ pc[c] \in {"read", "body"}
        /\ \A cn \in Conns \ {lease[c]} : buffered'[cn] = buffered[cn]
    BY <1>3, <1>p DEF Fill, poolVars
  <2>2. stream[lease[c]] = <<P(Command(c), "error"), P(Stray, "line")>> /\ Together
          => buffered'[lease[c]] \in {0, 2}
    <3> SUFFICES ASSUME stream[lease[c]] = <<P(Command(c), "error"), P(Stray, "line")>>, Together
                 PROVE  buffered'[lease[c]] \in {0, 2}
      OBVIOUS
    <3>1. PICK n \in 1 .. Len(stream[lease[c]]) :
            /\ n < Len(stream[lease[c]]) => stream[lease[c]][n + 1].of # Stray
            /\ buffered' = [buffered EXCEPT ![lease[c]] = n]
      BY <1>3 DEF Fill
    <3>2. Len(stream[lease[c]]) = 2 /\ stream[lease[c]][2].of = Stray
      BY DEF P
    <3>3. n = 1 \/ n = 2
      BY <3>1, <3>2
    <3>4. n = 2
      BY <3>1, <3>2, <3>3
    <3> QED
      BY <1>p, <3>1, <3>4
  <2>3. Exchange(c)'
    <3>1. (Command(c))' = Command(c) /\ (P(Command(c), "body"))' = P(Command(c), "body")
      BY <2>1 DEF Command, P
    <3>2. WholeReply(Command(c), lease[c]) => WholeReply(Command(c), lease[c])'
      BY <2>1, <2>2, <3>1 DEF WholeReply, P, Command
    <3> QED
      BY <1>f, <2>1, <3>1, <3>2 DEF Exchange
  <2> QED
    BY <1>p, <2>1, <2>3, OneExchange DEF SameWire
<1>4. CASE ReadReply(c) /\ Piece(c).part = "head"
  <2>1. /\ pc[c] = "read" /\ buffered[lease[c]] > 0
        /\ Consume(c) /\ first' = [first EXCEPT ![c] = Piece(c).of]
        /\ pc' = [pc EXCEPT ![c] = "body"] /\ UNCHANGED <<lease, calls, sent>>
    BY <1>4 DEF ReadReply, Reading, poolVars
  <2>2. lease[c] \notin torn =>
          /\ sent[lease[c]] = <<>> /\ Piece(c).of = Command(c)
          /\ stream[lease[c]] = <<Piece(c), P(Command(c), "body")>>
    <3>1. stream[lease[c]] # <<>>
      BY <1>p, <2>1, PieceTyped DEF TypeInv
    <3> QED
      BY <1>4, <2>1, <3>1, PieceIsOwn
  <2>3. \A x, y : Tail(<<x, y>>) = <<y>>
    OBVIOUS
  <2>4. /\ stream'[lease[c]] = Tail(stream[lease[c]]) /\ torn' = torn
        /\ \A cn \in Conns \ {lease[c]} : SameWire(cn)
    BY <1>p, <2>1, ConsumeMoves DEF SameWire
  <2>5. /\ pc'[c] = "body" /\ first'[c] = Piece(c).of
        /\ \A e \in Callers \ {c} : pc'[e] = pc[e] /\ first'[e] = first[e]
    BY <1>p, <2>1
  <2>6. Exchange(c)'
    <3>1. (P(Command(c), "body"))' = P(Command(c), "body") /\ (Command(c))' = Command(c)
      BY <2>1 DEF Command, P
    <3>2. lease[c] \notin torn => stream'[lease[c]] = <<P(Command(c), "body")>>
      <4>1. PICK x : x = Piece(c)
        OBVIOUS
      <4>2. PICK y : y = P(Command(c), "body")
        OBVIOUS
      <4> QED
        BY <2>2, <2>3, <2>4, <4>1, <4>2
    <3> QED
      BY <2>1, <2>2, <2>4, <2>5, <3>1, <3>2 DEF Exchange
  <2> QED
    BY <1>p, <2>1, <2>4, <2>5, <2>6, OneExchange
<1> QED
  BY <1>1, <1>2, <1>3, <1>4

\* The end of a call.
LEMMA EndFramed ==
    ASSUME TypeInv, Framing, NEW c \in Callers,
           \/ CtxDone(c) \/ TimedOut(c) \/ Broken(c) \/ ReadBody(c) \/ CutShort(c)
           \/ ReadReply(c) /\ Piece(c).part # "head"
    PROVE  Framing'
<1>1. pc[c] \in Using /\ UNCHANGED <<calls, first>>
  BY DEF CtxDone, TimedOut, Broken, ReadBody, CutShort, ReadReply, Reading, Using
<1>r. CASE removeConn(c)
  BY <1>1, <1>r, LetGoQuiet
<1>2. CASE CtxDone(c) \/ TimedOut(c) \/ Broken(c)
  BY <1>r, <1>2 DEF CtxDone, TimedOut, Broken, Discard
<1>3. CASE (ReadBody(c) \/ (ReadReply(c) /\ Piece(c).part # "head")) /\ ~removeConn(c)
  <2>1. /\ pc[c] \in {"read", "body"} /\ buffered[lease[c]] > 0 /\ Keep(c) /\ Consume(c)
        /\ pc[c] = "read" /\ Piece(c).part = "error" => buffered[lease[c]] = 1
        /\ pc[c] = "body" \/ Piece(c).part # "head"
    BY <1>3 DEF ReadBody, ReadReply, Reading, AfterError, putConn
  <2>2. lease[c] \in Conns
    BY <1>1, <2>1, KeepMoves
  <2>3. lease[c] \notin torn => sent[lease[c]] = <<>> /\ stream[lease[c]] = <<Piece(c)>>
    <3>1. stream[lease[c]] # <<>>
      BY <2>1, <2>2, PieceTyped DEF TypeInv
    <3> QED
      BY <2>1, <3>1, PieceIsOwn
  <2>4. \A x : Tail(<<x>>) = <<>>
    OBVIOUS
  <2>5. /\ \A cn \in Conns \ {lease[c]} : SameWire(cn)
        /\ stream'[lease[c]] = Tail(stream[lease[c]]) /\ torn' = torn
    BY <1>1, <2>1, <2>2, ConsumeMoves, KeepMoves DEF SameWire
  <2> QED
    BY <1>1, <2>1, <2>3, <2>4, <2>5, LetGoQuiet
<1>4. CASE CutShort(c) /\ ~removeConn(c)
  <2>1. /\ Keep(c) /\ lease[c] \in torn' /\ \A cn \in Conns \ {lease[c]} : SameWire(cn)
    BY <1>4, CutMoves, KeepMoves DEF SameWire
  <2> QED
    BY <1>1, <2>1, LetGoQuiet
<1> QED
  BY <1>r, <1>2, <1>3, <1>4

\* The server answers on a torn connection, or the caller that waits for it.
LEMMA ServeFramed ==
    ASSUME Server, TypeInv, Framing, NEW cn \in Conns, Serve(cn)
    PROVE  Framing'
<1>p. /\ pc \in [Callers -> {"idle", "acquire", "exec", "write", "read", "body"}]
      /\ sent \in [Conns -> Seq(Commands)] /\ stream \in [Conns -> Seq(Pieces)]
      /\ lease \in [Callers -> Conns \cup {None}]
      /\ \A d \in Callers : pc[d] \in Using <=> lease[d] # None
      /\ buffered[cn] \in Nat /\ buffered[cn] <= Len(stream[cn])
      /\ None \notin Conns
  BY CallersAssumption DEF TypeInv, PoolTypes, LeaseInv, ConnTypes
<1>s. UNCHANGED <<lease, pc, calls, first, torn, buffered>>
  BY DEF Serve, poolVars
<1>o. \A d \in Conns \ {cn} : SameWire(d)
  BY <1>p, <1>s DEF Serve, SameWire
<1>t. CASE cn \in torn
  <2>1. \A d \in Conns : Unused(d)' => d \in torn' \/ Quiet(d)'
    BY <1>o, <1>s, <1>t DEF Framing, Quiet, Unused, SameWire
  <2>2. ASSUME NEW e \in Callers
        PROVE  Exchange(e)'
    <3>1. CASE lease[e] = cn
      BY <1>s, <1>t, <3>1 DEF Exchange
    <3>2. CASE lease[e] # cn
      <4>1. pc[e] \in Using => SameWire(lease[e])
        BY <1>o, <1>p, <3>2
      <4> QED
        BY <1>s, <4>1, SameExchange DEF Framing
    <3> QED
      BY <3>1, <3>2
  <2> QED
    BY <2>1, <2>2 DEF Framing
<1>n. CASE cn \notin torn
  <2>1. PICK c \in Callers : lease[c] = cn
    BY <1>n DEF Serve, Framing, Quiet, Unused
  <2>2. pc[c] = "read" /\ sent[cn] = <<Command(c)>> /\ stream[cn] = <<>>
    <3>1. pc[c] \in Using
      BY <1>p, <2>1
    <3> QED
      BY <1>n, <2>1, <3>1 DEF Serve, Framing, Exchange, Quiet, Using
  <2>3. PICK r \in Replies(Head(sent[cn])) : stream' = [stream EXCEPT ![cn] = stream[cn] \o r]
    BY DEF Serve
  <2>4. \A x : Head(<<x>>) = x /\ Tail(<<x>>) = <<>>
    OBVIOUS
  <2>5. r \in Replies(Command(c))
    BY <2>2, <2>3, <2>4
  <2>6. <<>> \o r = r
    <3>1. \A x, y : <<>> \o <<x>> = <<x>> /\ <<>> \o <<x, y>> = <<x, y>>
      OBVIOUS
    <3> QED
      BY <2>5, <3>1 DEF Replies
  <2>7. sent'[cn] = <<>> /\ stream'[cn] = r
    BY <1>p, <2>2, <2>3, <2>4, <2>6 DEF Serve
  <2>8. buffered'[cn] = 0
    <3>1. Len(<<>>) = 0
      OBVIOUS
    <3> QED
      BY <1>p, <1>s, <2>2, <3>1
  <2>9. WholeReply(Command(c), cn)'
    BY <1>s, <2>5, <2>7, <2>8 DEF Replies, WholeReply, Command, P, Server
  <2>10. Exchange(c)'
    BY <1>s, <2>1, <2>2, <2>7, <2>9 DEF Exchange
  <2> QED
    BY <1>o, <1>s, <2>1, <2>2, <2>10, OneExchange DEF Using
<1> QED
  BY <1>t, <1>n

LEMMA FramingStep ==
    ASSUME Server, TypeInv, Framing, [Next]_vars
    PROVE  Framing'
<1>1. ASSUME NEW c \in Callers, Do(c)
      PROVE  Framing'
  BY <1>1, EntryFramed, KeepFramed, EndFramed DEF Do
<1>2. ASSUME NEW cn \in Conns, Serve(cn)
      PROVE  Framing'
  BY <1>2, ServeFramed
<1>3. CASE Background \/ Shed
  BY <1>3, PoolMoves, NobodysExchange DEF Untouched, SameWire
<1>4. CASE UNCHANGED vars
  BY <1>4, NobodysExchange DEF vars, poolVars, connVars, SameWire
<1> QED
  BY <1>1, <1>2, <1>3, <1>4 DEF Next

\* Every result is made of pieces of the caller's own reply.
LEMMA OwnReplyStep ==
    ASSUME TypeInv, Framing, OwnReply, [Next]_vars
    PROVE  OwnReply'
<1>p. DOMAIN result = Callers /\ DOMAIN calls = Callers
  BY DEF TypeInv, CallTypes
<1>s. CASE UNCHANGED <<calls, result>>
  BY <1>s DEF OwnReply, Command
<1>e. ASSUME NEW c \in Callers, NEW how, NEW of, End(c, how, of),
             \A e \in Callers \ {c} : calls'[e] = calls[e],
             of = {} \/ ((lease[c] \in torn \/ of = {Command(c)}) /\ calls' = calls)
      PROVE  OwnReply'
  <2>1. /\ result'[c].of = of /\ result'[c].torn = (lease[c] \in torn)
        /\ \A e \in Callers \ {c} : result'[e] = result[e]
    BY <1>e, <1>p DEF End
  <2> QED
    BY <1>e, <2>1 DEF OwnReply, Command
<1>1. ASSUME NEW c \in Callers,
             Start(c) \/ Refused(c) \/ CtxDone(c) \/ TimedOut(c) \/ Broken(c)
      PROVE  OwnReply'
  <2>1. /\ End(c, "none", {}) \/ End(c, "failed", {}) \/ End(c, pc[c], {})
        /\ \A e \in Callers \ {c} : calls'[e] = calls[e]
    BY <1>1, <1>p DEF Start, Refused, CtxDone, TimedOut, Broken
  <2> QED
    BY <1>e, <2>1
<1>2. ASSUME NEW c \in Callers, ReadReply(c) \/ ReadBody(c) \/ CutShort(c)
      PROVE  OwnReply'
  <2>1. pc[c] \in {"read", "body"} /\ stream[lease[c]] # <<>> /\ calls' = calls
    <3>1. CASE ReadReply(c) \/ ReadBody(c)
      <4>1. pc[c] \in {"read", "body"} /\ buffered[lease[c]] > 0 /\ calls' = calls
        BY <3>1 DEF ReadReply, ReadBody, Reading
      <4>2. lease[c] \in Conns
        BY <4>1 DEF TypeInv, PoolTypes, LeaseInv, Using
      <4> QED
        BY <4>1, <4>2, PieceTyped DEF TypeInv
    <3>2. CASE CutShort(c)
      BY <3>2 DEF CutShort
    <3> QED
      BY <1>2, <3>1, <3>2
  <2>2. \/ lease[c] \in torn
        \/ Piece(c).of = Command(c) /\ (pc[c] = "body" => first[c] = Command(c))
    BY <2>1, PieceIsOwn
  <2>3. \/ UNCHANGED result
        \/ \E how, of : /\ End(c, how, of)
                        /\ lease[c] \in torn \/ of = {Command(c)}
    BY <1>2, <2>2 DEF ReadReply, ReadBody, Reading, CutShort
  <2> QED
    BY <1>e, <1>s, <2>1, <2>3
<1>3. ASSUME NEW c \in Callers, getConn(c) \/ ExecOn(c) \/ Write(c) \/ Fill(c)
      PROVE  OwnReply'
  BY <1>3, <1>s DEF getConn, ExecOn, Write, Fill
<1>4. CASE (\E cn \in Conns : Serve(cn)) \/ Background \/ Shed \/ UNCHANGED vars
  BY <1>4, <1>s DEF Serve, Background, Shed, vars
<1> QED
  BY <1>1, <1>2, <1>3, <1>4 DEF Next, Do

\* With a server that sends one reply per command, or whose extra bytes arrive
\* with the error they follow, every byte a call returns answers that call
\* (OwnReply), unless it had a connection on which a line was cut short: no
\* timeout, broken connection or error leaves anything else in the pool.
THEOREM OwnReplyAlways == Conforming \/ Together => (Spec => []OwnReply)
<1> SUFFICES ASSUME Server PROVE Spec => []OwnReply
  BY DEF Server
<1>1. Init => FramingInv
  BY DEF Init, FramingInv, Framing, Exchange, Quiet, OwnReply
<1>2. TypeInv /\ FramingInv /\ [Next]_vars => FramingInv'
  BY FramingStep, OwnReplyStep DEF FramingInv
<1>3. FramingInv => OwnReply
  BY DEF FramingInv
<1> QED
  BY <1>1, <1>2, <1>3, TypeInvAlways, PTL DEF Spec

=============================================================================
