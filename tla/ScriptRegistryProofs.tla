------------------------- MODULE ScriptRegistryProofs -------------------------
(***************************************************************************)
(* What holds of Scriptors and their registry for any number of them, of   *)
(* runners, names and bodies.                                              *)
(***************************************************************************)
EXTENDS ScriptRegistry, TLAPS

-----------------------------------------------------------------------------
(* Types.                                                                  *)

BootLocations == {"unborn", "lookup", "exists", "load", "persist", "hgetall",
                  "verify", "ready", "failed"}
CallLocations == {"idle", "evalsha", "load", "store", "persist", "retry"}
Results == {"none", "ok", "noscript", "notcached", "error"}

Boots == [pc : BootLocations, todo : SUBSET Names, name : Names \cup {None},
          seen : [Names -> Shas \cup {None}]]
Calls == [pc : CallLocations, name : Names \cup {None},
          entry : Entries \cup {None}, ran : Nat, runs : Shas \cup {None},
          raced : BOOLEAN, result : Results]

\* The name at hand where New reads its body, the entry where ExecSha does.
AtHand ==
    /\ \A s \in Scriptors :
         boot[s].pc \in {"exists", "load", "persist"} => boot[s].name \in DOMAIN Given[s]
    /\ \A s \in Scriptors :
         boot[s].pc = "lookup" => boot[s].todo \subseteq DOMAIN Given[s]
    /\ \A s \in Scriptors :
         boot[s].pc \in {"exists", "load", "persist"} => boot[s].todo \subseteq DOMAIN Given[s]
    /\ \A r \in Runners :
         /\ call[r].pc # "idle" => call[r].entry \in Entries /\ call[r].name \in Names
         /\ call[r].pc \in {"load", "store", "persist", "retry"} =>
              call[r].entry.body \in Bodies

TypeInv == TypeOK /\ AtHand

\* The entry a call has read is still there, so that Store finds it.
EntryStays ==
    \A r \in Runners : call[r].pc # "idle" => scripts[RunnerOf[r]][call[r].name] # None

LEMMA ShaTyped == \A b \in Bodies : sha1Hex(b) \in Shas
BY DEF Shas

LEMMA BodyTyped ==
    ASSUME TypeInv, NEW s \in Scriptors, boot[s].pc \in {"exists", "load", "persist"}
    PROVE  /\ boot[s].name \in Names /\ Body(s) \in Bodies /\ sha1Hex(Body(s)) \in Shas
           /\ boot[s].seen[boot[s].name] \in Shas \cup {None}
<1>1. boot[s].name \in DOMAIN Given[s] /\ boot[s].seen \in [Names -> Shas \cup {None}]
  BY DEF TypeInv, TypeOK, AtHand
<1>2. boot[s].name \in Names /\ Body(s) \in Bodies
  BY <1>1, GivenAssumption DEF Body
<1> QED
  BY <1>1, <1>2, ShaTyped

LEMMA TypeInvInit == Init => TypeInv
<1> SUFFICES ASSUME Init PROVE TypeInv
  OBVIOUS
<1>1. AtHand
  BY DEF Init, AtHand
<1>2. TypeOK
  BY DEF Init, TypeOK
<1> QED
  BY <1>1, <1>2 DEF TypeInv

\* New of one Scriptor moves on; b is where it stands then.
LEMMA BootStep ==
    ASSUME TypeInv, NEW s \in Scriptors, NEW b \in Boots, boot' = [boot EXCEPT ![s] = b],
           b.pc \in {"exists", "load", "persist"} => b.name \in DOMAIN Given[s],
           b.pc \in {"lookup", "exists", "load", "persist"} => b.todo \subseteq DOMAIN Given[s],
           call' = call
    PROVE  boot' \in [Scriptors -> Boots] /\ AtHand'
<1>1. boot \in [Scriptors -> Boots]
  BY DEF TypeInv, TypeOK, Boots, BootLocations
<1> QED
  BY <1>1 DEF TypeInv, AtHand

\* It moves on and keeps the rest.
LEMMA BootGotoStep ==
    ASSUME TypeInv, NEW s \in Scriptors, NEW l \in BootLocations, BootGoto(s, l),
           \/ l \in {"ready", "failed"}
           \/ boot[s].pc \in {"exists", "load"} /\ l \in {"load", "persist"},
           call' = call
    PROVE  boot' \in [Scriptors -> Boots] /\ AtHand'
<1> DEFINE b == [boot[s] EXCEPT !.pc = l]
<1>1. boot[s] \in Boots
  BY DEF TypeInv, TypeOK, Boots, BootLocations
<1>2. b \in Boots /\ b.pc = l /\ b.name = boot[s].name /\ b.todo = boot[s].todo
  BY <1>1 DEF Boots
<1>3. boot' = [boot EXCEPT ![s] = b]
  BY DEF BootGoto
<1> HIDE DEF b
<1>4. l \in {"exists", "load", "persist"} => b.name \in DOMAIN Given[s]
  BY <1>2 DEF TypeInv, AtHand
<1>5. l \in {"lookup", "exists", "load", "persist"} => b.todo \subseteq DOMAIN Given[s]
  BY <1>2 DEF TypeInv, AtHand
<1> QED
  BY <1>2, <1>3, <1>4, <1>5, BootStep

\* register is done with a name.
LEMMA RegisteredTyped ==
    ASSUME TypeInv, NEW s \in Scriptors, boot[s].pc \in {"exists", "persist"},
           NEW sha \in Shas, Registered(s, sha), call' = call
    PROVE  /\ boot' \in [Scriptors -> Boots] /\ AtHand'
           /\ scripts' \in [Scriptors -> [Names -> Entries \cup {None}]]
           /\ newest' \in [Names -> Bodies \cup {None}]
<1> DEFINE n == boot[s].name
           l == IF boot[s].todo = {n} THEN "ready" ELSE "lookup"
           b == [boot[s] EXCEPT !.todo = @ \ {n}, !.pc = l]
<1>1. boot[s] \in Boots
  BY DEF TypeInv, TypeOK, Boots, BootLocations
<1>2. n \in Names /\ Body(s) \in Bodies
  BY BodyTyped
<1>3. boot[s].todo \subseteq DOMAIN Given[s]
  BY DEF TypeInv, AtHand
<1>4. b \in Boots /\ b.pc = l /\ b.todo = boot[s].todo \ {n} /\ l \in {"ready", "lookup"}
  BY <1>1 DEF Boots, BootLocations
<1>5. boot' = [boot EXCEPT ![s] = b]
  BY DEF Registered
<1>6. boot' \in [Scriptors -> Boots] /\ AtHand'
  <2> HIDE DEF b, l
  <2> QED
    BY <1>3, <1>4, <1>5, BootStep
<1>7. [sha |-> sha, body |-> Body(s)] \in Entries
  BY <1>2 DEF Entries
<1>8. scripts' \in [Scriptors -> [Names -> Entries \cup {None}]]
  BY <1>2, <1>7 DEF TypeInv, TypeOK, Registered
<1>9. newest' \in [Names -> Bodies \cup {None}]
  BY <1>2 DEF TypeInv, TypeOK, Registered
<1> QED
  BY <1>6, <1>8, <1>9

\* A step of New.
LEMMA NewTyped ==
    ASSUME TypeInv, NEW s \in Scriptors, New(s)
    PROVE  TypeInv'
<1> USE DEF server, history
<1>0. TypeOK /\ boot[s] \in Boots /\ boot \in [Scriptors -> Boots]
  BY DEF TypeInv, TypeOK, Boots, BootLocations
<1>t. ASSUME boot' \in [Scriptors -> Boots], AtHand', call' = call,
             cache' \subseteq Shas,
             registry' \in [Names -> Shas \cup {None}],
             scripts' \in [Scriptors -> [Names -> Entries \cup {None}]],
             newest' \in [Names -> Bodies \cup {None}], flushed' = flushed
      PROVE  TypeInv'
  BY <1>0, <1>t DEF TypeInv, TypeOK, Boots, BootLocations
<1>u. /\ cache \subseteq Shas
      /\ registry \in [Names -> Shas \cup {None}]
      /\ scripts \in [Scriptors -> [Names -> Entries \cup {None}]]
      /\ newest \in [Names -> Bodies \cup {None}]
  BY <1>0 DEF TypeOK
<1>1. CASE Begin(s)
  <2> DEFINE l == IF DOMAIN Given[s] = {} THEN "hgetall" ELSE "lookup"
             b == [boot[s] EXCEPT !.pc = l, !.todo = DOMAIN Given[s]]
  <2>1. DOMAIN Given[s] \subseteq Names
    BY GivenAssumption
  <2>2. b \in Boots /\ b.pc = l /\ b.todo = DOMAIN Given[s] /\ l \in {"hgetall", "lookup"}
    BY <1>0, <2>1 DEF Boots, BootLocations
  <2>3. boot' = [boot EXCEPT ![s] = b] /\ call' = call
    BY <1>1 DEF Begin
  <2>4. boot' \in [Scriptors -> Boots] /\ AtHand'
    <3> HIDE DEF b, l
    <3> QED
      BY <2>2, <2>3, BootStep
  <2> QED
    BY <1>1, <1>t, <1>u, <2>4 DEF Begin
<1>2. CASE Lookup(s)
  <2>1. PICK n \in boot[s].todo :
          boot' = [boot EXCEPT ![s].pc = IF registry[n] = None THEN "load" ELSE "exists",
                               ![s].name = n, ![s].seen[n] = registry[n]]
    BY <1>2 DEF Lookup
  <2> DEFINE l == IF registry[n] = None THEN "load" ELSE "exists"
             b == [boot[s] EXCEPT !.pc = l, !.name = n, !.seen[n] = registry[n]]
  <2>2. n \in Names /\ n \in DOMAIN Given[s] /\ boot[s].todo \subseteq DOMAIN Given[s]
    BY <1>0, <1>2, GivenAssumption DEF Lookup, Booting, TypeInv, AtHand
  <2>3. /\ b \in Boots /\ b.pc = l /\ b.name = n /\ b.todo = boot[s].todo
        /\ l \in {"load", "exists"}
    BY <1>0, <1>u, <2>2 DEF Boots, BootLocations
  <2>4. boot' = [boot EXCEPT ![s] = b] /\ call' = call
    <3>1. boot' = [boot EXCEPT ![s].pc = l, ![s].name = n, ![s].seen[n] = registry[n]]
      BY <2>1
    <3>2. boot' = [boot EXCEPT ![s] = b]
      BY <1>0, <3>1
    <3> QED
      BY <1>2, <3>2 DEF Lookup
  <2>5. boot' \in [Scriptors -> Boots] /\ AtHand'
    <3> HIDE DEF b, l
    <3> QED
      BY <2>2, <2>3, <2>4, BootStep
  <2> QED
    BY <1>2, <1>t, <1>u, <2>5 DEF Lookup
<1>3. CASE Exists(s)
  <2>1. boot[s].pc = "exists" /\ UNCHANGED <<server, call, flushed>>
    BY <1>3 DEF Exists, Booting
  <2>2. CASE Reusable(s) /\ Registered(s, boot[s].seen[boot[s].name])
    <3>1. boot[s].seen[boot[s].name] \in Shas
      BY <1>u, <2>2 DEF Reusable
    <3> QED
      BY <1>t, <1>u, <2>1, <2>2, <3>1, RegisteredTyped
  <2>3. CASE BootGoto(s, "load") /\ UNCHANGED <<scripts, newest>>
    <3>1. boot' \in [Scriptors -> Boots] /\ AtHand'
      BY <2>1, <2>3, BootGotoStep DEF BootLocations
    <3> QED
      BY <1>t, <1>u, <2>1, <2>3, <3>1
  <2> QED
    BY <1>3, <2>2, <2>3 DEF Exists
<1>4. CASE Load(s)
  <2>1. boot' \in [Scriptors -> Boots] /\ AtHand'
    BY <1>4, BootGotoStep DEF Load, Booting, BootLocations
  <2>2. sha1Hex(Body(s)) \in Shas
    BY <1>4, BodyTyped DEF Load, Booting
  <2> QED
    BY <1>4, <1>t, <1>u, <2>1, <2>2 DEF Load
<1>5. CASE Persist(s)
  <2>1. sha1Hex(Body(s)) \in Shas
    BY <1>5, BodyTyped DEF Persist, Booting
  <2>2. registry' \in [Names -> Shas \cup {None}]
    BY <1>5, <1>u, <2>1 DEF Persist
  <2> QED
    BY <1>5, <1>t, <1>u, <2>1, <2>2, RegisteredTyped DEF Persist, Booting
<1>6. CASE HGetAll(s)
  <2> DEFINE found == {n \in Names : registry[n] # None}
             l == IF found = {} THEN "ready" ELSE "verify"
             b == [boot[s] EXCEPT !.pc = l, !.todo = found, !.seen = registry]
  <2>1. b \in Boots /\ b.pc = l /\ l \in {"ready", "verify"}
    BY <1>0, <1>u DEF Boots, BootLocations
  <2>2. boot' = [boot EXCEPT ![s] = b] /\ call' = call
    BY <1>6 DEF HGetAll
  <2>3. boot' \in [Scriptors -> Boots] /\ AtHand'
    <3> HIDE DEF b, l
    <3> QED
      BY <2>1, <2>2, BootStep
  <2> QED
    BY <1>6, <1>t, <1>u, <2>3 DEF HGetAll
<1>7. CASE Verify(s)
  <2>1. PICK n \in boot[s].todo :
          \/ /\ boot[s].seen[n] \in cache
             /\ scripts' = [scripts EXCEPT ![s][n] = [sha |-> boot[s].seen[n], body |-> None]]
             /\ boot' = [boot EXCEPT ![s].todo = @ \ {n},
                                     ![s].pc = IF boot[s].todo = {n} THEN "ready" ELSE "verify"]
          \/ BootGoto(s, "failed") /\ UNCHANGED scripts
    BY <1>7 DEF Verify
  <2>2. n \in Names /\ UNCHANGED <<server, call, history>>
    BY <1>0, <1>7 DEF Verify, Boots
  <2>3. CASE /\ boot[s].seen[n] \in cache
             /\ scripts' = [scripts EXCEPT ![s][n] = [sha |-> boot[s].seen[n], body |-> None]]
             /\ boot' = [boot EXCEPT ![s].todo = @ \ {n},
                                     ![s].pc = IF boot[s].todo = {n} THEN "ready" ELSE "verify"]
    <3> DEFINE l == IF boot[s].todo = {n} THEN "ready" ELSE "verify"
               b == [boot[s] EXCEPT !.todo = @ \ {n}, !.pc = l]
    <3>1. b \in Boots /\ b.pc = l /\ l \in {"ready", "verify"}
      BY <1>0 DEF Boots, BootLocations
    <3>2. boot' = [boot EXCEPT ![s] = b]
      BY <2>3
    <3>3. boot' \in [Scriptors -> Boots] /\ AtHand'
      <4> HIDE DEF b, l
      <4> QED
        BY <2>2, <3>1, <3>2, BootStep
    <3>4. [sha |-> boot[s].seen[n], body |-> None] \in Entries
      BY <1>u, <2>3 DEF Entries
    <3>5. scripts' \in [Scriptors -> [Names -> Entries \cup {None}]]
      BY <1>u, <2>2, <2>3, <3>4
    <3> QED
      BY <1>t, <1>u, <2>2, <3>3, <3>5
  <2>4. CASE BootGoto(s, "failed") /\ UNCHANGED scripts
    <3>1. boot' \in [Scriptors -> Boots] /\ AtHand'
      BY <2>2, <2>4, BootGotoStep DEF BootLocations
    <3> QED
      BY <1>t, <1>u, <2>2, <2>4, <3>1
  <2> QED
    BY <2>1, <2>3, <2>4
<1>8. CASE NewFails(s)
  <2>1. BootGoto(s, "failed") /\ UNCHANGED <<scripts, call, flushed>>
    BY <1>8 DEF NewFails
  <2>2. boot' \in [Scriptors -> Boots] /\ AtHand'
    BY <2>1, BootGotoStep DEF BootLocations
  <2>3. CASE UNCHANGED <<server, newest>>
    BY <1>t, <1>u, <2>1, <2>2, <2>3
  <2>4. CASE /\ boot[s].pc = "load" /\ cache' = cache \cup {sha1Hex(Body(s))}
             /\ UNCHANGED <<registry, newest>>
    BY <1>t, <1>u, <2>1, <2>2, <2>4, BodyTyped
  <2>5. CASE /\ boot[s].pc = "persist" /\ UNCHANGED cache
             /\ registry' = [registry EXCEPT ![boot[s].name] = sha1Hex(Body(s))]
             /\ newest' = [newest EXCEPT ![boot[s].name] = Body(s)]
    <3>1. sha1Hex(Body(s)) \in Shas /\ Body(s) \in Bodies
      BY <2>5, BodyTyped
    <3>2. /\ registry' \in [Names -> Shas \cup {None}]
          /\ newest' \in [Names -> Bodies \cup {None}]
      BY <1>u, <2>5, <3>1
    <3> QED
      BY <1>t, <1>u, <2>1, <2>2, <2>5, <3>2
  <2> QED
    BY <1>8, <2>3, <2>4, <2>5 DEF NewFails, Booting
<1> QED
  BY <1>1, <1>2, <1>3, <1>4, <1>5, <1>6, <1>7, <1>8 DEF New

\* ExecSha of one runner moves on; k is where it stands then.
LEMMA CallStep ==
    ASSUME TypeInv, NEW r \in Runners, NEW k \in Calls, call' = [call EXCEPT ![r] = k],
           k.pc # "idle" => k.entry \in Entries /\ k.name \in Names,
           k.pc \in {"load", "store", "persist", "retry"} => k.entry.body \in Bodies,
           boot' = boot
    PROVE  call' \in [Runners -> Calls] /\ AtHand'
<1>1. call \in [Runners -> Calls]
  BY DEF TypeInv, TypeOK, Calls, CallLocations, Results
<1> QED
  BY <1>1 DEF TypeInv, AtHand

\* It moves on within the repair, or into it, and keeps the rest.
LEMMA CallGotoStep ==
    ASSUME TypeInv, NEW r \in Runners, NEW l \in {"load", "store", "persist", "retry"},
           call[r].pc # "idle", call[r].entry.body \in Bodies,
           NEW x \in BOOLEAN,
           call' = [call EXCEPT ![r] = [call[r] EXCEPT !.pc = l, !.raced = x]],
           boot' = boot
    PROVE  call' \in [Runners -> Calls] /\ AtHand'
<1> DEFINE k == [call[r] EXCEPT !.pc = l, !.raced = x]
<1>1. call[r] \in Calls
  BY DEF TypeInv, TypeOK, Calls, CallLocations, Results
<1>2. k \in Calls /\ k.entry = call[r].entry /\ k.name = call[r].name
  BY <1>1 DEF Calls, CallLocations
<1>3. call[r].entry \in Entries /\ call[r].name \in Names
  BY DEF TypeInv, AtHand
<1> QED
  <2> HIDE DEF k
  <2> QED
    BY <1>2, <1>3, CallStep DEF k

\* It returns.
LEMMA CallReturn ==
    ASSUME TypeInv, NEW r \in Runners, NEW res \in Results,
           Return(r, res) \/ \E sha \in Shas : Run(r, sha, res),
           boot' = boot
    PROVE  call' \in [Runners -> Calls] /\ AtHand'
<1>1. call[r] \in Calls
  BY DEF TypeInv, TypeOK, Calls, CallLocations, Results
<1>2. PICK k \in Calls : call' = [call EXCEPT ![r] = k] /\ k.pc = "idle"
  <2>1. CASE Return(r, res)
    <3> DEFINE k == [call[r] EXCEPT !.pc = "idle", !.result = res]
    <3>1. k \in Calls /\ k.pc = "idle"
      BY <1>1 DEF Calls, CallLocations
    <3>2. call' = [call EXCEPT ![r] = k]
      BY <2>1 DEF Return
    <3> QED
      BY <3>1, <3>2
  <2>2. ASSUME NEW sha \in Shas, Run(r, sha, res)
        PROVE  \E k \in Calls : call' = [call EXCEPT ![r] = k] /\ k.pc = "idle"
    <3> DEFINE k == [call[r] EXCEPT !.pc = "idle", !.result = res, !.ran = @ + 1, !.runs = sha]
    <3>0. call[r].ran + 1 \in Nat
      BY <1>1 DEF Calls
    <3>1. k \in Calls /\ k.pc = "idle"
      BY <1>1, <3>0 DEF Calls, CallLocations
    <3>2. call' = [call EXCEPT ![r] = k]
      BY <2>2 DEF Run
    <3> QED
      BY <3>1, <3>2
  <2> QED
    BY <2>1, <2>2
<1> QED
  BY <1>2, CallStep

\* The body at hand, and its SHA.
LEMMA NewShaTyped ==
    ASSUME TypeInv, NEW r \in Runners,
           call[r].pc \in {"load", "store", "persist", "retry"}
    PROVE  /\ call[r].entry.body \in Bodies /\ NewSha(r) \in Shas
           /\ call[r].name \in Names
BY ShaTyped DEF TypeInv, AtHand, NewSha

\* CallGoto is such a move.
LEMMA CallGotoTyped ==
    ASSUME TypeInv, NEW r \in Runners, NEW l \in {"load", "store", "persist", "retry"},
           CallGoto(r, l), call[r].pc # "idle", call[r].entry.body \in Bodies,
           boot' = boot
    PROVE  call' \in [Runners -> Calls] /\ AtHand'
<1>1. call[r] \in Calls /\ call \in [Runners -> Calls]
  BY DEF TypeInv, TypeOK, Calls, CallLocations, Results
<1>2. call[r].raced \in BOOLEAN
  BY <1>1 DEF Calls
<1>3. [call[r] EXCEPT !.pc = l] = [call[r] EXCEPT !.pc = l, !.raced = call[r].raced]
  BY <1>1 DEF Calls
<1>4. call' = [call EXCEPT ![r] = [call[r] EXCEPT !.pc = l, !.raced = call[r].raced]]
  BY <1>3 DEF CallGoto
<1> QED
  BY <1>2, <1>4, CallGotoStep

\* A step of ExecSha.
LEMMA ExecShaTyped ==
    ASSUME TypeInv, EntryStays, NEW r \in Runners, ExecSha(r) \/ ExecShaStep(r)
    PROVE  TypeInv'
<1> USE DEF server, history
<1>0. /\ TypeOK /\ call[r] \in Calls /\ call \in [Runners -> Calls]
      /\ RunnerOf[r] \in Scriptors
  BY RunnerAssumption DEF TypeInv, TypeOK, Calls, CallLocations, Results
<1>u. /\ cache \subseteq Shas
      /\ registry \in [Names -> Shas \cup {None}]
      /\ scripts \in [Scriptors -> [Names -> Entries \cup {None}]]
  BY <1>0 DEF TypeOK
<1>t. ASSUME call' \in [Runners -> Calls], AtHand', boot' = boot,
             cache' \subseteq Shas,
             registry' \in [Names -> Shas \cup {None}],
             scripts' \in [Scriptors -> [Names -> Entries \cup {None}]],
             UNCHANGED history
      PROVE  TypeInv'
  BY <1>0, <1>t DEF TypeInv, TypeOK, Calls, CallLocations, Results
<1>1. CASE ExecSha(r)
  <2>1. PICK n \in Names :
          /\ scripts[RunnerOf[r]][n] # None
          /\ call' = [call EXCEPT ![r] =
                        [pc |-> "evalsha", name |-> n,
                         entry |-> scripts[RunnerOf[r]][n], ran |-> 0,
                         runs |-> None, raced |-> FALSE, result |-> "none"]]
    BY <1>1 DEF ExecSha
  <2> DEFINE k == [pc |-> "evalsha", name |-> n,
                   entry |-> scripts[RunnerOf[r]][n], ran |-> 0,
                   runs |-> None, raced |-> FALSE, result |-> "none"]
  <2>2. scripts[RunnerOf[r]][n] \in Entries
    BY <1>0, <1>u, <2>1
  <2>3. k \in Calls /\ k.entry \in Entries /\ k.name \in Names /\ k.pc = "evalsha"
    BY <2>2 DEF Calls, CallLocations, Results
  <2>4. call' \in [Runners -> Calls] /\ AtHand'
    <3>1. boot' = boot /\ call' = [call EXCEPT ![r] = k]
      BY <1>1, <2>1 DEF ExecSha
    <3> HIDE DEF k
    <3> QED
      BY <2>3, <3>1, CallStep
  <2> QED
    BY <1>1, <1>t, <1>u, <2>4 DEF ExecSha
<1>2. CASE EvalSha(r)
  <2>1. UNCHANGED <<server, scripts, boot, history>> /\ call[r].pc = "evalsha"
    BY <1>2 DEF EvalSha, At
  <2>2. call[r].entry \in Entries /\ call[r].entry.sha \in Shas
        /\ call[r].entry.body \in Bodies \cup {None}
    BY <2>1 DEF TypeInv, AtHand, Entries
  <2>3. CASE Run(r, call[r].entry.sha, "ok") \/ Return(r, "notcached")
    <3>1. call' \in [Runners -> Calls] /\ AtHand'
      BY <2>1, <2>2, <2>3, CallReturn DEF Results
    <3> QED
      BY <1>t, <1>u, <2>1, <3>1
  <2>4. CASE call[r].entry.body # None /\ CallGoto(r, "load")
    <3>1. call' \in [Runners -> Calls] /\ AtHand'
      BY <2>1, <2>2, <2>4, CallGotoTyped
    <3> QED
      BY <1>t, <1>u, <2>1, <3>1
  <2> QED
    BY <1>2, <2>3, <2>4 DEF EvalSha
<1>3. CASE Reload(r)
  <2>1. call[r].entry.body \in Bodies /\ NewSha(r) \in Shas /\ call[r].pc = "load"
    BY <1>3, NewShaTyped DEF Reload, At
  <2>2. call' = [call EXCEPT ![r] = [call[r] EXCEPT !.pc = "store", !.raced = FALSE]]
    BY <1>3 DEF Reload
  <2>3. call' \in [Runners -> Calls] /\ AtHand'
    BY <1>3, <2>1, <2>2, CallGotoStep DEF Reload
  <2> QED
    BY <1>3, <1>t, <1>u, <2>1, <2>3 DEF Reload
<1>4. CASE Store(r)
  <2>1. /\ call[r].entry.body \in Bodies /\ NewSha(r) \in Shas /\ call[r].name \in Names
        /\ call[r].pc = "store" /\ CallGoto(r, "persist") /\ UNCHANGED <<server, boot, history>>
    BY <1>4, NewShaTyped DEF Store, At
  <2>2. call' \in [Runners -> Calls] /\ AtHand'
    BY <2>1, CallGotoTyped
  <2>3. scripts[RunnerOf[r]][call[r].name] \in Entries
    BY <1>0, <1>u, <2>1 DEF EntryStays
  <2>4. [scripts[RunnerOf[r]][call[r].name] EXCEPT !.sha = NewSha(r)] \in Entries
    BY <2>1, <2>3 DEF Entries
  <2>5. scripts' \in [Scriptors -> [Names -> Entries \cup {None}]]
    BY <1>0, <1>4, <1>u, <2>1, <2>4 DEF Store
  <2> QED
    BY <1>t, <1>u, <2>1, <2>2, <2>5
<1>5. CASE PersistNew(r)
  <2>1. /\ call[r].entry.body \in Bodies /\ NewSha(r) \in Shas
        /\ call[r].pc = "persist" /\ CallGoto(r, "retry")
        /\ UNCHANGED <<cache, scripts, boot, history>>
    BY <1>5, NewShaTyped DEF PersistNew, At
  <2>2. call' \in [Runners -> Calls] /\ AtHand'
    BY <2>1, CallGotoTyped
  <2>3. registry' \in [Names -> Shas \cup {None}]
    BY <1>5, <1>u, <2>1 DEF PersistNew
  <2> QED
    BY <1>t, <1>u, <2>1, <2>2, <2>3
<1>6. CASE Retry(r)
  <2>1. NewSha(r) \in Shas /\ UNCHANGED <<server, scripts, boot, history>>
    BY <1>6, NewShaTyped DEF Retry, At
  <2>2. call' \in [Runners -> Calls] /\ AtHand'
    BY <1>6, <2>1, CallReturn DEF Retry, Results
  <2> QED
    BY <1>t, <1>u, <2>1, <2>2
<1>7. CASE ExecFails(r)
  <2>1. UNCHANGED <<registry, scripts, boot, history>>
    BY <1>7 DEF ExecFails
  <2>2. CASE Return(r, "error")
    <3>1. call' \in [Runners -> Calls] /\ AtHand'
      BY <2>1, <2>2, CallReturn DEF Results
    <3>2. cache' \subseteq Shas
      BY <1>7, <1>u, NewShaTyped DEF ExecFails, At, Return, Run
    <3> QED
      BY <1>t, <1>u, <2>1, <3>1, <3>2
  <2>3. CASE \E sha \in cache : Run(r, sha, "error") /\ UNCHANGED cache
    <3>1. call' \in [Runners -> Calls] /\ AtHand'
      BY <1>u, <2>1, <2>3, CallReturn DEF Results
    <3> QED
      BY <1>t, <1>u, <2>1, <2>3, <3>1
  <2> QED
    BY <1>7, <2>2, <2>3 DEF ExecFails
<1> QED
  BY <1>1, <1>2, <1>3, <1>4, <1>5, <1>6, <1>7 DEF ExecShaStep

\* Exec, or Redis.
LEMMA RedisTyped ==
    ASSUME TypeInv, (\E b \in Bodies : Exec(b)) \/ ScriptFlush \/ FlushAll
    PROVE  TypeInv'
<1>0. /\ TypeOK /\ call \in [Runners -> Calls]
  BY DEF TypeInv, TypeOK, Calls, CallLocations, Results
<1>1. ASSUME NEW b \in Bodies, Exec(b)
      PROVE  TypeInv'
  BY <1>1, ShaTyped DEF TypeInv, TypeOK, AtHand, Exec, history
<1>2. CASE ScriptFlush
  <2>1. /\ cache' = {} /\ flushed' = TRUE
        /\ UNCHANGED <<registry, scripts, boot, newest>>
        /\ call' = [r \in Runners |-> [call[r] EXCEPT !.raced = TRUE]]
    BY <1>2 DEF ScriptFlush
  <2>2. \A r \in Runners :
          /\ [call[r] EXCEPT !.raced = TRUE] \in Calls
          /\ [call[r] EXCEPT !.raced = TRUE].pc = call[r].pc
          /\ [call[r] EXCEPT !.raced = TRUE].name = call[r].name
          /\ [call[r] EXCEPT !.raced = TRUE].entry = call[r].entry
    BY <1>0 DEF Calls
  <2>3. call' \in [Runners -> Calls]
    BY <2>1, <2>2
  <2>4. AtHand'
    BY <2>1, <2>2 DEF TypeInv, AtHand
  <2>5. TypeOK'
    BY <1>0, <2>1, <2>3 DEF TypeOK, Calls, CallLocations, Results
  <2> QED
    BY <2>4, <2>5 DEF TypeInv
<1>3. CASE FlushAll
  BY <1>3 DEF TypeInv, TypeOK, AtHand, FlushAll, history
<1> QED
  BY <1>1, <1>2, <1>3

-----------------------------------------------------------------------------
(* Entries are never removed.                                              *)

\* No entry of any Scriptor is gone after the step.
Grown ==
    \A s \in Scriptors, n \in Names : scripts[s][n] # None => scripts'[s][n] # None

LEMMA NewGrows ==
    ASSUME TypeInv, TypeInv', NEW s \in Scriptors, New(s)
    PROVE  Grown /\ call' = call
<1>1. scripts \in [Scriptors -> [Names -> Entries \cup {None}]]
  BY DEF TypeInv, TypeOK
<1>2. \A sha, b : [sha |-> sha, body |-> b] # None \/ [sha |-> sha, body |-> b] \notin Entries
  BY NoneAssumption
<1>3. scripts' \in [Scriptors -> [Names -> Entries \cup {None}]]
  BY DEF TypeInv, TypeOK
<1>4. CASE UNCHANGED <<scripts, call>>
  BY <1>4 DEF Grown
<1>5. ASSUME NEW n, NEW e \in Entries, scripts' = [scripts EXCEPT ![s][n] = e], call' = call
      PROVE  Grown /\ call' = call
  BY <1>1, <1>5, NoneAssumption DEF Grown
<1>6. CASE Exists(s) \/ Persist(s)
  <2>1. CASE UNCHANGED <<scripts, call>>
    BY <1>4, <2>1
  <2>2. CASE \E sha \in Shas : Registered(s, sha) /\ boot[s].pc \in {"exists", "persist"} /\ call' = call
    <3>1. PICK sha \in Shas : Registered(s, sha) /\ boot[s].pc \in {"exists", "persist"} /\ call' = call
      BY <2>2
    <3>2. [sha |-> sha, body |-> Body(s)] \in Entries
      BY <3>1, BodyTyped DEF Entries
    <3> QED
      BY <1>5, <3>1, <3>2 DEF Registered
  <2>3. cache \subseteq Shas
    BY DEF TypeInv, TypeOK
  <2> QED
    BY <1>6, <2>1, <2>2, <2>3, BodyTyped DEF Exists, Persist, Reusable, Booting
<1>7. CASE Verify(s)
  <2>1. CASE UNCHANGED <<scripts, call>>
    BY <1>4, <2>1
  <2>2. CASE \E n \in boot[s].todo :
               /\ boot[s].seen[n] \in cache /\ call' = call
               /\ scripts' = [scripts EXCEPT ![s][n] = [sha |-> boot[s].seen[n], body |-> None]]
    <3>1. cache \subseteq Shas
      BY DEF TypeInv, TypeOK
    <3> QED
      BY <1>5, <2>2, <3>1 DEF Entries
  <2> QED
    BY <1>7, <2>1, <2>2 DEF Verify
<1> QED
  BY <1>4, <1>6, <1>7 DEF New, Begin, Lookup, Load, HGetAll, NewFails

\* The shape of a step of ExecSha once it has read its entry.
LEMMA ExecShaForm ==
    ASSUME TypeInv, EntryStays, NEW r \in Runners, ExecShaStep(r)
    PROVE  /\ call[r].pc # "idle"
           /\ \A q \in Runners : call'[q].pc # "idle" =>
                /\ call[q].pc # "idle"
                /\ call'[q].name = call[q].name /\ call'[q].entry = call[q].entry
           /\ Grown
<1>1. /\ call \in [Runners -> Calls] /\ RunnerOf[r] \in Scriptors
      /\ scripts \in [Scriptors -> [Names -> Entries \cup {None}]]
  BY RunnerAssumption DEF TypeInv, TypeOK, Calls, CallLocations, Results
<1>2. call[r].pc # "idle" /\ call[r].name \in Names
  BY DEF ExecShaStep, EvalSha, Reload, Store, PersistNew, Retry, ExecFails, At, TypeInv, AtHand
<1>3. \A q \in Runners : call'[q].pc # "idle" =>
         /\ call[q].pc # "idle"
         /\ call'[q].name = call[q].name /\ call'[q].entry = call[q].entry
  <2>1. \/ \E l : CallGoto(r, l)
        \/ \E res : Return(r, res)
        \/ \E sha, res : Run(r, sha, res)
        \/ call' = [call EXCEPT ![r].pc = "store", ![r].raced = FALSE]
    BY DEF ExecShaStep, EvalSha, Reload, Store, PersistNew, Retry, ExecFails
  <2>2. call[r] \in Calls
    BY <1>1
  <2>3. CASE \E l : CallGoto(r, l)
    BY <1>1, <1>2, <2>2, <2>3 DEF CallGoto, Calls
  <2>4. CASE \E res : Return(r, res)
    BY <1>1, <1>2, <2>2, <2>4 DEF Return, Calls
  <2>5. CASE \E sha, res : Run(r, sha, res)
    BY <1>1, <1>2, <2>2, <2>5 DEF Run, Calls
  <2>6. CASE call' = [call EXCEPT ![r].pc = "store", ![r].raced = FALSE]
    BY <1>1, <1>2, <2>2, <2>6 DEF Calls
  <2> QED
    BY <2>1, <2>3, <2>4, <2>5, <2>6
<1>4. Grown
  <2>1. CASE scripts' = scripts
    BY <2>1 DEF Grown
  <2>2. CASE Store(r)
    <3>1. scripts[RunnerOf[r]][call[r].name] \in Entries
      BY <1>1, <1>2 DEF EntryStays
    <3>2. [scripts[RunnerOf[r]][call[r].name] EXCEPT !.sha = NewSha(r)] \in Entries
      BY <2>2, <3>1, NewShaTyped DEF Entries, Store, At
    <3> QED
      BY <1>1, <1>2, <2>2, <3>2, NoneAssumption DEF Grown, Store
  <2> QED
    BY <2>1, <2>2 DEF ExecShaStep, EvalSha, Reload, PersistNew, Retry, ExecFails
<1> QED
  BY <1>2, <1>3, <1>4

\* Types and entries hold together.
LEMMA TypeInvStep ==
    ASSUME TypeInv, EntryStays, [Next]_vars
    PROVE  TypeInv' /\ EntryStays'
<1>0. call \in [Runners -> Calls] /\ RunnerOf \in [Runners -> Scriptors]
  BY RunnerAssumption DEF TypeInv, TypeOK, Calls, CallLocations, Results
<1>n. \A r \in Runners : call[r].pc # "idle" => call[r].name \in Names
  BY DEF TypeInv, AtHand
<1>1. ASSUME NEW s \in Scriptors, New(s)
      PROVE  TypeInv' /\ EntryStays'
  <2>1. TypeInv'
    BY <1>1, NewTyped
  <2>2. Grown /\ call' = call
    BY <1>1, <2>1, NewGrows
  <2> QED
    BY <1>0, <1>n, <2>1, <2>2 DEF EntryStays, Grown
<1>2. ASSUME NEW r \in Runners, ExecSha(r)
      PROVE  TypeInv' /\ EntryStays'
  <2>1. TypeInv'
    BY <1>2, ExecShaTyped
  <2>2. PICK n \in Names :
          /\ scripts[RunnerOf[r]][n] # None
          /\ call' = [call EXCEPT ![r] =
                        [pc |-> "evalsha", name |-> n,
                         entry |-> scripts[RunnerOf[r]][n], ran |-> 0,
                         runs |-> None, raced |-> FALSE, result |-> "none"]]
    BY <1>2 DEF ExecSha
  <2>3. scripts' = scripts
    BY <1>2 DEF ExecSha
  <2> QED
    BY <1>0, <2>1, <2>2, <2>3 DEF EntryStays
<1>3. ASSUME NEW r \in Runners, ExecShaStep(r)
      PROVE  TypeInv' /\ EntryStays'
  <2>1. TypeInv'
    BY <1>3, ExecShaTyped
  <2> QED
    BY <1>0, <1>3, <1>n, <2>1, ExecShaForm DEF EntryStays, Grown
<1>4. CASE (\E b \in Bodies : Exec(b)) \/ ScriptFlush \/ FlushAll
  <2>1. TypeInv'
    BY <1>4, RedisTyped
  <2>2. scripts' = scripts
    BY <1>4 DEF Exec, ScriptFlush, FlushAll
  <2>3. \A r \in Runners : call'[r].pc = call[r].pc /\ call'[r].name = call[r].name
    BY <1>0, <1>4 DEF Exec, ScriptFlush, FlushAll, Calls
  <2> QED
    BY <2>1, <2>2, <2>3 DEF EntryStays
<1>5. CASE UNCHANGED vars
  BY <1>5 DEF vars, TypeInv, TypeOK, AtHand, EntryStays
<1> QED
  BY <1>1, <1>2, <1>3, <1>4, <1>5 DEF Next

RegInv == TypeInv /\ EntryStays

LEMMA RegInvAlways == Spec => []RegInv
<1>1. Init => RegInv
  BY TypeInvInit DEF Init, EntryStays, RegInv
<1>2. RegInv /\ [Next]_vars => RegInv'
  BY TypeInvStep DEF RegInv
<1> QED
  BY <1>1, <1>2, PTL DEF Spec

\* Every variable keeps its type (TypeOK), whatever the names, bodies and
\* Scriptors; in particular the SHA that a repair stores and persists is one,
\* and the entry it updates exists.
THEOREM RegistryTypeCorrect == Spec => []TypeOK
<1>1. RegInv => TypeOK
  BY DEF RegInv, TypeInv
<1> QED
  BY <1>1, RegInvAlways, PTL

-----------------------------------------------------------------------------
(* How one step of ExecSha ends: the runner goes on, returns without a run *)
(* of the script, or returns after one.                                    *)

GoesOn(r) ==
    /\ call'[r].pc # "idle"
    /\ call'[r].ran = call[r].ran /\ call'[r].runs = call[r].runs
    /\ call'[r].result = call[r].result

Returns(r) ==
    /\ call'[r].pc = "idle" /\ call'[r].raced = call[r].raced
    /\ call'[r].ran = call[r].ran /\ call'[r].runs = call[r].runs
    /\ \/ call'[r].result = "error"
       \/ call'[r].result = "notcached" /\ call[r].entry.body = None
       \/ call'[r].result = "noscript" /\ call[r].pc = "retry" /\ NewSha(r) \notin cache

Executes(r) ==
    /\ call'[r].pc = "idle" /\ call'[r].raced = call[r].raced
    /\ call'[r].ran = call[r].ran + 1 /\ call'[r].result \in {"ok", "error"}
    /\ call'[r].runs \in {call[r].entry.sha, NewSha(r)}

LEMMA ExecShaEnds ==
    ASSUME TypeInv, NEW r \in Runners, ExecShaStep(r)
    PROVE  /\ GoesOn(r) \/ Returns(r) \/ Executes(r)
           /\ call[r].pc # "idle"
           /\ call'[r].name = call[r].name /\ call'[r].entry = call[r].entry
           /\ \A q \in Runners \ {r} : call'[q] = call[q]
<1>1. call \in [Runners -> Calls] /\ call[r] \in Calls
  BY DEF TypeInv, TypeOK, Calls, CallLocations, Results
<1>2. call[r].pc # "idle"
  BY DEF ExecShaStep, EvalSha, Reload, Store, PersistNew, Retry, ExecFails, At
<1>3. ASSUME NEW l \in {"load", "persist", "retry"}, CallGoto(r, l)
      PROVE  /\ GoesOn(r) /\ call'[r].name = call[r].name /\ call'[r].entry = call[r].entry
             /\ \A q \in Runners \ {r} : call'[q] = call[q]
  BY <1>1, <1>3 DEF CallGoto, Calls, GoesOn
<1>4. ASSUME NEW res, Return(r, res),
             \/ res = "error"
             \/ res = "notcached" /\ call[r].entry.body = None
             \/ res = "noscript" /\ call[r].pc = "retry" /\ NewSha(r) \notin cache
      PROVE  /\ Returns(r) /\ call'[r].name = call[r].name /\ call'[r].entry = call[r].entry
             /\ \A q \in Runners \ {r} : call'[q] = call[q]
  BY <1>1, <1>4 DEF Return, Calls, Returns
<1>5. ASSUME NEW res \in {"ok", "error"}, NEW sha \in {call[r].entry.sha, NewSha(r)},
             Run(r, sha, res)
      PROVE  /\ Executes(r) /\ call'[r].name = call[r].name /\ call'[r].entry = call[r].entry
             /\ \A q \in Runners \ {r} : call'[q] = call[q]
  BY <1>1, <1>5 DEF Run, Calls, Executes
<1>6. CASE Reload(r)
  <2>1. call' = [call EXCEPT ![r].pc = "store", ![r].raced = FALSE]
    BY <1>6 DEF Reload
  <2> QED
    BY <1>1, <1>2, <2>1 DEF Calls, GoesOn
<1>7. CASE EvalSha(r)
  BY <1>2, <1>3, <1>4, <1>5, <1>7 DEF EvalSha
<1>8. CASE Store(r) \/ PersistNew(r)
  BY <1>2, <1>3, <1>8 DEF Store, PersistNew
<1>9. CASE Retry(r)
  BY <1>2, <1>4, <1>5, <1>9 DEF Retry, At
<1>10. CASE ExecFails(r)
  BY <1>2, <1>4, <1>5, <1>10 DEF ExecFails
<1> QED
  BY <1>6, <1>7, <1>8, <1>9, <1>10 DEF ExecShaStep

\* ExecSha starts: a fresh call with the entry just read.
LEMMA ExecShaStarts ==
    ASSUME TypeInv, NEW r \in Runners, ExecSha(r)
    PROVE  /\ call'[r].pc = "evalsha" /\ call'[r].ran = 0 /\ call'[r].runs = None
           /\ call'[r].result = "none"
           /\ call'[r].name \in Names
           /\ call'[r].entry = scripts[RunnerOf[r]][call'[r].name]
           /\ call'[r].entry # None
           /\ \A q \in Runners \ {r} : call'[q] = call[q]
           /\ UNCHANGED <<cache, registry, scripts, boot, newest, flushed>>
<1>1. call \in [Runners -> Calls]
  BY DEF TypeInv, TypeOK, Calls, CallLocations, Results
<1> QED
  BY <1>1 DEF ExecSha, server, history

\* The other steps leave calls alone, but for raced.
LEMMA OthersKeepCalls ==
    ASSUME TypeInv,
           \/ \E s \in Scriptors : New(s)
           \/ \E b \in Bodies : Exec(b)
           \/ ScriptFlush \/ FlushAll \/ UNCHANGED vars
    PROVE  \A r \in Runners :
              /\ call'[r].pc = call[r].pc /\ call'[r].name = call[r].name
              /\ call'[r].entry = call[r].entry /\ call'[r].ran = call[r].ran
              /\ call'[r].runs = call[r].runs /\ call'[r].result = call[r].result
              /\ call'[r].raced = call[r].raced \/ call'[r].raced
<1>1. call \in [Runners -> Calls]
  BY DEF TypeInv, TypeOK, Calls, CallLocations, Results
<1>2. CASE call' = call
  BY <1>2
<1>3. CASE ScriptFlush
  BY <1>1, <1>3 DEF ScriptFlush, Calls
<1> QED
  BY <1>2, <1>3 DEF New, Begin, Lookup, Exists, Load, Persist, HGetAll, Verify, NewFails,
                    Exec, FlushAll, vars

-----------------------------------------------------------------------------
(* One execution per call.                                                 *)

\* Nothing has run yet as long as ExecSha has not returned.
NothingRunYet ==
    \A r \in Runners : call[r].pc # "idle" =>
        call[r].ran = 0 /\ call[r].runs = None /\ call[r].result = "none"

OnceInv == NothingRunYet /\ AtMostOnce

LEMMA OnceInvStep ==
    ASSUME RegInv, OnceInv, [Next]_vars
    PROVE  OnceInv'
<1>0. TypeInv
  BY DEF RegInv
<1>1. ASSUME NEW r \in Runners, ExecSha(r)
      PROVE  OnceInv'
  BY <1>0, <1>1, ExecShaStarts DEF OnceInv, NothingRunYet, AtMostOnce
<1>2. ASSUME NEW r \in Runners, ExecShaStep(r)
      PROVE  OnceInv'
  <2>1. /\ call[r].ran = 0 /\ call[r].runs = None /\ call[r].result = "none"
        /\ \A q \in Runners \ {r} : call'[q] = call[q]
    BY <1>0, <1>2, ExecShaEnds DEF OnceInv, NothingRunYet
  <2>2. CASE GoesOn(r)
    BY <2>1, <2>2 DEF GoesOn, OnceInv, NothingRunYet, AtMostOnce
  <2>3. CASE Returns(r)
    BY <2>1, <2>3 DEF Returns, OnceInv, NothingRunYet, AtMostOnce
  <2>4. CASE Executes(r)
    BY <2>1, <2>4 DEF Executes, OnceInv, NothingRunYet, AtMostOnce
  <2> QED
    BY <1>0, <1>2, <2>2, <2>3, <2>4, ExecShaEnds
<1>3. CASE \/ \E s \in Scriptors : New(s)
           \/ \E b \in Bodies : Exec(b)
           \/ ScriptFlush \/ FlushAll \/ UNCHANGED vars
  BY <1>0, <1>3, OthersKeepCalls DEF OnceInv, NothingRunYet, AtMostOnce
<1> QED
  BY <1>1, <1>2, <1>3 DEF Next

\* One ExecSha runs its script at most once (AtMostOnce): a reply lost on the
\* first or the second EVALSHA ends the call, and only NOSCRIPT, which means
\* that nothing ran, leads to the repair and its retry.
THEOREM AtMostOnceAlways == Spec => []AtMostOnce
<1>1. Init => OnceInv
  BY DEF Init, OnceInv, NothingRunYet, AtMostOnce
<1>2. RegInv /\ OnceInv /\ [Next]_vars => OnceInv'
  BY OnceInvStep
<1>3. OnceInv => AtMostOnce
  BY DEF OnceInv
<1> QED
  BY <1>1, <1>2, <1>3, RegInvAlways, PTL DEF Spec

-----------------------------------------------------------------------------
(* A Scriptor runs its own bodies.                                         *)

\* e is what register makes of n.
OwnEntry(s, n, e) ==
    /\ n \in DOMAIN Given[s]
    /\ e.sha = sha1Hex(Given[s][n]) /\ e.body = Given[s][n]

\* Of a Scriptor built with bodies every entry is its own, and New never goes
\* to the registry for others.
EntriesOwn ==
    \A s \in Scriptors : WithBodies(s) =>
        /\ boot[s].pc \notin {"hgetall", "verify"}
        /\ \A n \in Names : scripts[s][n] # None => OwnEntry(s, n, scripts[s][n])

\* So is the entry that a call has read.
CallsOwn ==
    \A r \in Runners : (WithBodies(RunnerOf[r]) /\ call[r].pc # "idle") =>
        OwnEntry(RunnerOf[r], call[r].name, call[r].entry)

OwnInv == EntriesOwn /\ CallsOwn /\ RunsOwnBody

\* What register stores is the Scriptor's own, whether the SHA was reused or
\* just loaded.
LEMMA RegisteredOwn ==
    ASSUME TypeInv, EntriesOwn, NEW s \in Scriptors, boot[s].pc \in {"exists", "persist"},
           Registered(s, sha1Hex(Body(s)))
    PROVE  EntriesOwn'
<1> DEFINE n == boot[s].name
           e == [sha |-> sha1Hex(Body(s)), body |-> Body(s)]
<1>1. n \in Names /\ n \in DOMAIN Given[s] /\ Body(s) = Given[s][n]
  BY BodyTyped DEF TypeInv, AtHand, Body
<1>2. OwnEntry(s, n, e)
  BY <1>1 DEF OwnEntry
<1>3. /\ scripts \in [Scriptors -> [Names -> Entries \cup {None}]]
      /\ boot \in [Scriptors -> Boots]
  BY DEF TypeInv, TypeOK, Boots, BootLocations
<1>4. scripts' = [scripts EXCEPT ![s][n] = e]
  BY DEF Registered
<1>5. boot'[s].pc \in {"ready", "lookup"} /\ \A t \in Scriptors \ {s} : boot'[t] = boot[t]
  BY <1>3 DEF Registered, Boots
<1>6. ASSUME NEW t \in Scriptors, WithBodies(t), NEW m \in Names, scripts'[t][m] # None
      PROVE  OwnEntry(t, m, scripts'[t][m])
  <2> HIDE DEF e, n
  <2>1. CASE t = s /\ m = n
    <3>1. scripts'[t][m] = e
      BY <1>1, <1>3, <1>4, <2>1
    <3> QED
      BY <1>2, <2>1, <3>1
  <2>2. CASE ~(t = s /\ m = n)
    <3>1. scripts'[t][m] = scripts[t][m]
      BY <1>1, <1>3, <1>4, <2>2
    <3> QED
      BY <1>6, <3>1 DEF EntriesOwn
  <2> QED
    BY <2>1, <2>2
<1> QED
  BY <1>5, <1>6 DEF EntriesOwn, WithBodies

LEMMA NewKeepsOwn ==
    ASSUME TypeInv, EntriesOwn, NEW s \in Scriptors, New(s)
    PROVE  EntriesOwn'
<1>0. /\ scripts \in [Scriptors -> [Names -> Entries \cup {None}]]
      /\ boot \in [Scriptors -> Boots]
  BY DEF TypeInv, TypeOK, Boots, BootLocations
\* A step that leaves the entries alone and does not go to the registry.
<1>s. ASSUME scripts' = scripts, \A t \in Scriptors \ {s} : boot'[t] = boot[t],
             WithBodies(s) => boot'[s].pc \notin {"hgetall", "verify"}
      PROVE  EntriesOwn'
  BY <1>s DEF EntriesOwn, WithBodies, OwnEntry
<1>1. CASE Begin(s)
  BY <1>0, <1>1, <1>s DEF Begin, WithBodies, Boots
<1>2. CASE Lookup(s)
  BY <1>0, <1>2, <1>s DEF Lookup, Boots
<1>3. CASE Exists(s)
  <2>1. CASE Reusable(s) /\ Registered(s, boot[s].seen[boot[s].name])
    BY <1>3, <2>1, RegisteredOwn DEF Reusable, Exists, Booting
  <2>2. CASE BootGoto(s, "load") /\ UNCHANGED <<scripts, newest>>
    BY <1>0, <2>2, <1>s DEF BootGoto, Boots
  <2> QED
    BY <1>3, <2>1, <2>2 DEF Exists
<1>4. CASE Load(s)
  BY <1>0, <1>4, <1>s DEF Load, BootGoto, Boots
<1>5. CASE Persist(s)
  BY <1>5, RegisteredOwn DEF Persist, Booting
<1>6. CASE HGetAll(s) \/ Verify(s)
  <2>1. ~WithBodies(s)
    BY <1>6 DEF EntriesOwn, HGetAll, Verify, Booting
  <2>2. \A t \in Scriptors \ {s} : boot'[t] = boot[t] /\ scripts'[t] = scripts[t]
    BY <1>0, <1>6 DEF HGetAll, Verify, BootGoto
  <2> QED
    BY <2>1, <2>2 DEF EntriesOwn, WithBodies, OwnEntry
<1>7. CASE NewFails(s)
  BY <1>0, <1>7, <1>s DEF NewFails, BootGoto, Boots
<1> QED
  BY <1>1, <1>2, <1>3, <1>4, <1>5, <1>6, <1>7 DEF New

\* The repair puts the SHA of the body that was there before.
LEMMA RepairKeepsOwn ==
    ASSUME RegInv, EntriesOwn, CallsOwn, NEW r \in Runners, ExecSha(r) \/ ExecShaStep(r)
    PROVE  EntriesOwn'
<1>0. /\ scripts \in [Scriptors -> [Names -> Entries \cup {None}]]
      /\ TypeInv /\ RunnerOf[r] \in Scriptors
  BY RunnerAssumption DEF RegInv, TypeInv, TypeOK
<1>1. boot' = boot
  BY DEF ExecSha, ExecShaStep, EvalSha, Reload, Store, PersistNew, Retry, ExecFails
<1>2. CASE scripts' = scripts
  BY <1>1, <1>2 DEF EntriesOwn, WithBodies, OwnEntry
<1>3. CASE Store(r)
  <2> DEFINE s == RunnerOf[r]
             n == call[r].name
  <2>1. /\ call[r].pc = "store" /\ n \in Names
        /\ scripts' = [scripts EXCEPT ![s][n].sha = NewSha(r)]
    BY <1>0, <1>3, NewShaTyped DEF Store, At
  <2>2. scripts[s][n] \in Entries
    BY <1>0, <2>1 DEF RegInv, EntryStays
  <2>3. ASSUME NEW t \in Scriptors, WithBodies(t), NEW m \in Names, scripts'[t][m] # None
        PROVE  OwnEntry(t, m, scripts'[t][m])
    <3>1. CASE t = s /\ m = n
      <4>1. OwnEntry(s, n, call[r].entry) /\ OwnEntry(s, n, scripts[s][n])
        BY <1>0, <2>1, <2>2, <2>3, <3>1, NoneAssumption DEF CallsOwn, EntriesOwn
      <4>2. scripts'[t][m] = [scripts[s][n] EXCEPT !.sha = NewSha(r)]
        BY <1>0, <2>1, <3>1
      <4>3. scripts'[t][m].sha = NewSha(r) /\ scripts'[t][m].body = scripts[s][n].body
        BY <2>2, <4>2 DEF Entries
      <4> QED
        BY <3>1, <4>1, <4>3 DEF OwnEntry, NewSha
    <3>2. CASE ~(t = s /\ m = n)
      <4>1. scripts'[t][m] = scripts[t][m]
        BY <1>0, <2>1, <3>2
      <4> QED
        BY <2>3, <4>1 DEF EntriesOwn
    <3> QED
      BY <3>1, <3>2
  <2> QED
    BY <1>1, <2>3 DEF EntriesOwn, WithBodies
<1> QED
  BY <1>2, <1>3 DEF ExecSha, ExecShaStep, EvalSha, Reload, PersistNew, Retry, ExecFails

LEMMA OwnInvStep ==
    ASSUME RegInv, OnceInv, OwnInv, [Next]_vars
    PROVE  OwnInv'
<1>0. TypeInv /\ EntriesOwn /\ CallsOwn /\ RunsOwnBody /\ NothingRunYet
  BY DEF RegInv, OwnInv, OnceInv
<1>1. ASSUME NEW r \in Runners, ExecSha(r)
      PROVE  OwnInv'
  <2>1. EntriesOwn'
    BY <1>0, <1>1, RepairKeepsOwn
  <2>2. CallsOwn'
    BY <1>0, <1>1, ExecShaStarts, RunnerAssumption DEF CallsOwn, EntriesOwn, WithBodies
  <2>3. RunsOwnBody'
    BY <1>0, <1>1, ExecShaStarts DEF RunsOwnBody, WithBodies
  <2> QED
    BY <2>1, <2>2, <2>3 DEF OwnInv
<1>2. ASSUME NEW r \in Runners, ExecShaStep(r)
      PROVE  OwnInv'
  <2>1. EntriesOwn'
    BY <1>0, <1>2, RepairKeepsOwn
  <2>2. CallsOwn'
    BY <1>0, <1>2, ExecShaEnds DEF CallsOwn, WithBodies
  <2>3. RunsOwnBody'
    <3>1. \A q \in Runners \ {r} : call'[q] = call[q]
      BY <1>0, <1>2, ExecShaEnds
    <3>2. ASSUME call'[r].runs # None, WithBodies(RunnerOf[r])
          PROVE  /\ call'[r].name \in DOMAIN Given[RunnerOf[r]]
                 /\ call'[r].runs = sha1Hex(Given[RunnerOf[r]][call'[r].name])
      <4>1. call[r].pc # "idle" /\ call[r].runs = None /\ call'[r].name = call[r].name
        BY <1>0, <1>2, ExecShaEnds DEF NothingRunYet
      <4>2. OwnEntry(RunnerOf[r], call[r].name, call[r].entry)
        BY <1>0, <3>2, <4>1 DEF CallsOwn
      <4>3. Executes(r)
        BY <1>0, <1>2, <3>2, <4>1, ExecShaEnds DEF GoesOn, Returns
      <4> QED
        BY <4>1, <4>2, <4>3 DEF Executes, OwnEntry, NewSha
    <3> QED
      BY <1>0, <3>1, <3>2 DEF RunsOwnBody, WithBodies
  <2> QED
    BY <2>1, <2>2, <2>3 DEF OwnInv
<1>3. CASE \/ \E s \in Scriptors : New(s)
           \/ \E b \in Bodies : Exec(b)
           \/ ScriptFlush \/ FlushAll \/ UNCHANGED vars
  <2>1. EntriesOwn'
    <3>1. CASE UNCHANGED <<boot, scripts>>
      BY <1>0, <3>1 DEF EntriesOwn, WithBodies, OwnEntry
    <3> QED
      BY <1>0, <1>3, <3>1, NewKeepsOwn DEF Exec, ScriptFlush, FlushAll, vars
  <2>2. CallsOwn'
    BY <1>0, <1>3, OthersKeepCalls DEF CallsOwn, WithBodies
  <2>3. RunsOwnBody'
    BY <1>0, <1>3, OthersKeepCalls DEF RunsOwnBody, WithBodies
  <2> QED
    BY <2>1, <2>2, <2>3 DEF OwnInv
<1> QED
  BY <1>1, <1>2, <1>3 DEF Next

LEMMA OwnInvAlways == Spec => [](OnceInv /\ OwnInv)
<1>1. Init => OnceInv /\ OwnInv
  BY RunnerAssumption
     DEF Init, OnceInv, NothingRunYet, AtMostOnce, OwnInv, EntriesOwn, CallsOwn, RunsOwnBody
<1>2. RegInv /\ OnceInv /\ OwnInv /\ [Next]_vars => (OnceInv /\ OwnInv)'
  BY OnceInvStep, OwnInvStep
<1> QED
  BY <1>1, <1>2, RegInvAlways, PTL DEF Spec

\* A Scriptor built with bodies never runs another body under one of its names
\* (RunsOwnBody): register keeps a SHA it found in the registry only if it is
\* that of the present body, and repairs by other goroutines rewrite the entry
\* with the SHA of the body it holds.
THEOREM RunsOwnBodyAlways == Spec => []RunsOwnBody
<1>1. OwnInv => RunsOwnBody
  BY DEF OwnInv
<1> QED
  BY <1>1, OwnInvAlways, PTL

-----------------------------------------------------------------------------
(* The repair heals.                                                       *)

Repairing(r) == call[r].pc \in {"store", "persist", "retry"}

\* After its reload the body of a runner stays in the cache, unless the cache
\* was lost since.
ReloadHolds == \A r \in Runners : Repairing(r) => call[r].raced \/ NewSha(r) \in cache

HealInv == ReloadHolds /\ SelfHeals

\* What the steps of a runner do to the cache, and where they lead.
LEMMA RepairOrder ==
    ASSUME TypeInv, NEW r \in Runners, ExecShaStep(r), call'[r].pc # "idle"
    PROVE  \/ call'[r].pc = "load"
           \/ call'[r].pc = "store" /\ NewSha(r) \in cache'
           \/ Repairing(r) /\ Repairing(r)' /\ call'[r].raced = call[r].raced /\ cache' = cache
<1>1. call \in [Runners -> Calls] /\ call[r] \in Calls
  BY DEF TypeInv, TypeOK, Calls, CallLocations, Results
<1>2. CASE Reload(r)
  BY <1>1, <1>2 DEF Reload, Calls
<1>3. CASE Store(r) \/ PersistNew(r)
  BY <1>1, <1>3 DEF Store, PersistNew, CallGoto, Repairing, At, Calls, server
<1>4. CASE EvalSha(r)
  BY <1>1, <1>4 DEF EvalSha, CallGoto, Run, Return, Calls
<1>5. CASE Retry(r) \/ ExecFails(r)
  BY <1>1, <1>5 DEF Retry, ExecFails, Run, Return, Calls
<1> QED
  BY <1>2, <1>3, <1>4, <1>5 DEF ExecShaStep

\* Only Redis loses scripts.
LEMMA CacheGrows ==
    ASSUME [Next]_vars, ~ScriptFlush
    PROVE  cache \subseteq cache' /\ flushed' = flushed
<1>1. ASSUME NEW s \in Scriptors, New(s)
      PROVE  cache \subseteq cache' /\ flushed' = flushed
  BY <1>1 DEF New, Begin, Lookup, Exists, Load, Persist, HGetAll, Verify, NewFails,
              server, history
<1>2. ASSUME NEW r \in Runners, ExecSha(r) \/ ExecShaStep(r)
      PROVE  cache \subseteq cache' /\ flushed' = flushed
  BY <1>2 DEF ExecSha, ExecShaStep, EvalSha, Reload, Store, PersistNew, Retry, ExecFails,
              server, history
<1>3. CASE (\E b \in Bodies : Exec(b)) \/ FlushAll \/ UNCHANGED vars
  BY <1>3 DEF Exec, FlushAll, vars, history
<1> QED
  BY <1>1, <1>2, <1>3 DEF Next

LEMMA ReloadHoldsStep ==
    ASSUME TypeInv, ReloadHolds, [Next]_vars
    PROVE  ReloadHolds'
<1>0. call \in [Runners -> Calls]
  BY DEF TypeInv, TypeOK, Calls, CallLocations, Results
\* A runner that is where it was.
<1>s. ASSUME NEW q \in Runners, call'[q].pc = call[q].pc, call'[q].entry = call[q].entry,
             call'[q].raced = call[q].raced \/ call'[q].raced,
             cache \subseteq cache', Repairing(q)'
      PROVE  call'[q].raced \/ NewSha(q)' \in cache'
  BY <1>s DEF ReloadHolds, Repairing, NewSha
<1>1. ASSUME NEW r \in Runners, ExecSha(r)
      PROVE  ReloadHolds'
  <2>1. /\ \A q \in Runners \ {r} : call'[q] = call[q]
        /\ call'[r].pc = "evalsha" /\ cache' = cache
    BY <1>1, ExecShaStarts
  <2> QED
    BY <1>s, <2>1 DEF ReloadHolds, Repairing
<1>2. ASSUME NEW r \in Runners, ExecShaStep(r)
      PROVE  ReloadHolds'
  <2>1. /\ \A q \in Runners \ {r} : call'[q] = call[q]
        /\ call'[r].entry = call[r].entry
    BY <1>2, ExecShaEnds
  <2>2. cache \subseteq cache'
    BY <1>2 DEF ExecShaStep, EvalSha, Reload, Store, PersistNew, Retry, ExecFails, server
  <2>3. NewSha(r)' = NewSha(r)
    BY <2>1 DEF NewSha
  <2>4. Repairing(r)' => call'[r].raced \/ NewSha(r)' \in cache'
    BY <1>2, <2>3, RepairOrder DEF ReloadHolds, Repairing
  <2> QED
    BY <1>s, <2>1, <2>2, <2>4 DEF ReloadHolds, Repairing
<1>3. CASE ScriptFlush
  BY <1>0, <1>3 DEF ScriptFlush, ReloadHolds, Calls
<1>4. CASE /\ ~ScriptFlush
           /\ \/ \E s \in Scriptors : New(s)
              \/ \E b \in Bodies : Exec(b)
              \/ FlushAll \/ UNCHANGED vars
  <2>1. cache \subseteq cache'
    BY <1>4, CacheGrows
  <2> QED
    BY <1>4, <1>s, <2>1, OthersKeepCalls DEF ReloadHolds
<1> QED
  BY <1>1, <1>2, <1>3, <1>4 DEF Next

LEMMA HealInvStep ==
    ASSUME RegInv, OnceInv, OwnInv, HealInv, [Next]_vars
    PROVE  HealInv'
<1>0. TypeInv /\ CallsOwn /\ NothingRunYet /\ ReloadHolds /\ SelfHeals
  BY DEF RegInv, OwnInv, OnceInv, HealInv
<1>1. ReloadHolds'
  BY <1>0, ReloadHoldsStep
<1>2. SelfHeals'
  <2>1. ASSUME NEW r \in Runners, ExecSha(r)
        PROVE  SelfHeals'
    BY <1>0, <2>1, ExecShaStarts DEF SelfHeals, WithBodies
  <2>2. ASSUME NEW r \in Runners, ExecShaStep(r)
        PROVE  SelfHeals'
    <3>1. call[r].result = "none" /\ \A q \in Runners \ {r} : call'[q] = call[q]
      BY <1>0, <2>2, ExecShaEnds DEF NothingRunYet
    <3>2. ASSUME call'[r].result = "noscript"
          PROVE  call'[r].raced
      <4>1. Returns(r) /\ call[r].pc = "retry" /\ NewSha(r) \notin cache
        BY <1>0, <2>2, <3>1, <3>2, ExecShaEnds DEF GoesOn, Returns, Executes
      <4> QED
        BY <1>0, <4>1 DEF ReloadHolds, Repairing, Returns
    <3>3. ASSUME call'[r].result = "notcached", WithBodies(RunnerOf[r])
          PROVE  FALSE
      <4>1. call[r].pc # "idle" /\ call[r].entry.body = None
        BY <1>0, <2>2, <3>1, <3>3, ExecShaEnds DEF GoesOn, Returns, Executes
      <4>2. OwnEntry(RunnerOf[r], call[r].name, call[r].entry)
        BY <1>0, <3>3, <4>1 DEF CallsOwn
      <4>3. None \in Bodies
        BY <4>1, <4>2, GivenAssumption, RunnerAssumption DEF OwnEntry
      <4> QED
        BY <4>3, NoneAssumption
    <3> QED
      BY <1>0, <3>1, <3>2, <3>3 DEF SelfHeals, WithBodies
  <2>3. CASE \/ \E s \in Scriptors : New(s)
             \/ \E b \in Bodies : Exec(b)
             \/ ScriptFlush \/ FlushAll \/ UNCHANGED vars
    BY <1>0, <2>3, OthersKeepCalls DEF SelfHeals, WithBodies
  <2> QED
    BY <2>1, <2>2, <2>3 DEF Next
<1> QED
  BY <1>1, <1>2 DEF HealInv

\* With its body at hand ExecSha never reports a script as not cached, and
\* reports NOSCRIPT only when the cache was lost between its reload and its
\* retry (SelfHeals).
THEOREM SelfHealsAlways == Spec => []SelfHeals
<1>1. Init => HealInv
  BY DEF Init, HealInv, ReloadHolds, Repairing, SelfHeals
<1>2. RegInv /\ OnceInv /\ OwnInv /\ HealInv /\ [Next]_vars => HealInv'
  BY HealInvStep
<1>3. HealInv => SelfHeals
  BY DEF HealInv
<1> QED
  BY <1>1, <1>2, <1>3, RegInvAlways, OwnInvAlways, PTL DEF Spec

-----------------------------------------------------------------------------
(* The registry names loaded scripts.                                      *)

\* Whoever is about to persist a SHA has loaded its script.
PersistsLoaded ==
    /\ \A s \in Scriptors : boot[s].pc = "persist" => sha1Hex(Body(s)) \in cache
    /\ \A r \in Runners : call[r].pc \in {"store", "persist"} => NewSha(r) \in cache

LoadInv == ~flushed => PersistsLoaded /\ RegistryIsLoaded

LEMMA LoadInvStep ==
    ASSUME TypeInv, LoadInv, [Next]_vars
    PROVE  LoadInv'
<1>0. /\ call \in [Runners -> Calls] /\ boot \in [Scriptors -> Boots]
      /\ registry \in [Names -> Shas \cup {None}]
  BY DEF TypeInv, TypeOK, Calls, CallLocations, Results, Boots, BootLocations
<1>1. CASE ScriptFlush
  BY <1>1 DEF ScriptFlush, LoadInv
<1> SUFFICES ASSUME ~ScriptFlush, ~flushed
             PROVE  PersistsLoaded' /\ RegistryIsLoaded'
  BY <1>1, CacheGrows DEF LoadInv
<1>2. /\ PersistsLoaded /\ cache \subseteq cache'
      /\ \A n \in Names : registry[n] \in cache \cup {None}
  BY CacheGrows DEF LoadInv, RegistryIsLoaded
<1>3. ASSUME NEW s \in Scriptors, New(s)
      PROVE  PersistsLoaded' /\ RegistryIsLoaded'
  <2>1. call' = call /\ \A t \in Scriptors \ {s} : boot'[t] = boot[t]
    BY <1>0, <1>3 DEF New, Begin, Lookup, Exists, Load, Persist, HGetAll, Verify, NewFails,
                      Registered, BootGoto
  <2>2. boot'[s].pc = "persist" => boot'[s].name = boot[s].name /\ sha1Hex(Body(s)) \in cache'
    <3>1. CASE Load(s)
      BY <1>0, <3>1 DEF Load, BootGoto, Boots
    <3>2. CASE Exists(s) \/ Persist(s)
      BY <1>0, <3>2 DEF Exists, Persist, Registered, BootGoto, Boots
    <3>3. CASE Begin(s) \/ HGetAll(s) \/ Lookup(s)
      <4>1. \E l \in {"hgetall", "lookup", "ready", "verify", "load", "exists"} :
              boot'[s].pc = l
        <5>1. CASE Begin(s)
          BY <1>0, <5>1 DEF Begin, Boots
        <5>2. CASE HGetAll(s)
          BY <1>0, <5>2 DEF HGetAll, Boots
        <5>3. CASE Lookup(s)
          BY <1>0, <5>3 DEF Lookup, Boots
        <5> QED
          BY <3>3, <5>1, <5>2, <5>3
      <4> QED
        BY <4>1
    <3>4. CASE Verify(s)
      BY <1>0, <3>4 DEF Verify, BootGoto, Boots
    <3>5. CASE NewFails(s)
      <4>1. boot'[s].pc = "failed"
        BY <1>0, <3>5 DEF NewFails, BootGoto, Boots
      <4> QED
        BY <4>1
    <3> QED
      BY <1>3, <3>1, <3>2, <3>3, <3>4, <3>5 DEF New
  <2>3. PersistsLoaded'
    BY <1>2, <2>1, <2>2 DEF PersistsLoaded, Body, NewSha
  <2>4. CASE registry' = registry
    BY <1>2, <2>3, <2>4 DEF RegistryIsLoaded
  <2>5. CASE Booting(s, "persist") /\ registry' = [registry EXCEPT ![boot[s].name] = sha1Hex(Body(s))]
    BY <1>0, <1>2, <2>3, <2>5 DEF RegistryIsLoaded, PersistsLoaded, Booting
  <2> QED
    BY <1>3, <2>4, <2>5 DEF New, Begin, Lookup, Exists, Load, Persist, HGetAll, Verify,
                            NewFails, server
<1>4. ASSUME NEW r \in Runners, ExecSha(r) \/ ExecShaStep(r)
      PROVE  PersistsLoaded' /\ RegistryIsLoaded'
  <2>1. boot' = boot /\ \A q \in Runners \ {r} : call'[q] = call[q]
    BY <1>4, ExecShaStarts, ExecShaEnds
       DEF ExecSha, ExecShaStep, EvalSha, Reload, Store, PersistNew, Retry, ExecFails
  <2>2. call'[r].pc \in {"store", "persist"} => NewSha(r)' \in cache'
    <3>1. CASE ExecSha(r)
      BY <3>1, ExecShaStarts
    <3>2. CASE ExecShaStep(r)
      <4>1. NewSha(r)' = NewSha(r)
        BY <3>2, ExecShaEnds DEF NewSha
      <4>2. CASE Reload(r)
        BY <4>1, <4>2 DEF Reload
      <4>3. CASE Store(r)
        BY <1>2, <4>1, <4>3 DEF Store, At, PersistsLoaded
      <4>4. CASE PersistNew(r)
        BY <1>0, <4>4 DEF PersistNew, CallGoto, Calls
      <4>5. CASE EvalSha(r) \/ Retry(r) \/ ExecFails(r)
        BY <1>0, <4>5 DEF EvalSha, Retry, ExecFails, CallGoto, Run, Return, Calls
      <4> QED
        BY <3>2, <4>2, <4>3, <4>4, <4>5 DEF ExecShaStep
    <3> QED
      BY <1>4, <3>1, <3>2
  <2>3. PersistsLoaded'
    BY <1>2, <2>1, <2>2 DEF PersistsLoaded, Body, NewSha
  <2>4. CASE registry' = registry
    BY <1>2, <2>3, <2>4 DEF RegistryIsLoaded
  <2>5. CASE At(r, "persist") /\ registry' = [registry EXCEPT ![call[r].name] = NewSha(r)]
    BY <1>0, <1>2, <2>3, <2>5 DEF RegistryIsLoaded, PersistsLoaded, At
  <2> QED
    BY <1>4, <2>4, <2>5 DEF ExecSha, ExecShaStep, EvalSha, Reload, Store, PersistNew, Retry,
                            ExecFails, server
<1>5. CASE \/ \E b \in Bodies : Exec(b)
           \/ FlushAll \/ UNCHANGED vars
  <2>1. UNCHANGED <<boot, call>> /\ \A n \in Names : registry'[n] \in {registry[n], None}
    BY <1>5 DEF Exec, FlushAll, vars
  <2> QED
    BY <1>2, <2>1 DEF PersistsLoaded, Body, NewSha, RegistryIsLoaded
<1> QED
  BY <1>3, <1>4, <1>5 DEF Next

\* As long as Redis kept its script cache the registry names loaded scripts
\* only (RegistryIsLoaded), whichever commands of register or of a repair
\* failed half-way: both load before they persist.
THEOREM RegistryIsLoadedAlways == Spec => []RegistryIsLoaded
<1>1. Init => LoadInv
  BY DEF Init, LoadInv, PersistsLoaded, RegistryIsLoaded
<1>2. RegInv /\ LoadInv /\ [Next]_vars => LoadInv'
  BY LoadInvStep DEF RegInv
<1>3. LoadInv => RegistryIsLoaded
  BY DEF LoadInv, RegistryIsLoaded
<1> QED
  BY <1>1, <1>2, <1>3, RegInvAlways, PTL DEF Spec

=============================================================================
