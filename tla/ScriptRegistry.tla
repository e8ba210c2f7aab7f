---------------------------- MODULE ScriptRegistry ----------------------------
(***************************************************************************)
(* Scriptors and the scripts they keep in Redis: New (register and         *)
(* loadScripts of script.go) and ExecSha with its repair after NOSCRIPT    *)
(* (scriptor.go).  Scriptors, and the goroutines that share one, interleave*)
(* between Redis commands; SCRIPT FLUSH, a restart of Redis or the loss of *)
(* the registry hash come at any moment; every command can fail before or  *)
(* after the server executed it.                                           *)
(*                                                                         *)
(* One Redis command is one action, and so is a section under Scriptor.mu. *)
(* SHA1 is taken to be free of collisions.                                 *)
(***************************************************************************)
EXTENDS Naturals, FiniteSets

CONSTANTS
    Scriptors,   \* Scriptor values, each built by one New
    Runners,     \* goroutines that call ExecSha
    Names,       \* script names
    Bodies,      \* script bodies
    Given,       \* the scripts map a Scriptor is built with: [name -> body]
    RunnerOf,    \* the Scriptor a runner uses
    None         \* no script, no entry, no name

sha1Hex(body) == <<"sha1", body>>
Shas == {sha1Hex(b) : b \in Bodies}
Entries == [sha : Shas, body : Bodies \cup {None}]

ASSUME NoneAssumption == None \notin Bodies \cup Shas \cup Entries \cup Names
ASSUME GivenAssumption ==
    \A s \in Scriptors : /\ DOMAIN Given[s] \subseteq Names
                         /\ Given[s] \in [DOMAIN Given[s] -> Bodies]
ASSUME RunnerAssumption == RunnerOf \in [Runners -> Scriptors]

VARIABLES
    cache,       \* the script cache of Redis
    registry,    \* the registry hash: name -> SHA or None
    scripts,     \* Scriptor.scripts, under its mu
    boot,        \* where New stands
    call,        \* where a runner stands in ExecSha
    \* History, read by properties only.
    newest,      \* body of the last registration of a name by a New
    flushed      \* Redis has lost its script cache at least once

vars == <<cache, registry, scripts, boot, call, newest, flushed>>
server == <<cache, registry>>
history == <<newest, flushed>>

Init ==
    /\ cache = {}
    /\ registry = [n \in Names |-> None]
    /\ scripts = [s \in Scriptors |-> [n \in Names |-> None]]
    /\ boot = [s \in Scriptors |->
                 [pc |-> "unborn", todo |-> {}, name |-> None,
                  seen |-> [n \in Names |-> None]]]
    /\ call = [r \in Runners |->
                 [pc |-> "idle", name |-> None, entry |-> None, ran |-> 0,
                  runs |-> None, raced |-> FALSE, result |-> "none"]]
    /\ newest = [n \in Names |-> None]
    /\ flushed = FALSE

-----------------------------------------------------------------------------
(* New.  A command that fails ends it with an error.                       *)

BootGoto(s, l) == boot' = [boot EXCEPT ![s].pc = l]
Booting(s, l)  == boot[s].pc = l
Body(s) == Given[s][boot[s].name]

\* Ping succeeded.  Without scripts the registry is loaded instead.
Begin(s) ==
    /\ Booting(s, "unborn")
    /\ boot' = [boot EXCEPT ![s].pc = IF DOMAIN Given[s] = {} THEN "hgetall" ELSE "lookup",
                            ![s].todo = DOMAIN Given[s]]
    /\ UNCHANGED <<server, scripts, call, history>>

\* Mutant: a name that is not registered is persisted without loading it.
Lookup_SkipsLoad(s) ==
    /\ Booting(s, "lookup")
    /\ \E n \in boot[s].todo :
         boot' = [boot EXCEPT ![s].pc = IF registry[n] = None THEN "persist" ELSE "exists",
                              ![s].name = n, ![s].seen[n] = registry[n]]
    /\ UNCHANGED <<server, scripts, call, history>>

\* First command of availableLuaScript, for some name still to register (the
\* order of a Go map is arbitrary).
Lookup(s) ==
    /\ Booting(s, "lookup")
    /\ \E n \in boot[s].todo :
         /\ boot' = [boot EXCEPT ![s].pc = IF registry[n] = None THEN "load" ELSE "exists",
                                 ![s].name = n, ![s].seen[n] = registry[n]]
    /\ UNCHANGED <<server, scripts, call, history>>

\* Mutant: the body is not retained.
Registered_DropsBody(s, sha) ==
    LET n == boot[s].name IN
    /\ scripts' = [scripts EXCEPT ![s][n] = [sha |-> sha, body |-> None]]
    /\ newest' = [newest EXCEPT ![n] = Body(s)]
    /\ boot' = [boot EXCEPT ![s].todo = @ \ {n},
                            ![s].pc = IF boot[s].todo = {n} THEN "ready" ELSE "lookup"]

\* The name is registered: go on with the others.
Registered(s, sha) ==
    LET n == boot[s].name IN
    /\ scripts' = [scripts EXCEPT ![s][n] = [sha |-> sha, body |-> Body(s)]]
    /\ newest' = [newest EXCEPT ![n] = Body(s)]
    /\ boot' = [boot EXCEPT ![s].todo = @ \ {n},
                            ![s].pc = IF boot[s].todo = {n} THEN "ready" ELSE "lookup"]

\* Mutant: a cached SHA is reused whatever body it stands for.
Reusable_AnyBody(s) == boot[s].seen[boot[s].name] \in cache

\* The registered SHA is cached and stands for the present body.
Reusable(s) ==
    LET sha == boot[s].seen[boot[s].name]
    IN  sha \in cache /\ sha = sha1Hex(Body(s))

\* Second command of availableLuaScript, SCRIPT EXISTS, and what register
\* makes of the answer.
Exists(s) ==
    /\ Booting(s, "exists")
    /\ \/ /\ Reusable(s)
          /\ Registered(s, boot[s].seen[boot[s].name])
       \/ /\ ~Reusable(s)
          /\ BootGoto(s, "load")
          /\ UNCHANGED <<scripts, newest>>
    /\ UNCHANGED <<server, call, flushed>>

\* SCRIPT LOAD.
Load(s) ==
    /\ Booting(s, "load")
    /\ cache' = cache \cup {sha1Hex(Body(s))}
    /\ BootGoto(s, "persist")
    /\ UNCHANGED <<registry, scripts, call, history>>

\* setLuaScript.
Persist(s) ==
    /\ Booting(s, "persist")
    /\ registry' = [registry EXCEPT ![boot[s].name] = sha1Hex(Body(s))]
    /\ Registered(s, sha1Hex(Body(s)))
    /\ UNCHANGED <<cache, call, flushed>>

\* loadScripts reads the whole hash.
HGetAll(s) ==
    /\ Booting(s, "hgetall")
    /\ LET found == {n \in Names : registry[n] # None} IN
         boot' = [boot EXCEPT ![s].pc = IF found = {} THEN "ready" ELSE "verify",
                              ![s].todo = found, ![s].seen = registry]
    /\ UNCHANGED <<server, scripts, call, history>>

\* loadScripts checks one pair with SCRIPT EXISTS; a missing one ends it.
Verify(s) ==
    /\ Booting(s, "verify")
    /\ \E n \in boot[s].todo :
         LET sha == boot[s].seen[n] IN
         \/ /\ sha \in cache
            /\ scripts' = [scripts EXCEPT ![s][n] = [sha |-> sha, body |-> None]]
            /\ boot' = [boot EXCEPT ![s].todo = @ \ {n},
                                    ![s].pc = IF boot[s].todo = {n} THEN "ready" ELSE "verify"]
         \/ /\ sha \notin cache
            /\ BootGoto(s, "failed")
            /\ UNCHANGED scripts
    /\ UNCHANGED <<server, call, history>>

\* A command of New fails, before or after the server executed it.
NewFails(s) ==
    /\ boot[s].pc \notin {"ready", "failed"}
    /\ BootGoto(s, "failed")
    /\ \/ UNCHANGED <<server, newest>>
       \/ /\ Booting(s, "load")
          /\ cache' = cache \cup {sha1Hex(Body(s))}
          /\ UNCHANGED <<registry, newest>>
       \/ /\ Booting(s, "persist")
          /\ registry' = [registry EXCEPT ![boot[s].name] = sha1Hex(Body(s))]
          /\ newest' = [newest EXCEPT ![boot[s].name] = Body(s)]
          /\ UNCHANGED cache
    /\ UNCHANGED <<scripts, call, flushed>>

-----------------------------------------------------------------------------
(* ExecSha.                                                                *)

At(r, l) == call[r].pc = l

\* Mutant: the body is stored where its SHA belongs.
NewSha_IsBody(r) == call[r].entry.body

\* The SHA that SCRIPT LOAD of the retained body answers.
NewSha(r) == sha1Hex(call[r].entry.body)

\* r continues at l.
CallGoto(r, l) == call' = [call EXCEPT ![r].pc = l]

\* ExecSha returns.
Return(r, res) == call' = [call EXCEPT ![r].pc = "idle", ![r].result = res]

\* The server runs script sha for r, and r gets res.
Run(r, sha, res) ==
    call' = [call EXCEPT ![r].pc = "idle", ![r].result = res,
                         ![r].ran = @ + 1, ![r].runs = sha]

\* Reads the entry under RLock.  A name without an entry changes nothing.
ExecSha(r) ==
    /\ At(r, "idle")
    /\ boot[RunnerOf[r]].pc = "ready"
    /\ \E n \in Names :
         /\ scripts[RunnerOf[r]][n] # None
         /\ call' = [call EXCEPT ![r] =
                       [pc |-> "evalsha", name |-> n,
                        entry |-> scripts[RunnerOf[r]][n], ran |-> 0,
                        runs |-> None, raced |-> FALSE, result |-> "none"]]
    /\ UNCHANGED <<server, scripts, boot, history>>

\* EVALSHA, the first time.
EvalSha(r) ==
    /\ At(r, "evalsha")
    /\ LET entry == call[r].entry IN
       \/ entry.sha \in cache /\ Run(r, entry.sha, "ok")
       \/ entry.sha \notin cache /\ entry.body = None /\ Return(r, "notcached")
       \/ entry.sha \notin cache /\ entry.body # None /\ CallGoto(r, "load")
    /\ UNCHANGED <<server, scripts, boot, history>>

\* NOSCRIPT with a body: SCRIPT LOAD.
Reload(r) ==
    /\ At(r, "load")
    /\ cache' = cache \cup {NewSha(r)}
    /\ call' = [call EXCEPT ![r].pc = "store", ![r].raced = FALSE]
    /\ UNCHANGED <<registry, scripts, boot, history>>

\* The new SHA goes into Scriptor.scripts under Lock.
Store(r) ==
    /\ At(r, "store")
    /\ scripts' = [scripts EXCEPT ![RunnerOf[r]][call[r].name].sha = NewSha(r)]
    /\ CallGoto(r, "persist")
    /\ UNCHANGED <<server, boot, history>>

\* setLuaScript, whose failure is ignored.
PersistNew(r) ==
    /\ At(r, "persist")
    /\ \/ registry' = [registry EXCEPT ![call[r].name] = NewSha(r)]
       \/ UNCHANGED registry
    /\ CallGoto(r, "retry")
    /\ UNCHANGED <<cache, scripts, boot, history>>

\* Mutant: a NOSCRIPT on the retry starts the repair again.
Retry_Again(r) ==
    /\ At(r, "retry")
    /\ \/ NewSha(r) \in cache /\ Run(r, NewSha(r), "ok")
       \/ NewSha(r) \notin cache /\ CallGoto(r, "load")
    /\ UNCHANGED <<server, scripts, boot, history>>

\* EVALSHA, the second and last time.
Retry(r) ==
    /\ At(r, "retry")
    /\ \/ NewSha(r) \in cache /\ Run(r, NewSha(r), "ok")
       \/ NewSha(r) \notin cache /\ Return(r, "noscript")
    /\ UNCHANGED <<server, scripts, boot, history>>

\* Mutant: every error of EVALSHA is taken for NOSCRIPT.
ExecFails_Repairs(r) ==
    /\ At(r, "evalsha") /\ call[r].entry.body # None
    /\ \/ CallGoto(r, "load")
       \/ /\ call[r].entry.sha \in cache
          /\ call' = [call EXCEPT ![r].pc = "load", ![r].ran = @ + 1]
    /\ UNCHANGED <<server, scripts, boot, history>>

\* EVALSHA or SCRIPT LOAD fails, before or after the server executed it.
ExecFails(r) ==
    /\ call[r].pc \in {"evalsha", "load", "retry"}
    /\ \/ Return(r, "error") /\ UNCHANGED cache
       \/ /\ At(r, "evalsha") /\ call[r].entry.sha \in cache
          /\ Run(r, call[r].entry.sha, "error")
          /\ UNCHANGED cache
       \/ /\ At(r, "load")
          /\ cache' = cache \cup {NewSha(r)}
          /\ Return(r, "error")
       \/ /\ At(r, "retry") /\ NewSha(r) \in cache
          /\ Run(r, NewSha(r), "error")
          /\ UNCHANGED cache
    /\ UNCHANGED <<registry, scripts, boot, history>>

\* Exec sends EVAL with the body, which leaves the script in the cache.
Exec(body) ==
    /\ \E s \in Scriptors : boot[s].pc = "ready"
    /\ cache' = cache \cup {sha1Hex(body)}
    /\ UNCHANGED <<registry, scripts, boot, call, history>>

-----------------------------------------------------------------------------
(* Redis.                                                                  *)

\* SCRIPT FLUSH, or a restart.
ScriptFlush ==
    /\ cache # {}
    /\ cache' = {}
    /\ flushed' = TRUE
    /\ call' = [r \in Runners |-> [call[r] EXCEPT !.raced = TRUE]]
    /\ UNCHANGED <<registry, scripts, boot, newest>>

\* FLUSHALL, which leaves the script cache alone.
FlushAll ==
    /\ registry' = [n \in Names |-> None]
    /\ UNCHANGED <<cache, scripts, boot, call, history>>

-----------------------------------------------------------------------------
New(s) ==
    \/ Begin(s) \/ Lookup(s) \/ Exists(s) \/ Load(s) \/ Persist(s)
    \/ HGetAll(s) \/ Verify(s) \/ NewFails(s)

ExecShaStep(r) ==
    \/ EvalSha(r) \/ Reload(r) \/ Store(r) \/ PersistNew(r) \/ Retry(r) \/ ExecFails(r)

Next ==
    \/ \E s \in Scriptors : New(s)
    \/ \E r \in Runners : ExecSha(r) \/ ExecShaStep(r)
    \/ \E b \in Bodies : Exec(b)
    \/ ScriptFlush \/ FlushAll

Spec == Init /\ [][Next]_vars

\* Every command ends, with a reply or an error (timeouts of the client).
FairSpec ==
    /\ Spec
    /\ \A s \in Scriptors : WF_vars(~Booting(s, "unborn") /\ New(s))
    /\ \A r \in Runners : WF_vars(ExecShaStep(r))

-----------------------------------------------------------------------------
(* Properties.                                                             *)

WithBodies(s) == DOMAIN Given[s] # {}

\* Every variable has its type.
TypeOK ==
    /\ cache \subseteq Shas
    /\ registry \in [Names -> Shas \cup {None}]
    /\ scripts \in [Scriptors -> [Names -> Entries \cup {None}]]
    /\ boot \in [Scriptors ->
         [pc : {"unborn", "lookup", "exists", "load", "persist", "hgetall",
                "verify", "ready", "failed"},
          todo : SUBSET Names, name : Names \cup {None},
          seen : [Names -> Shas \cup {None}]]]
    /\ call \in [Runners ->
         [pc : {"idle", "evalsha", "load", "store", "persist", "retry"},
          name : Names \cup {None}, entry : Entries \cup {None}, ran : Nat,
          runs : Shas \cup {None}, raced : BOOLEAN,
          result : {"none", "ok", "noscript", "notcached", "error"}]]
    /\ newest \in [Names -> Bodies \cup {None}]
    /\ flushed \in BOOLEAN

\* A Scriptor built with bodies never runs another body under one of its
\* names, whoever else registers that name, flushes the cache or repairs it
\* meanwhile (script.go 82-85).
RunsOwnBody ==
    \A r \in Runners :
        (call[r].runs # None /\ WithBodies(RunnerOf[r])) =>
           /\ call[r].name \in DOMAIN Given[RunnerOf[r]]
           /\ call[r].runs = sha1Hex(Given[RunnerOf[r]][call[r].name])

\* One ExecSha runs the script at most once: the repair never repeats an
\* execution whose reply was lost, success means it ran, NOSCRIPT means it
\* did not (scriptor.go 124-156).  This is for scripts whose own errors do not begin
\* with NOSCRIPT, which isNoScript could not tell from a missing script (165).
AtMostOnce ==
    \A r \in Runners :
        /\ call[r].ran <= 1
        /\ call[r].result = "ok" => call[r].ran = 1
        /\ call[r].result \in {"noscript", "notcached"} => call[r].ran = 0

\* The repair works: with the body at hand ExecSha never gives up as not
\* cached, and it reports a missing script only when the cache was lost again
\* between its reload and its retry (scriptor.go 110-115).  An empty body counts as
\* none there (134) and is not among Bodies.
SelfHeals ==
    \A r \in Runners :
        /\ call[r].result = "noscript" => call[r].raced
        /\ call[r].result = "notcached" => ~WithBodies(RunnerOf[r])

\* As long as Redis kept its cache the registry names loaded scripts only,
\* whichever commands of New or ExecSha failed half-way.
RegistryIsLoaded ==
    ~flushed => \A n \in Names : registry[n] \in cache \cup {None}

\* "a changed script body under the same name always wins" (script.go:84-85):
\* the registry holds what was registered last.
ChangedBodyWins ==
    \A n \in Names :
        (registry[n] # None /\ newest[n] # None) => registry[n] = sha1Hex(newest[n])

\* ExecSha returns, however often the script cache is lost ("retries the
\* execution exactly once", scriptor.go:112-113).
ExecShaReturns == \A r \in Runners : ~At(r, "idle") ~> At(r, "idle")

=============================================================================
