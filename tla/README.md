# A TLA+ model of goscriptor

goscriptor is a Go library that runs Lua scripts on Redis. It brings its own
RESP2 client with a connection pool (`redis/`), and on top of it a `Scriptor`
that registers scripts under names, remembers their SHA1 digests in a Redis hash
and repairs itself when Redis loses its script cache. This directory holds TLA+
modules of the parts in which order and failure matter, TLC configurations that
check them on small instances, and proofs for every size.

## The system

| component | state | operations | talks to | what is hard |
|---|---|---|---|---|
| connection pool, `redis/client.go` 145-593, 686-726 | idle connections, `active`, the queue of waiters' channels, `closed`, the reaper's and warm-up's progress | `getConn`, `abandonWaiter`, `putConn`, `removeConn`, `dialIdle`, `reapStaleConns`, `ensureMinIdle`, `Close` | sockets, callers' contexts, a ticker | critical sections of many goroutines, hand-off against cancel against close, wake-ups, dials without the lock |
| expiry, `isExpired` | `usedAt`, `createdAt` per connection, the order of the idle pool | stamped at dial, checkout and hand-off; read at checkout, return and on the tick | the pool, the ticker, `Options` | what the two times measure, in which order connections age, what 0 and -1 mean |
| command execution, `Do`, `execOn`, `redis/resp.go` | bytes on the connection, deadlines | write a command, read one reply | the server, the pool | a late reply, half a line, extra bytes, discard or reuse |
| script registry, `script.go`, `New` | registry hash and script cache in Redis, the entries being built | `register`, `loadScripts`, `availableLuaScript`, `setLuaScript` | Redis | several commands that are not atomic together, releases that disagree, lost caches |
| script execution, `scriptor.go` | `Scriptor.scripts` under `mu` | `ExecSha` with its repair, `Exec` | Redis, other goroutines of the same Scriptor | lost replies, a second flush, stale entries |
| RESP reader, `ReadReply` | the call stack, one frame per array | read a line, a text, an array | the connection, `Do` | limits and errors inside nested arrays |
| command wrappers, `redis/commands.go` | none | build a request, make a value of the reply | `Do` | TTL rounding, replies of the wrong shape |
| replies, `reply.go` | a cursor | conversions, `ReadValue`, `ForEach` | the caller's callback | integer widths, a callback that uses its own reader |
| options, `NewDB`, errors, example | none | defaults, validation | the pool | `NewDB` leaks its client when `New` fails |

The components interact in three ways. Goroutines share the pool under `mu` and
hand connections to each other through one-shot channels. A Scriptor calls the
client, one command at a time, and shares nothing with it. Scriptors, in one
process or many, share the registry hash and the script cache of Redis.

What makes each component correct:

- pool: a connection has one owner; a slot is counted once; at most `PoolSize`
  are taken; a channel gets one send; no wake-up is lost; no stale connection of the
  pool is handed off; nothing survives `Close`; every call returns; the idle floor
  comes back;
- expiry: unless the reaper is late, no idle connection outlives a limit by a whole
  tick, none is closed without cause, and what a burst leaves behind goes away;
- commands: a call gets its own reply or none; a deadline ends the call it was
  armed for and no other;
- reader and wrappers: a value is what the server sent or an error, a
  connection goes back between two replies only, a TTL is not shortened;
- replies: every item once and in order, a number in a text as near as its type
  allows;
- registry: a Scriptor runs its own bodies only; the registry names loaded
  scripts; a changed body wins;
- execution: at most one run per call; repair works unless the cache is lost
  again; every call returns.

`PROJECT.json` lists the hazards behind these, each at its line, with the
properties that cover it or the reason why none does.

## Modules

| module | what it is |
|---|---|
| `ConnPool` | the pool, one action per critical section |
| `ConnLease` | what the pool promises: exclusive leases, at most `PoolSize` |
| `ConnPoolProofs` | types, the queue, wake-ups, shutdown and expiry of `ConnPool`, for all constants |
| `ConnPoolSlots` | one owner per socket; `active` counts the slots, within `PoolSize` |
| `ConnPoolRefinement` | `ConnPool` implements `ConnLease` |
| `MCConnPool` | TLC instance: symmetry |
| `MCConnPoolFifo` | `ConnPool` with a history of who waited first |
| `IdleClock` | the pool as a stack with counted time: what expires, when, and what that does to the pool |
| `MCIdleClock` | TLC instance: four `Option` values |
| `IdleClockProofs` | types, reaping and causes of closing of `IdleClock`, for all constants |
| `CommandExec` | `Do` and `execOn` over `ConnLease`: commands, replies, deadlines |
| `CommandExecProofs` | invariants of `CommandExec` for all constants |
| `ScriptRegistry` | Scriptors, their runners and Redis |
| `ScriptRegistryProofs` | invariants of `ScriptRegistry` for all constants |
| `MCScriptRegistry` | TLC instances: which release gives which bodies |
| `RespReader` | `ReadReply`, line by line, and what RESP2 says a reply means |
| `RespReaderProofs` | `parseAsciiInt` and `ReadReply` are right for replies of any size and nesting |
| `ReplyReader` | the conversions and the cursor of `reply.go` |
| `Commands` | the typed commands on one connection, over both readers |
| `CommandsProofs` | invariants of `Commands`, `RespReader` and `ReplyReader` for all constants |
| `MCCommands` | TLC instance: what the server may send |

### ConnPool

Every section between `mu.Lock` and `mu.Unlock` is one action, named after the
function or, where a function has several sections or outcomes, after what the
section does:

| code | actions |
|---|---|
| `Do` | `StartCall`, then `getConn`, then `putConn` or `removeConn` |
| `getConn` | `Refused`, `Reuse`, `Reserve`, `Enqueue`; `DialOk`, `DialFailed`; `Receive` |
| `abandonWaiter` | `AbandonQueued`, `AbandonDrained` (with `Drain`), `Forward`, and `putConn` from `"reclaim"` |
| `putConn` | `PutClosed`, `PutExpired`, `PutFresh`, one action `putConn` |
| `dialIdle` | `DialIdleReserve`, `DialIdleFailed`, `DialIdleDone`, for warm-up and reaper |
| `reaper` | `reapStaleConns`, `ensureMinIdle`, `ReaperExit` |
| `Close` | `Close` (the swap, without the lock), `Teardown` (once the reaper is gone) |
| `nc.Close` after a section | `closeAll`, before the thread's next step |
| time | `Expire` |

The state is the code's: `pool`, `active`, `waiters`, `closed`, the waiters'
channels `chan` (nothing sent, a connection, the nil retry signal, closed), and
program locations `pc`, `bg`, `closer`. `open` and `toClose` are the sockets and
those a thread still has to close. Three abstractions:

- the idle pool is a set. The code pops it last in, first out; since any
  connection may have expired, any one can be the first fresh one, with any
  expired ones dropped on the way (`IdleClock` has the order);
- a dial, with its AUTH and SELECT, succeeds or fails. The stamps of a connection are
  those of the TCP connect, so one that was just dialled may have expired already
  (`Dialled`), also when `dialIdle` sends it to a waiter. A command ends in
  `putConn` or `removeConn`. Which of the two is the business of `CommandExec`;
- `select` between the channel and `ctx.Done()` is a free choice, so a context
  may end whenever a caller waits. A context that ends during a dial or a
  command is a failed dial or a discarded connection.

Lines that end in `Mutant:` comments define wrong variants of the operator below
them; no specification uses them. Each shows that a property notices a mistake
one could make in that place.

### IdleClock

`ConnPool` lets a connection expire at any moment and forgets the order of the
pool. That is right for ownership and wake-ups, and says nothing about expiry
itself. `IdleClock` counts time (`Advance`) and keeps the pool as the stack it
is; in exchange it is coarse where `ConnPool` is fine: a signal is received when
it is sent, a retired socket closes at once, `active` is the sum that
`SlotAccounting` proves it to be, and `Close` and the warm-up are left out.

| code | definitions |
|---|---|
| `Option.Create`, the defaults of `Options` | `Create`, `opts`, `poolSize`, `minIdle`, `Resolve`, `idleTimeout`, `maxConnAge` |
| `isExpired` | `isExpired`, over `age` (since `createdAt`) and `used` (since `usedAt`) |
| `getConn`, `abandonWaiter` | `Reuse` (LIFO, dropping the expired ones above), `ReserveOrQueue`, `abandonWaiter` |
| `dialConn` | `Connected` (both stamps), `InitDone`, `Discard` |
| `putConn` | `PutExpired`, `PutHandOff` (new `usedAt`), `PutParked` (`usedAt` of the checkout) |
| `reaper` | the ticker's channel of capacity 1 is `ticked`; `reapStaleConns`, `ensureMinIdle`, and `dialIdle` in steps |

`option`, the user's `Option`, is chosen once in `Init`, so one run covers several
configurations. `age` and `used` stop counting one tick past their limit, where
no guard and no property looks, and are 0 for a closed connection.

### CommandExec

RESP has no request identifiers: a caller takes what comes next on its
connection for its reply. `CommandExec` therefore follows the bytes. A reply is
cut into pieces, one for a simple reply or an error, a head and a body for a bulk
or an array; each piece carries the command it answers. `sent` holds the commands
on their way to the server, `stream` the pieces on their way back, of which the
first `buffered` are already in the `bufio.Reader`. `Fill` moves an arbitrary part
of the stream there, `ReadReply` and `ReadBody` consume it without looking at
whose it is, as the code does.

`bufio.Reader.ReadLine` reports no error when it returns something. A deadline that
passes within a line therefore leaves `readLine` with the part that has arrived, and
`ReadReply` takes it for the line (`CutShort`). The connection goes back to the pool
and is now in `torn`: the rest of the line is a piece that answers nobody's command.
A call that ends on such a connection has `torn` in its `result`. When the
connection itself ends within a line nothing is left for others: that is a reply
that was read, and a broken connection afterwards.

| code | actions |
|---|---|
| `Do` | `Start`, `getConn` or `Refused`, then `execOn`; at the end `putConn`, `AfterError` or `Discard` |
| `execOn` | `CtxDone` or `ExecOn` (write deadline), `Write` (and read deadline), `ReadReply`, `ReadBody`; `TimedOut`, `CutShort`, `Broken` |
| `effectiveDeadline` | `Bounded`, `Arm`; the deferred `SetDeadline` is `Disarm` |
| the server | `Serve`: in order, one answer per command, whenever it likes or never |
| warm-up, reaper, `Close` | `Background`, `Shed` |

The pool is not modelled a second time. `CommandExec` composes with its contract:
every step on `live`, `lease` and `shut` is an action of `ConnLease`, and
`ImplementsLease`, checked and proved, says that the real pool keeps to it. So
`putConn` may give a connection back, pass it to a waiting caller, or drop it when
it expired or the pool was closed. The context of a call either has a deadline
or not (`ctxEnds`); a context that is cancelled while the socket blocks changes
nothing, since `execOn` looks at it once, before it writes. `dialConn`'s AUTH and
SELECT, on a connection nobody shares yet, are left out.

### ScriptRegistry

One Redis command is one action, and so is a section under `Scriptor.mu`. `New`
is `Begin`, then per name `Lookup`, `Exists`, `Load`, `Persist`, or without
scripts `HGetAll` and one `Verify` per name; `NewFails` ends it at any command,
before or after Redis executed it. `ExecSha` reads its entry (`ExecSha`), then
`EvalSha`, and after NOSCRIPT `Reload`, `Store`, `PersistNew`, `Retry`;
`ExecFails` loses a reply. `ScriptFlush` is SCRIPT FLUSH or a restart, `FlushAll`
drops the registry, `Exec` leaves a body in the cache. SHA1 is an injective tag
on the body. The Lua templates are single EVALs and so atomic; their SELECT is
scoped to the script and left out.

`newest`, `flushed` and the fields `ran`, `runs`, `raced` of a call are history:
no guard reads them.

### Commands, RespReader, ReplyReader

`CommandExec` cuts a reply into pieces and does not look into them. These three
modules do, for one caller and one connection that serves call after call.

| code | definitions |
|---|---|
| the wrappers of `commands.go` and `Eval`, `ScriptLoad`, ... of `client.go` | one definition each (`Get`, `Expire`, ...): the request, and the kind of value it wants |
| their type switches on the reply | `IntReply`, `MapReply`, ... under `Decoded`; `Answered` returns |
| `Do`'s choice after the reply | `Closed`, `Forget` |
| `ReadReply` | `ReadText`, `ReadInt`, `ReadNull`, `ReadBulk`, `ReadArray`, `ReturnArray`, `ReadFails`; the recursion is the stack `frames` |
| `parseAsciiInt` | `parseAsciiInt`, with `Magnitude` for the loop and `Push` for the digit that may overflow |
| `RedisReplyValue` | `AsInt32`, `AsInt64`, `AsFloat64`, `AsString` |
| `RedisArrayReplyReader` | `Open`, `ReadValue`, `ReadAs`, `ReadArray`, `SkipValue` |
| `ForEach` | `ForEach`, `Action` (position moves, then the callback runs), `ActionReturns`, `ForEachReturns`; the calls under way are the stack `running` |

A reply is a tree. `wire` holds the trees that are still to come: `ReadArray` takes
the head of `wire` and puts its elements there instead, so that the lines come in the
order in which the server writes them, and `Header` is the line a tree begins with.
The server answers with any reply of `Replies`, well formed or not, and may stop
after any line of it (`Lost`). `Meaning` says by recursion over the tree what a
client should make of it, and `DecodesWhatWasSent` compares the two. `Depth`,
`Size` and `Decimal` give the trees what the recursion and the lengths need: how deep
one is, how long a text is, and the digits a length is written with; the assumptions
say what they have to be, `Denotes` what digits denote. `Meaning`, `Magnitude` and
the map of HGETALL are recursive functions.

A line is read whole or not at all here; lines that are cut short are in
`CommandExec`. A text is a name with a size, or a number in halves, so that a
fraction can be seen to be cut off. A result Go leaves open (the integer of a
float that does not fit) is a set. A text that is no integer literal goes through
`ParseFloat`: `Float` is any rounding of halves that is exact up to `Exact` (2^53
halves, that is 2^52) and keeps numbers on their side of it, so the conversions round where the
code does.

## What the runs show

| run | instance | result |
|---|---|---|
| `pool_safety` | 3 callers, 2 slots, floor 2, 4 connections, 1 call each, symmetric | types, one owner per socket, exact counting, bound, clean shutdown, and `ConnPool` implements `ConnLease` |
| `pool_queue` | 3 callers, 1 slot, 3 connections, 2 calls each, 2 callers of `Close`, symmetric | one send per channel, no lost wake-up; no expired connection of the pool is handed off, parked or taken |
| `pool_live` | 2 callers, 1 slot, 2 calls each | calls return; after `Close` everything is closed for good |
| `pool_floor` | 2 callers, 2 slots, floor 2, no expiry | the idle floor is restored for good |
| `pool_fifo` | 3 callers, 1 slot | violated: requests are not served first come, first served |
| `idle_clock` | 2 callers, 3 connections, four `Option` values | unless a tick waits for a reaper that is dialling, nothing idle is a whole tick past its limit; nothing is reaped without cause; a surplus and an old connection go in the end |
| `exec_replies` | 2 callers, 1 connection, 2 calls each, only `WriteTimeout` enabled, a server that appends to errors | own replies unless a line was cut short, own deadlines only, a call with deadlines ends |
| `exec_torn` | 2 callers, 2 connections, both timeouts, a server that conforms | violated: a call gets the rest of a line that another call cut short |
| `registry_boot` | 3 Scriptors (two bodies for one name), 2 names, 1 runner | own bodies only, registry names loaded scripts |
| `registry_exec` | 2 runners on one Scriptor, 1 on one without bodies | at most one run, repair, termination |
| `commands` | every command, 1 caller, replies of at most two levels | values as sent, connections back between replies only, TTLs kept but for those that overflow, items once, numbers as near as a float64 allows |
| `registry_wins` | an old and a new release | violated: the old release's repair undoes the new one's registration |

The bounds. Three callers are the least for a holder, a waiter and a newcomer, or
for a queue that is longer than the one that is woken; with one slot and two
background goroutines that also want it, all three can be queued at once. Two
calls per caller let a caller come back as a newcomer. The set of connections is
larger than `PoolSize` because a retired socket may still be open while its
successor is dialled. `MaxCalls` bounds the counter of calls and nothing else.
In `exec_replies` two calls
each are enough for a connection to be used, returned and used again by the same
caller, passed to the other one, or closed and dialled anew under the same
identity; one disabled timeout lets calls with and without a read deadline follow
each other on a connection. One connection is where callers meet; what happens on
another one does not touch it, and the three invariants are proved for any number
of them.
In `idle_clock` a tick comes every 2 time units, limits are 1 or 2 units, and
defaults are as small: shorter than, as long as and longer than a tick matter,
and so does each limit alone, both, and none. One `Option` has a floor above its
`PoolSize`. Two callers make a hand-off, a queue and a surplus of one; three
connections leave one to dial while two are out. Clocks count to one tick past
their limit (`Bounded`), and nothing else is bounded.
In `commands` an int64 is -128..127 and an int32 -8..7, so that both wrap, clip and
overflow on numbers of three digits; `maxBulkLen` is 3 and `maxArrayLen` 4, and
texts and arrays reach one beyond. Two levels of arrays with every kind of element
exercise the recursion: a third repeats the second, as a frame does not know its
depth. A second is 6 units and a millisecond 2, and `SomeTtls` has each boundary,
its neighbours and the largest and smallest Duration. A float has 4 significant bits,
so that it is exact for every int32 and not for the larger int64, as the real one. `MaxNesting` bounds `ForEach`
calls in one another by 2.
The registry instances are unbounded in the number of flushes, calls and
failures; a second name makes `register` stop half-way.

Deadlock checking is off for the pool and for commands: they stop, rightly, when
the pool is closed and the callers are done, and a call without a deadline waits
for ever on a server that does not answer.

Two constants describe the server of `CommandExec`. `Conforming` says that it sends
one reply per command. `Together` says that what it appends to an error is read
together with the error. In `exec_replies` the server appends, and `Together` holds:
the comment at `client.go:665-670` promises to handle what is left buffered,
and it does. If the extra bytes arrive later `Buffered()` cannot see them and the
next command reads them: with both constants `FALSE` TLC violates `OwnReply`. The
comment calls one reply per command an assumption, so this is a limit of the defence
and not a disagreement.

### Disagreements with the documentation

- *Half a line is taken for a reply* (`resp.go:168`, against
  `docs/en/connection-pool.md:41`: "On transport (I/O) errors the connection is
  discarded"). `exec_torn` shows it in 11 states. Say a server sends
  `-MOVED 1234 10.0.0.1:6379` and the deadline passes behind the address: the call
  returns the error without its port, and `:6379` is an integer reply for the next
  call on the connection. `OwnReply` leaves
  out exactly the calls on such connections.
- *First come, first served* (`docs/en/connection-pool.md:63`). A slot that is
  freed without a connection (a failed dial, a discarded or expired connection)
  is announced to the head waiter by a nil and not reserved for it. A newcomer
  can take it first; the waiter then queues again at the tail.
- *A changed body always wins* (`script.go:84-85`). It wins when it registers.
  Afterwards a Scriptor of the old release that meets NOSCRIPT writes its own SHA
  back (`scriptor.go:153`), and Scriptors that load from the registry get the old
  body.

## Fairness

`FairSpec` assumes: each goroutine that can enter a section enters it in the end
(Go's mutex hands over to a starving waiter); dials and commands end
(`DialTimeout`, `ReadTimeout` and `WriteTimeout`, or a context); the ticker fires;
and the reaper, whose `select` picks at random when both the tick and `closedCh`
are ready, does not pick the tick for ever (strong fairness of `ReaperExit`).
Nobody is made to call `Do` or `Close`, and no context is made to expire: a call
returns without that help.

`SlowTicks` says that a caller that was told of a free slot tries for it before
the reaper's next tick, 30 seconds later. Without it TLC finds that a reaper
that reserves the slot at every tick and never connects can starve a waiter of
a pool of one for ever. For the same reason `CallsReturn` depends on `MaxCalls`: endless
newcomers can always take the freed slot first, which is the other face of the
disagreement above.

`IdleClock` assumes the same of its coarser steps: time goes on; the reaper takes
its ticks; dials and commands end and a woken caller tries again. Nobody has to
call. `SurplusCloses` speaks of a client that is used by at most k callers from
some time on, and `OldRetire` needs every command to end, because a connection is
looked at when it comes back.

`CommandExec` assumes that a caller that can go on does (`ExecOn`, the reads) and
that a socket operation with an armed deadline ends by it (`TimedOut` or `CutShort`). Nothing
is assumed of the server, the network or the pool: `BoundedCallEnds` is about a
call that has its connection.

`ServerUpSpec` adds that the reaper's dials succeed again and again: the idle
floor needs a server.

## Proofs

Every safety property that a passing run checks is also proved, for every
set of callers, connections, Scriptors, runners, names, bodies and replies, every
`Option`, `PoolSize`, `MinIdle` and `MaxCalls`, every limit of the reader and every
width of integers; so is the refinement `ImplementsLease`. The exception is `OwnReply`
for a server whose extra bytes come late. The proofs rest on the named assumptions of
the modules only:

- pool, expiry, commands, registry: callers of the pool are finitely many, the sizes
  are positive as `poolSize()` and `minIdle()` make them, identities do not clash, a
  Scriptor is given bodies for names, and SHA1 is injective by its definition;
- `RepliesAssumption`: replies are trees of the kinds RESP2 has, or a malformed line;
  `LengthsAssumption`: a length is written in decimal; `LimitsAssumption`: the limits
  of the reader are within int64, which is not empty;
- `UnitsAssumption`, `WidthsAssumption`, `FloatAssumption`, `TextsAssumption`:
  milliseconds and seconds are positive, variadic commands get lists of texts, int32 is
  no wider than int64, floats are exact for every int32 and for no more than int64, and
  the number in a text has a nearest float. TLC evaluates all of them on the instances.

### The pool

The invariants build on each other: `ConnPoolSlots` extends `ConnPoolProofs`, and
`ConnPoolRefinement` extends both.

| theorem | invariant and why it is needed |
|---|---|
| `TypeCorrect` | `TypeInv` adds to `TypeOK` that the idle pool is finite, because `active` changes by cardinalities of its subsets, and that a caller holds a connection exactly in `"use"` and `"reclaim"`, because `putConn` retires and hands off whatever is held |
| `OneSendPerWaiterAlways` | `QueueInv`: inductive next to `TypeInv`. `TailElems`, `AppendElems` and `WithoutElems` say what popping, appending and `abandonWaiter`'s removal do to a sequence without duplicates; `QueueSend`, `QueueJoin`, `QueueLeave` and `QueueTake` lift them, and every action is one of these moves or none |
| `NothingParkedAfterCloseAlways` | `ShutInv` adds that a `Close` past its swap finds `closed` set: after `Teardown` the pool and the queue stay empty, since every section that parks or queues looks at `closed` first |
| `NeverHandStaleAlways` | `StaleInv`: only open connections are expired, so that the one `dialIdle` makes, which may be expired at once, was not before the step. `Stays` says of a step that the expired connections stay where they are or go; `putConn` looks at `isExpired` under the lock that parks or sends |
| `OneOwnerAlways` | `OwnInv` is stated over the five variables that can hold a socket, as `OwnOK(open, pool, held, chan, toClose)`. A lemma per move (dial, park, take, hand off, receive, drop, close) says that it keeps `OwnOK`; the actions are compositions of moves |
| `SlotAccountingAlways` | `SlotInv`: `active` is the cardinality of the connections and reservations that count. It needs `OwnInv`: dropping a connection lowers the count only if nobody else has it |
| `ActiveWithinPoolSizeAlways` | `SlotInv` for the lower bound; `Bounded` for the upper one, from the guards of `getConn` and `dialIdle` |
| `NoLostWakeupAlways` | `WakeInv`: while anybody is queued the pool is empty, and the free slots are at most as many as the callers that were signalled and have not tried yet. Weaker statements are not inductive: one free slot and one signal say nothing when that signal is used up |
| `PoolImplementsLease` | all of the above: each section is one step of `ConnLease` or none, under the refinement mapping of `ConnPool` |

### Expiry

The invariant is `AgeInv`, proved once for all three theorems. Each step other than
time and the tick is one of the moves `Clocks`, `Kept`, `Caused`, `Returned` and
`Dialled` describe (`StepIs`): clocks only fall, a connection stays somewhere or
is closed, an idle one is closed because it expired, one that becomes idle is
fresh or the reaper's own.

| theorem | invariant and why it is needed |
|---|---|
| `IdleClockTypeCorrect` | `TypeInv`: a caller has a connection exactly in `"init"` and `"use"` (`HeldInv`), and the queue holds waiting callers, each once (`QueueInv`), or a hand-off could put a connection in place of another |
| `ReapedInTimeAlways` | `TickInv`, with the same premise as the property: unless a tick waits, nothing idle is over a limit by more than the time since the last tick, and the connection the reaper dials is no older than that. The second half needs `FreshInv`: a closed connection starts again at 0 |
| `ClosedForCauseAlways` | `Caused`, for every step; `ExpiredMeans` relates `isExpired` to what the documentation of `Options` says |

### Commands

`RemoveMoves`, `KeepMoves`, `GetMoves` and `PoolMoves` say what the moves of the pool
do to leases and connections, `ConsumeMoves` and `CutMoves` what a read does; the
proofs below use these and never the pool's actions themselves.

| theorem | invariant and why it is needed |
|---|---|
| `CommandTypeCorrect` | `TypeInv`: a caller has a connection exactly while it executes, and one of its own (`LeaseInv`), or a step on the connection of one caller could change the types of another's; `StartedInv`, because `Command` names a call that was started |
| `OwnTimeoutAlways` | `DeadlineInv`: deadlines are armed on connections in use only, and only those the user asked for. Without the first half the deadline of one user would be inherited by the next |
| `OwnReplyAlways` | `FramingInv`: on a connection in use that is not torn there is the exchange of its user and nothing else (`Exchange`: nothing before the write; then the command, or its whole reply, or the body that is left), and on every other one nothing. `WholeReply` includes an error with extra bytes behind it, of which the reader has none or all: so `Buffered()` sees them. `PieceIsOwn` concludes that the piece which is read last is the last one, so that what `putConn` returns is quiet. Assumes `Conforming \/ Together` |

### The registry

| theorem | invariant and why it is needed |
|---|---|
| `RegistryTypeCorrect` | `RegInv`: types; the name at hand is one of the given ones where `New` reads its body; a call past its first EVALSHA has a body; the entry it read is never removed, so that `Store` updates one |
| `AtMostOnceAlways` | `OnceInv` adds `NothingRunYet`: as long as `ExecSha` has not returned nothing ran. `ExecShaEnds` sorts the steps: a runner goes on, returns, or executes and returns |
| `RunsOwnBodyAlways` | `OwnInv`: all entries of a Scriptor built with bodies, and those its calls have read, are its own, and its `New` never goes to the registry for others |
| `SelfHealsAlways` | `HealInv` adds `ReloadHolds`: after the reload the body stays in the cache unless `raced` says that the cache was lost; with `OwnInv` a body is always at hand |
| `RegistryIsLoadedAlways` | `LoadInv` adds `PersistsLoaded`: whoever is about to persist a SHA has loaded its script |

### Replies and typed commands

`CommandInv` is one invariant for all of `Commands`. Each typed command, the reader,
the cursor and `Forget` have a lemma that says how they keep it.

| theorem | invariant and why it is needed |
|---|---|
| `ParsesWhatDigitsDenote` | no invariant: `ParseComplete` and `ParseSound` relate the loop over digits, which stops before it overflows, to the remainders of dividing by ten, for digits of any length |
| `RepliesDecoded` | `Reading`: while `ReadReply` reads there are trees t, the arrays under construction, of which the frames hold the meanings of a first part and `due` the elements that follow (`Building`), so that `wire` is what is due of the innermost one, and the rest of each outer one behind it; `lost` is the suffix that will not arrive. Without `due` the invariant would not say where the elements of an outer array begin again. `Returned` has the result. `MeaningEquation` says that the recursive definition of `Meaning` has a solution, by induction over `Depth` |
| `ConnectionsPooledAtBoundary` | `Returned`: unless the reading failed nothing is left of the reply; `NothingBehind` concludes it from the last line that was read |
| `CommandsTyped` | `CommandInv`, and what it implies: `ReaderTyped` with `ArraysNotOverfull` (no frame holds more elements than its array announced, from `Building`), `DecodedTyped` (a command returns its Go type or an error, for every reply), `ConvertedTyped`, `CursorTyped`. `TextRequests` and `KeysAfter` say that a request has numbers where they belong |
| `TtlsKept` | `MillisecondsKept`, `SecondsKept`: rounding up in units of any length, for the TTLs whose sum does not overflow |
| `ItemsDeliveredOnce` | `CursorInv`: what was handed out is the first `position` items, in their order. Every `ForEach` and every callback advances the one `position`, never its own index, so that a callback that reads on moves them all |
| `ConversionsNearest` | `ConvertedNearest`, by the kind of the value: `TextNearest32`, where rounding cannot cross an end of int32, since floats are exact there; `TextNearest64`, from `FloatTruncated`; `NarrowKeeps` and `WrapKeeps` for the integers that fit |
| `FieldsKeepTheirValues` | `MapReplyMerges`: the map after i pairs has for each field the last value among them |

`Reading` speaks of trees that exist, which TLC cannot enumerate; the run checks what
follows from it (`DecodesWhatWasSent`, `PooledAtBoundary`, `TypeOK`) on every state.

The induction theorems of the library take an operator as a parameter, which the
provers here cannot instantiate. `Induction` and `CourseOfValues` in
`RespReaderProofs` state induction about sets instead, from the well-foundedness of
`<` on the naturals, and the proofs about recursive functions use these.

### Only model-checked

Liveness (`CallsReturn`, `CloseDrains`, `IdleFloor`, `BoundedCallEnds`,
`ExecShaReturns`, `SurplusCloses`, `OldRetire`): the proof
system handles neither fairness nor ENABLED here. The three disagreements are
counterexamples and need an instance only.

## What the checks do not say

- *What `IdleTimeout` measures.* `usedAt` is set at checkout and not on return, so
  a connection that was busy for longer than `IdleTimeout` is closed when it comes
  back. `client.go:68` ("how long a connection can sit idle") can be read otherwise;
  `ReapedInTime` and `ClosedForCause` measure from the checkout, as the code does.
- *What dialIdle hands on.* Its connection is stamped at `client.go:352-353`, before
  AUTH and SELECT, and 244-248 send it to a waiter or park it without looking at
  `isExpired`: with a limit shorter than that exchange it has expired by then. Both
  `ConnPool` and `IdleClock` have this step; `NeverHandStale` is about the connections
  the pool already has, which is what the comment at 545-547 speaks of.
- *A reaper that is late.* While the reaper dials, a tick waits in the ticker's channel
  and idle connections grow older than a tick past their limit. `ReapedInTime` holds in
  the states in which no tick waits.
- *Limits that would be lost.* `ClosedForCause` takes the limits from the `Option`;
  `ReapedInTime` takes them as `Resolve` gives them, so a default that turned into
  "none" would go unnoticed there.
- *Fractions beyond 2^52.* `AsInt64` of `"9007199254740993.5"` is an even neighbour of
  the number, and of `"9223372036854775806.5"` whatever the processor makes of 2^63.
  `NumbersNearest` claims the truncated number up to 2^52 and for integer literals;
  beyond, that of the float64, if it fits.
- *Scripts that answer NOSCRIPT.* `isNoScript` tests a prefix (`scriptor.go:165`). A
  script that itself returns an error beginning with NOSCRIPT is taken for a missing
  one, and the repair runs it again. In the model only a missing script answers
  NOSCRIPT, and `AtMostOnce` is about those.
- *Empty bodies.* A script registered with an empty body counts as one without a body
  (`scriptor.go:134`) and cannot be repaired. `NoneAssumption` leaves empty bodies out
  of `SelfHeals`.
- *Several runners and RunsOwnBody.* `registry_boot` checks it with one runner;
  for goroutines that share a Scriptor it rests on `RunsOwnBodyAlways`.
- *TTLs within a second of the largest Duration.* `ttl + time.Second - 1`
  overflows, and `Expire` sends a negative number. `Seconds` has the overflow and
  `TtlKept` leaves these TTLs out; without that exception the run fails.
- *The smallest int64.* `parseAsciiInt` works on magnitudes and refuses it.
  `Meaning` says so.
- *Lines that are cut short.* `DecodesWhatWasSent` and `PooledAtBoundary` are about
  replies that end between two lines or within a text. Within a line `ReadReply` may
  return half a reply: `exec_torn` shows what becomes of it.
- *What the rest of a line looks like.* It is a line for the next call, or breaks it;
  a rest that happens to begin like an array would mislead the call further.
- *Integers that do not fit.* `AsInt32` of an integer keeps its low bits, of a text
  it clips. `NumbersNearest` is about texts and about integers that fit.
- *Timeouts of -1.* The fairness of the pool's runs says that dials end, which
  `DialTimeout` and `ReadTimeout` of -1 take away: a reaper that waits for AUTH then
  keeps `Close` waiting.

## Not modelled

- The formatting of arguments in `WriteCommand` and its buffer pool: they hold no
  state between calls, and each buffer has one user.
- Go types that only a caller can put into a `RedisReplyValue` (int, int32, float32,
  float64): no reply of this client holds them.
- `NewDB`'s validation, and the client it leaks when `New` fails: nothing can refer
  to it afterwards.
- The AUTH and SELECT of `dialConn` beyond success and failure, before a connection
  is shared.
- `PoolStats`, errors and the example program: they change no state.

## Plan

The model covers every part with state, and the safety properties are proved. What
could still be stated: that an exchange of `CommandExec`, seen piece by piece, is one
of `RespReader`, seen line by line, as a refinement; and that `IdleClock`, with its
coarser steps, is a behaviour of `ConnPool`.
