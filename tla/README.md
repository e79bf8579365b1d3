# Verification of VaidCord

VaidCord is a Discord framework with three SDKs that share one architecture: Python
(`vaidcord-py`), Go (`vaidcord-go`) and Rust (`vaidcord-rust`). This directory holds TLA+
models of the parts in which concurrency, failure and order decide whether the framework is
right, the TLC configurations that check them on small instances, and TLAPS proofs of the
most important properties for every instance. The Python SDK, by far the largest of the three,
is modelled most broadly; of Go and Rust the gateway clients and the Go rate limiter are.

## 1. Inventory

The flow is the same in all SDKs. A *gateway client* keeps a websocket to Discord alive and
turns it into a stream of numbered events; a *bot* parses the events; a *dispatcher/router*
runs the handlers; handlers call Discord through a *REST client* with a *rate limiter*. Voice
has a second websocket per guild and a UDP media path with end-to-end encryption (DAVE).

| Component | State | Operations | Interaction | Hard behaviour | Module |
|---|---|---|---|---|---|
| Go gateway (`gateway.go`) | `sessionID`, `resumeGatewayURL`, `seq`, `conn`, `closeReason`; `resume` in `Run`; a heartbeat goroutine per connection | `Run`, `runOnce`, `readLoop`, `heartbeatLoop`, `forceClose` | goroutines share the struct under mutexes; the caller cancels a context | reconnect against a late heartbeat goroutine; resume point; half-open connections; cancellation | GatewayGo |
| Rust gateway (`gateway.rs`) | `session`, `resume`, `close_code`; atomics and a channel shared with the heartbeat task | `GatewayRunner::run`, `run_connection`, `heartbeat_loop`, `shutdown` | channels for events, commands and outbound frames | order of `select!` branches; first tick of an interval; shutdown while dialling | GatewayRust |
| Python bot and gateway (`bot.py`, `gateway_runtime.py`) | `_state`, `_running`, `_ready_event`, `_session_id`, the aiohttp session; `_ws`, `_resume_on_hello`, the ACK flag, the heartbeat task | `start`, `stop`, `connect`, `run`, `reconnect`, `_heartbeat` | asyncio tasks that switch at every `await` | `stop` during `connect`; a task that cancels itself; restart | GatewayPy |
| Go REST (`client.go`, `ratelimit.go`) | buckets (`remaining`, `known`, `resetAt`), `globalUntil` | `DoJSON`, `wait`, `waitGlobal`, `update`, `handle429` | goroutines share the limiter | sleep outside the lock; out-of-order headers; retries | RateLimitGo |
| Python REST (`http/`, `api_client.py`, `_internal/services/messages.py`) | per-endpoint locks, global reset | `request`, `wait_for_global`, `_request_with_retry`, `_check_rate_limit`; one route per helper | tasks queue on locks | lock per endpoint, not per bucket; global window checked once; cancellation in a sleep | RestPy, ApiRoutes |
| Python voice (`voice/connection.py`) | voice session, READY, session description, UDP client, reader and heartbeat tasks, the manager's maps | connect, resume, re-identify, rejoin, migrate, close | main gateway events, manager maps | stale READY; close during a handshake; migration against reconnect | VoicePy |
| Python media path and DAVE (`voice/player.py`, `receive.py`, `voice/dave`) | player events, protocol version, epoch, pending transition, ratchets, skip cache, outbound queue | play, pause, resume, stop, DAVE opcodes, encrypt, decrypt | voice gateway and UDP | epochs change under frames in flight; skip cache; flush over a broken websocket | MediaPy |
| Python router (`router.py`, `fsm/middleware.py`) | handlers, children, middlewares, filters, dependencies, four resolution caches | registration, `propagate_event` | handlers, several routers | cache invalidation down the tree; live lists; StopPropagation | RouterPy |
| Python FSM storages (`fsm/storage`) | state and data per key | set, update, clear, transition, snapshot | a database behind awaits | read-modify-write over an await; partial failure | FsmStoragePy |
| Python dispatcher and command sync (`dispatcher.py`, `bot.py`) | `_started`, active bots; registered commands, retry task | `start_polling`, `start_polling_many`, `sync_application_commands` | several bots, REST | startup and shutdown awaited before the flag changes, and either may raise; two syncs at once | BotsPy |
| Python permissions (`permissions.py`) | role permissions, overwrites | `compute_effective_permissions`, `set_allow`, `set_deny`, `reset` | | layers, bypasses, order of edits | PermissionsPy |
| Rust REST, mock servers, Go and Rust voice, routers and bots of Go and Rust, filters, OAuth2, data types, text | see section 6 | | | | none |

What makes each modelled component correct:

* *gateway*: handlers see every event of a session once and in order across any number of
  reconnects; a session that can be resumed is resumed; a dead connection is noticed; each
  connection has one heartbeat; stopping stops everything;
* *rate limiter, REST*: no more requests leave than Discord announced; the limiter itself never
  provokes a 429; calls for an endpoint keep their order; every call returns;
* *voice*: one task at a time drives a connection, and some task does; what is sent is encrypted
  with the key of the session it is sent to; closing leaves no task, heartbeat or websocket behind
  and closes the current UDP client (one that a READY replaced stays open, `connection.py:784`);
  a lost connection comes back or is given up;
* *media*: sender and receiver change keys together; a ratchet gives a key out once (a new one
  made of the same secret gives the same keys, section 5); a late or early frame within the window
  is heard; after pause or stop at most one more frame leaves, and stop ends the playback;
* *router*: caches agree with the tree; every handler that should run does, once, in order, also
  when handlers come and go during the event; a handler is injected the value of the nearest
  provider among the routers the event has entered; one event is one FSM state for a router;
* *storages*: calls that do not overlap are atomic; failure loses nothing;
* *dispatcher, sync*: handlers of startup and shutdown run in pairs, also when they overlap or
  raise; registered commands arrive and stay; nobody else's commands are lost;
* *permissions*: the computed permissions are the documented hierarchy.

## 2. Modules

    EventStream    <-- refined by ---  GatewayGo       <- GatewayGoProofs
                   <-- refined by ---  GatewayRust     <- GatewayRustProofs
                                       GatewayPy       <- PythonProofs
    DiscordBucket  <-- extended by --  RateLimitGo     <- RateLimitGoProofs
                   <-- extended by --  RestPy          <- RestPyProofs     (RestPy extends ApiRoutes)
                                       VoicePy         <- VoicePyProofs
                                       MediaPy         <- MediaPyProofs
                                       RouterPy        <- MCRouterPy
                                       FsmStoragePy    <- PythonProofs, MCFsmStoragePy
                                       BotsPy          <- BotsPyProofs
                                       PermissionsPy   <- PythonProofs

`PythonProofs` extends three modules of the Python SDK at once. They share no variable, so their
specifications have names of their own (`Spec`, `StorageSpec`, `PermissionsSpec`) and a theorem
speaks of one of them.

Each `.cfg` names its module directly, but for two MC modules: MCRouterPy has a tree of routers
and a list of registrations, MCFsmStoragePy the symmetry of the storages. Definitions whose
names end in a description of a mistake (`ReadDispatchKeepsSeq`, `StopKeepsHeartbeat`, ...) are
deliberately wrong variants of a definition that follows them. They are used by no
specification; `PROJECT.json` pairs each with
a property that fails when it takes the place of the right one.

**EventStream.** What a gateway client promises its handlers: of every session, events 1, 2,
3, ... in order, none repeated, skipped or invented. It knows nothing of websockets.

**GatewayGo** (`gateway.go`). `pc` is the position in `Run`/`runOnce`. `resume`, `sessionID`,
`resumeURL`, `seq` and `closeReason` are the variables of the code. `hb[g]` is the
`heartbeatLoop` goroutine of the g-th connection with its local `awaitingACK`, its two channels
of capacity one and its context. `forceClose` is two steps because it first stores the reason
under the mutex and closes the connection afterwards. Everything after `runOnce` returns is one
step, `runOnceReturns`: no other goroutine can tell its parts apart. The peer is external.
Dispatches in flight are the numbers `wireNext..srvSeq[connSid]`, and one slot `ctl` holds a
control frame or the close. It accepts any session, number, close code, and may drop, mute,
invalidate or expire.

**GatewayRust** (`gateway.rs`). The runner task, the heartbeat task, the atomics and the
outbound channel between them, and the application's shutdown and drop. A close frame only
records its code and the loop goes on until the stream ends, as in the code. The events channel
(capacity 256) always accepts.

**GatewayPy** (`bot.py`, `gateway_runtime.py`, the retry loop of `http/client.py`). One step is
what a task does between two awaits; `pc[t]` is the await. There is a task per call of
`start()`, one that calls `stop()`, and the heartbeat task. `conn[w]` are the websockets,
`sessions` the open aiohttp sessions: `stop()` and a concurrent `connect()` may create and close
different ones. The content of dispatches is left out.

**DiscordBucket, RateLimitGo** (`ratelimit.go`, `client.go`). `DiscordBucket` is the window
Discord keeps for a route (external). Each request is a goroutine in `DoJSON`; each critical
section is a step; `Tick` lets one unit of time pass, and a goroutine may sleep longer than its
timer. `routeBucketKey` is abstracted to a key per request, and a response to its status,
whether it has rate-limit headers, and the two numbers the limiter reads.

**RestPy, ApiRoutes** (`http/client.py`, `rate_limit.py`, `retry.py`, `errors.py`). A call of
`HTTPClient.request` is a task that passes the global gate, the lock of its endpoint, and the
retry loop. An `asyncio.Lock` is the queue of its holder and waiters. `ApiRoutes` is the table
of the endpoints of `APIClient`, of `MessageService` and of the bot's message and application
methods; the lock is found by the path as written, Discord's bucket by the method and the path
for all items, and the difference is what the run is about. `OneSpelling`, which TLC evaluates,
says that the paths written outside `APIClient` are ones it also uses.

**VoicePy** (`voice/connection.py`). The application task in `VoiceManager.connect`, the reader
task, a migration task for each VOICE_SERVER_UPDATE of a live connection, a task that closes,
and the heartbeat task, each step what happens between two awaits. `ready`, `desc` and `udp`
are numbers of the websocket they came from, so that state of two sessions can be told apart.
An exception goes to the handler that catches it: the reader's reconnect loop, or the caller.
The history variables `overlap` (a migration or close began inside another task's handshake)
and `broken` (a connect or migration failed) mark what the code does not handle.

**MediaPy** (`voice/player.py`, `receive.py`, `voice/dave`). The player task, the network, the
receiver, the DAVE controller with its outbound queue, the reference backend, the in-process
MLS provider and two ratchets. `player` is the await the player's task is in: the read of the
source (`read`), the silence, the speaking flag and the event of a pause (`silent`, `hushed`,
`paused`), woken from that event or not (`woken`), each a step of its own, with `pause`, `resume`
and `stop` in between. A secret is the list of the epochs it was derived with. The reference
backend plays both roles itself, so what is heard is what was sent; a frame sent in the clear may
reach a receiver whose DAVE is on, which takes its last bytes for a trailer and may step the
ratchet before it refuses the frame.

**RouterPy, MCRouterPy** (`router.py`). A propagation is a stack of frames (the router, its
middleware layers, its handlers, its children); `ret` is what the frame above returned or
raised. Between two awaits inside application code anything may be registered or cleared.
`Uncached` is the reference definition the caches are compared with, `Order` that of the walk,
and `EnteredBefore` and `Entered` those of the routers whose dependencies the context holds. The
history says what was registered since the event was fed (`since`), which handlers it found
(`due`), and whether StopPropagation or an error ended something. A middleware decides before it
calls the next one; one that raises after its call, or replaces the result, is left out.

**FsmStoragePy** (`fsm/storage/*.py`). A call is a sequence of accesses: `set_state`, `set_data`,
... name the access that follows another one, a write of a field (memory, Redis, MongoDB) or a
read and a write of the row (SQLite, PostgreSQL); `at[t]` is the next one, `loc[t]` the local
variables. An access may raise, except of the memory storage, before or after it took effect (a
reply that is lost). Redis, MongoDB and PostgreSQL
await every access; no other task runs in the middle of a call on the memory storage or SQLite
(`Free`). `set_many_states` gives every
key a state of its own. `spec` is what a storage of atomic calls would hold.

**BotsPy** (`dispatcher.py`, `bot.py`). A task per bot inside `start_polling`, with the startup
and shutdown handlers, which may raise or be cancelled, the sync of two command lists in overwrite
or merge mode on READY and when a handler asks for it, the retry task a rate limit leaves behind,
commands registered while the bot runs, and commands somebody else registers. `ups` counts the
startups completed since the last completed shutdown, `doubled` says that startups overlapped,
`raced` that a bot was started while the shutdown handlers ran, `broken` that these raised.

**PermissionsPy** (`permissions.py`). Flags are members of a set. Edits change the guild, the
member and the overwrites; `compute_effective_permissions` follows the code's bypasses and
layers, `EffectiveIsLayered` says of each flag which layer decides it.

## 3. Runs

The invariants named in a configuration are conjunctions of named parts where the parts belong
together; each module states its type invariant as one of them (in RateLimitGo it is a theorem).
Deadlock is checked for the gateways and the limiters, whose models have an explicit stuttering
step where the system may come to rest. The runs of the other modules say
`CHECK_DEADLOCK FALSE`: a player that has finished, or a guild nobody edits any more, stops.

| Run | Module | States | Checks | Shows |
|---|---|---|---|---|
| `go_gateway` | GatewayGo | 38,030 | `GatewayInv`, `SessionKept`, `ImplementsEventStream`, `ClosedWithReason`, `EventuallyDelivered`, `CancelStops` | events reach `onDispatch` once and in order through all reconnects; no resumable session is given up; a connection is closed under the read loop only with a reason it finds, also with old goroutines about; events arrive even over half-open connections; cancellation ends `Run` |
| `rust_gateway` | GatewayRust | 111,959 | `RunnerInv`, `SessionKept`, `ImplementsEventStream`, `ZombieRecycled`, `ShutdownStops` | the same for the Rust runner; shutdown ends one that can connect |
| `py_lifecycle` | GatewayPy | 664,618 | `LifecycleInv`, `LostConnectionEnds` | two runs of `start()`, with `stop()`, cancellation, retries and faults in between, leave nothing behind; a lost connection ends `start()` |
| `py_resume` (violation) | GatewayPy | | `ReconnectResumes` | op 7 and op 9 end the bot instead of resuming |
| `go_ratelimit` | RateLimitGo | 262,720 | `NotMoreThanAnnounced`, `LimitedOnlyWhenBlind`, `CallsReturn` | concurrent `DoJSON` calls respect what Discord announced, and return |
| `py_rest` | RestPy | 117,424 | `CallOrderKept`, `WindowRespected`, `CallsReturn` | calls for an endpoint reach Discord in order; a 429 needs two overlapping items or methods, or lost headers; every call returns |
| `py_voice` | VoicePy | 164,776 | `DrivenByOne`, `MediaOfOneSession`, `ClosedIsQuiet`, `LostIsRecovered` | reader, migration, rejoin and close do not meet on one websocket, except where `overlap` says that the code lets them |
| `py_media` | MediaPy | 721,580 | `KeysOfEpoch`, `AnnouncedInStep`, `OneMoreAtMost`, `InWindowHeard`, `StopEndsPlayback` | key schedule under reordering, loss and opcodes; transition answers in order over broken flushes; pause, resume and stop between any two awaits of the player |
| `py_router` | MCRouterPy | 1,289,798 | `CachesCoherent`, `WalkIsComplete`, `NearestDependency`, `OneStatePerRouter` | two events with two registrations of any kind, or a clearing of handlers, between or during them |
| `py_fsm` | MCFsmStoragePy | 1,105,604 | `RowsAsAsked`, `SnapshotStays`, `TransitionKeepsData` | five storages, two tasks, three calls, one access that raises, with or without effect |
| `py_bots` | BotsPy | 253,305 | `LifecyclePaired`, `ListsKept`, `CommandsArrive` | two bots on a dispatcher whose startup and shutdown handlers overlap and raise, and the syncs of one of them under rate limits and errors |
| `py_permissions` | PermissionsPy | 359,398 | `PermissionsInv`, `RoleTakesNothing` | four edits in any order |

### Bounds
* Gateways: `MaxFaults` bounds everything the environment may do wrong (drops, closes, op 7,
  op 9, mutes, expiries, a failed dial, an ACK later than the interval, and, in Go, a `select`
  that passes over a context already done). One fault with three connections lets a connection
  be lost and replaced and a goroutine survive into the next one; a fault costs at most two
  connections, otherwise the deadlock check would report the exhausted bound. Two events per
  session give one event after READY, which can be lost, repeated or overtaken. Larger Go
  instances (five connections, two faults, incomplete READYs) were checked without liveness;
  the theorems remove the bounds for safety.
* `GatewayPy`: two calls of `start()`, one `stop()`, two REST attempts, two faults. Two starts
  let state survive from one to the other.
* `RateLimitGo`: two requests on one or two routes, two slots per window, two retries, two
  faults; the theorems remove these bounds. `RestPy`: two calls over two paths of a channel,
  one with items, so that calls may share an endpoint, a bucket without an endpoint, or nothing.
* `VoicePy`: two faults (closes of every class, failed dials, timeouts, replaced servers) and
  three websockets: a connection, its replacement, and the loss of that.
* `MediaPy`: `MaxSkip = 1` with three frames makes frames fall into and out of the window, and a
  clear frame may name any generation up to that number; four inputs let two opcodes and two
  calls of the user, or a lost and restored link, interleave.
* `RouterPy`: bot, dispatcher and two routers, nine possible operations of which two are made: a
  router with a handler is included, a handler of higher priority is added, three middlewares, a
  filter, two providers (none is there before: with a provider at one child only, its parent and
  siblings have none of their own), and the handlers of a router are cleared. The second event
  finds the caches the first one filled.
* `FsmStoragePy`: three calls of two tasks let two overlap and a third see the result; two keys,
  two fields and two states. Tasks, keys and fields are symmetric. `transition_data` is between
  two keys, see section 5.
* `BotsPy`: two starts, so that one bot is restarted or both are started, and two faults. READY
  comes once in a run, since `reconnect()` ends it (`ReconnectResumes`); one sync that a handler
  asks for may overlap the retry task of the first. A sync asked for by a task of the application
  that outlives `start()` is not modelled.
* `PermissionsPy`: three flags, two roles, four edits; `ReadHistory` is the flag `View` itself.

### Fairness
Weak fairness of the steps of our own goroutines and tasks (the Go, asyncio and tokio
schedulers run what can run, and timers expire), and of the answers of a peer that is not
muted. Faults, cancellation, shutdown, new events and calls of the application are never
forced. Go and tokio choose at random among the ready branches of a `select`, so a branch that
stays ready is taken. In `RateLimitGo` and `RestPy` time passes and Discord answers; aiohttp's
total timeout ends a request that is not answered, Go's default client has none, so there
`DoJSON` promises nothing against a server that never answers. `HbTick` is fair because a timer
fires. Application handlers and the player's source return. `GatewayRust` assumes that a dial
eventually succeeds (`Unreachable = FALSE`). In `VoicePy` the steps of every task, the answers of
the voice gateway, a close that has begun and the end of a cancelled heartbeat are fair.
`MediaPy` asks for the player's steps only, `BotsPy` for those of a sync. The router, the
storages and permissions have no liveness property.

## 4. What is proved

`tlapm` checks all proofs with SMT, Zenon and, for the temporal steps, LS4. The theorems hold
for every value of the constants their modules assume (natural bounds, a positive `MaxSkip`,
distinct ids, migrations that are neither the application nor the reader), so for any number of
connections, events, faults, requests, routes, calls, migrations, bots, skipped keys, flags and
roles. One assumption is a fact of arithmetic the provers do not know: `PowersOfTwo` of RestPy
says that the powers of two in its delays are natural numbers. TLC evaluates every assumption.

The invariants the runs check contain the inductive invariants of these proofs, so each was
model-checked before it was proved, and what is proved is what is checked.

**GatewayGoProofs**
* `TypeCorrect`; `Invariance`: `Spec => []GatewayInv`, from the next three.
* `DeliveryInvariant`, `Delivery`, `Implements`: events are delivered in order and exactly once,
  and the client implements EventStream. `InOrderExactlyOnce` is not inductive: it says nothing
  about what comes next. `DeliveryInv` relates the four numbers involved: the length of the log,
  the stored `seq`, the number a RESUME in flight carries, and the next number on the wire
  (`WireFollowsLog`, `SeqFollowsLog`, `HandshakeIsCurrent`). It needs `ResumeIsPossible` (the
  local `resume` agrees with the stored session whenever no session is attached) and
  `SessionsAreFresh` (a session that was never started has no events). One lemma covers the
  steps that touch none of these numbers, one the end of a connection, one a dispatch.
* `KeptInvariant`, `SessionsKept`: IDENTIFY gives up no session that could be resumed. A session
  that is alive and completely stored is the one named by `sessionID`, and a frame that makes
  the client forget comes after the server's own decision.
* `OneLoop`: only the connection being read has a heartbeat loop not told to stop.
* `ReasonComesFirst` (`ClosedWithReason`): `forceClose` stores the reason before it closes, and
  only a dial and the read loop take it back. A late goroutine of an earlier connection, still
  inside `forceClose`, may leave a reason behind, but never closes a connection without one.

**GatewayRustProofs**
* `TypeCorrect`; `DeliveryInvariant`, `Implements`: the same argument as for Go, with two facts
  of this client: HELLO comes once, before the handshake it triggers and before any session is
  attached (`HelloComesFirst`), and a new connection finds nothing of the last one on the wire
  (`NothingOnTheWire`).
* `KeptInvariant`, `SessionsKept`: the runner identifies only when no session it stored could be
  resumed.
* `HeartbeatStaysWithConnection`, `Invariance`: `Spec => []RunnerInv`; the heartbeat task belongs
  to the connection being read, because every end of a connection aborts it first.

**RateLimitGoProofs**
* `TypeCorrect`: in particular no interleaving of `wait` takes a bucket below zero.
* `AnnouncedSlots` (`NotMoreThanAnnounced`), from `SlotsInv`: slots taken plus slots left never
  exceed the slots announced while the window lasts.
* `RefusedOnlyWhenBlind` (`LimitedOnlyWhenBlind`), from `WindowInv`: while requests of a route
  do not overlap and no header is lost, the bucket promises at most what Discord's window grants
  and no sooner, with the slot of the request on the wire set aside.

**RestPyProofs**
* `TypeCorrect`, with `QueueInv`: the queue of a lock holds the calls that hold it or wait for
  it, each once, in the order the calls were made (`GateQueue`, `RouteQueues`), and all calls
  past the global gate were made before those at it (`GateBeforeRoute`).
* `CallOrder`: `Spec => []CallOrderKept`. From the queues: a call in the retry loop is the head
  of its endpoint's queue, so every earlier call for the endpoint is over.
* `WindowIsRespected`: `Spec => []WindowRespected`, from `WindowInv`: while nothing escaped, at
  most one request of a bucket is out, and either the window has room or the call that holds the
  lock sleeps until it is over. The step that needs it is the answer: `ResetDelay` covers the
  rest of Discord's window.

**VoicePyProofs**
* `VoiceInvariant`: the conjunction of `TypeOK`, `DriverInv`, `SomeoneDrives`, `QuietInv` and
  `SessionInv` is inductive; the next three follow from it.
* `Driven` (`DrivenByOne`). One step per action: a task at work moves on, ends in an exception,
  finishes and leaves a reader, or, a migration, cancels the reader and takes its place. It needs
  `ReaderAlone`: `_reader_task` is set exactly while the reader is not off, so `_start_reader`
  never starts a second one and `_stop_reader` never misses one.
* `Quiet` (`ClosedIsQuiet`): once close() has cancelled the reader no task is left that could
  dial again, start a heartbeat or make a UDP client.
* `OneSessionAtRest` (`MediaOfOneSession`). Key, SSRC and UDP client are of one session (`Whole`)
  except while a rejoin or a migration replaces them (`Replaced`): after an identify they are
  forgotten until the READY of that websocket (`Fresh`), a task in the handshake has the READY
  and UDP client of the websocket it is on (`OnCurrent`, `Stages`), and a resume is tried only on
  a session that is whole, never after a close that asks for a rejoin (`Renewals`).

**MediaPyProofs**
* `KeySchedule`: `Spec => []KeysOfEpoch`. The three parts are inductive with `Shape` (skipped
  keys lie below the generation, used ones too). They speak of the ratchets in use: `used` begins
  anew with a new receive ratchet, see `KeysNeverRepeat` in section 5. `DeriveFor` is the lemma about
  `DaveRatchet.derive_for`; `NewestKeeps` says, with the cardinality of an interval, that the
  eviction of the oldest skipped keys never drops one of the last `max_skip` generations.
* `WindowIsHeard` (`InWindowHeard`): from the key schedule, and from `FramesOfSeed` (a frame
  carries a generation its ratchet had reached when it was sent).
* `InStep` (`AnnouncedInStep`): the answers on the wire followed by those that wait are in the
  order of the opcodes (`WaitingInOrder`); a broken flush cuts the list and loses one.
* `OneMore` (`OneMoreAtMost`): inductive as it stands, with one step per call of the user and one
  for the player.

**BotsPyProofs**
* `TypeCorrect`; `Paired`: `Spec => []LifecyclePaired`, from `LifeInv`: the shutdown
  handlers run alone unless a bot is started meanwhile, which half of a pair is complete, who has
  yet to shut down, and that a sync belongs to a bot that runs. Startups may overlap (`doubled`)
  and raise; a shutdown that raises leaves the dispatcher started (`broken`), and the next bot to
  end shuts it down.
* `Kept`: `Spec => []ListsKept`, from `SyncInv`: the syncs under way want what is registered, and
  the lists behind them have it.

**PythonProofs**
* `LifecycleIsSafe`: `Spec => []LifecycleInv`, for any number of starts, stops, retries and
  faults, with and without cancellation. Its hypothesis `~Overlap` says that the application
  calls `start()` again only when the last one and its `stop()` have returned, as in the run:
  with `Overlap = TRUE` the code lets two starts meet (section 5, `OneStart`). Neither
  `ReturnedIsQuiet` nor `ConnectionHasHeartbeat` is inductive. `StartsInTurn` says that one
  start at a time is under way, and that only such a start has a heartbeat task, runs the bot or
  makes it ready; `WebsocketsHaveReaders` says that an open websocket is the current one and is
  read by a start, so that a returned one leaves none, when `_ws` may still be set, and that a
  connection past HELLO has its heartbeat task; `ConnectionsCounted` bounds the websockets and
  aiohttp sessions by what the starts and stops have done so far, which makes the names the
  model has for them enough. There is a lemma for what a step of each kind leaves alone.
* `StorageHoldsWhatWasAsked`: `StorageSpec => []RowsAsAsked`. `CallsAreAtomic` speaks of keys at
  rest; what it needs of the calls under way is `Halfway`: a call that is alone with its keys has
  read what is stored there, and the rows it is done with are as specified (one clause per
  operation that takes several accesses). `CallsAreProper` says which access a call can be at,
  `OverlapTaints` that calls about one key are marked, so that the accesses of an unmarked call
  disturb nobody's half. The proof has a lemma for each operation's last access, one for the
  accesses before it, and one for a key the step does not touch.
* `TransitionLosesNothing` (`TransitionKeepsData`): from `Halfway`, by the time of the delete the
  target holds the data.
* `SnapshotIsKept` (`SnapshotStays`): only the in-place update of the memory storage writes to a
  dict the snapshot refers to, and such a key is in `newer`.
* `Disjoint`: types, and no flag both allowed and denied, after any edits.
* `Layered`: `PermissionsSpec => []PermissionsInv`: the code's bypasses and its three passes over
  the overwrites decide each flag as the hierarchy says. The core is a lemma about one layer.
* `RolesOnlyAdd`: a role no overwrite restricts takes nothing away.

**Only model-checked**: liveness (fairness and ENABLED are out of the prover's reach), and the
four invariants of RouterPy. They say that the caches, the walk, the dependencies and the FSM
snapshots agree with operators that are RECURSIVE over the tree of routers; the prover has no
support for these, and what they compute would have to be shown by induction over the tree,
which none of the installed provers can use.

## 5. Disagreements between code and documentation

`py_resume` is listed under `findings` in `PROJECT.json`: after op 7 or op 9 `run()` returns, so
`start()` stops the bot right after the reconnect; RESUME is never sent.

Further ones TLC shows when the property takes the place of the properties of the module's
configuration, as INVARIANT or PROPERTY (they are stated in the modules, with the text they come
from):

| Property | Change to the configuration | Behaviour |
|---|---|---|
| GatewayGo `CancelStops` | `HelloMayHang = TRUE` | a peer silent before HELLO (`gateway.go:433`) makes cancellation ineffective; the doc of `Run` (`gateway.go:289-290`) promises otherwise |
| GatewayGo `FatalCloseStops` | | a fatal close before HELLO (`gateway.go:399`) is not classified, and `Run` dials again |
| GatewayGo `FatalCloseInReadLoopStops` | `MaxFaults = 2`, `MaxConns = 5` | a missed ACK noted at the same time (`gateway.go:445`) hides a fatal code |
| GatewayGo `AckedNeverRecycled`, `FullIntervalBeforeRecycle` | `MaxFaults = 2`, `MaxConns = 5` | `select` may take the timer while the ACK waits (`gateway.go:518`); a heartbeat sent for op 1 does not reset the timer (`gateway.go:527`) |
| RateLimitGo `GlobalRespected` | | a request that slept on its bucket ignores a newer global window (`ratelimit.go:98` against `81-82`) |
| GatewayRust `MissedAfterInterval` | | a tokio interval ticks at once the first time, so the ACK of the first heartbeat is given no time (`gateway.rs:756` against `723-724`) |
| GatewayRust `FatalCloseStops` | | a heartbeat written after the close frame fails first (`gateway.rs:663`) |
| GatewayRust `ShutdownStops` | `Unreachable = TRUE` | nobody reads the command while dialling or backing off (`gateway.rs:499`) |
| GatewayPy `ReadyOnlyWhileRunning` | | `stop()` while `start()` is in `connect()` returns, and the bot becomes READY (`bot.py:759` against `756`) |
| GatewayPy `OneStart` | `Overlap = TRUE` | `start()` is entered while the last one is still stopping (`bot.py:716`) |
| GatewayPy `MissedAckWasSent`, `NoSessionLeft` | | the ACK flag of one connection condemns the next (`gateway_runtime.py:156`); `_close_session` forgets a session created while it waited (`bot.py:264`) |
| RestPy `GlobalPausesEveryRoute`, `BucketsDoNotOverlap` | | the global window is checked before the wait for the lock (`http/client.py:86` against `rate_limit.py:8-9`); the lock is per path, so two items or methods of a bucket overlap (`rate_limit.py:36`) |
| VoicePy `FatalIsFinal`, `OnAnnouncedServer` | | a fatal close in the handshake of a reconnect is retried (`connection.py:50`); an update that comes during a reconnect is not followed (`connection.py:113-114`) |
| FsmStoragePy `NoUpdateLost` | | overlapping updates of one key on Redis, MongoDB and PostgreSQL lose one |
| MediaPy `StopAlwaysEnds` | | `pause()` that overtakes `stop()` while the player is between the awaits of an earlier pause (`player.py:106-108`) makes it wait for ever |
| MediaPy `KeysNeverRepeat` | | a ratchet made again from an unchanged secret, after PREPARE_EPOCH on an existing group (`reference.py:118-121`) or an invalid commit (`reference.py:155-156`, whose comment speaks of "a fresh ratchet"), encrypts other frames with the same keys |
| RouterPy `StopDropsEvent` | | StopPropagation is swallowed where a middleware of either layer exists, and later handlers run (`router.py:75-76`, `1238`; `docs/MIDDLEWARE.md:70` says it hard-drops the event) |
| RouterPy `InnerAfterFilters` | | inner middlewares run before the filters (`docs/MIDDLEWARE.md:6`, `37-41` say after) |
| RouterPy `DependencyIsLocal` | | the context keeps what the routers entered before have provided, so a router without a provider is given a child's or sibling's value (`router.py:803`, `1111-1113`; `docs/PYTHON_DRIVER.md:55-58`) |
| RouterPy `OneStatePerEvent` | | every router of the walk reads the FSM state anew, so one event may advance a conversation twice |
| BotsPy `StartupOnce` | | `start_polling_many` runs the startup handlers once per bot that starts while they run (`dispatcher.py:77-79`) |
| BotsPy `RunsStarted` | | a bot started while the shutdown handlers run is not started anew, and runs on when these have reset the flag (`dispatcher.py:84-86`) |
| BotsPy `EndedIsShutDown` | | a shutdown handler that raises leaves `_started` set with no bot running, so the next one runs without the startup handlers; a startup handler that raises leaves its bot active for ever, so nobody shuts down |
| BotsPy `LateStays` | | a sync that began before a command was registered overwrites the list without it |
| PermissionsPy `TimedOutIsMuted` | | a channel overwrite gives back what the timeout took (`permissions.py:392`) |

Observations made while modelling, each a behaviour of the models above or excluded from them
by a history variable:

* Router: a handler of higher priority registered during an event makes the running one run
  twice and is itself skipped; a handler that returns None replaces an earlier result; the
  second bot of a shared dispatcher gets the middlewares of the first.
* Storages: the memory storage's snapshot shares the live dicts; `transition_data` onto the same
  key with `clear_source` deletes the data; SQLite and PostgreSQL write whole rows.
* Command sync: an error of a sync that is not a rate limit ends `run()` and so the bot.
* Voice: `connect()` that fails drops the manager's entry without closing the connection; a
  failed migration leaves no reader; a READY replaces the UDP client without closing the old one;
  a resume does not wait for RESUMED; joining from inside an event handler waits for events the
  receive loop, which awaits the handler, does not read (`gateway_runtime.py:232`).
* DAVE: a late frame of the last epoch burns a key of the new one; answers to binary opcodes wait
  for the next JSON opcode; a broken flush loses one payload and sends the rest on the next
  connection; a session description enables DAVE before an epoch exists; a quick pause, resume,
  pause sends one frame; after a re-identify the player does not announce speaking again.
* Rate limits: what `blind` and `overlap` excuse is what the code lets happen: overlapping requests
  of a route store headers out of order, a task cancelled in its sleep for the reset gives the lock
  away early, and requests of one bucket that have different paths do not wait for each other.
  `FsmStoragePy` marks keys of overlapping calls in the same way (`tainted`); `StateSurvives` is
  what holds of them.
* Permissions: `Guild.is_owner`, `Guild.get_role` and `Member.is_timed_out`, which the calculator
  calls, are not defined by the package's own types; they are taken as inputs.

## 6. Not modelled, and why

* Within the modelled components: the content of payloads, JSON, compression, sharding, latency,
  presence and the caches of users, channels and guilds (data no property distinguishes); the
  length of backoffs; the capacity of the Rust events channel; a HELLO that never comes in Python
  and Rust is allowed to wait for ever; VOICE_STATE_UPDATEs of other members; several SSRCs;
  keys of FSM records as text; `wait_until_ready`; in Python, a cancellation of `stop()` between its
  own awaits.
* Rust REST client and limiter: a third instance of `DiscordBucket`; it sleeps with the mutex of
  a bucket held (`http.rs:113`), which the other two do not.
* Mock gateway and mock REST server: test doubles. Go and Rust voice, routers, dispatchers and
  storages: counterparts of the Python ones in other code, which would need models of their own.
* Python filters are pure predicates (in RouterPy they pass, fail or raise); OAuth2 and webhook
  helpers are single requests; data types, formatting and logging keep no state.
* Ciphers, codecs, UDP byte formats: library calls and byte layout.

## 7. Plan

1. Done: the modules above. Every safety property that a run checks is also a theorem, but for
   those of RouterPy.
2. Proofs next: an abstract specification of atomic calls that FsmStoragePy implements where calls
   do not overlap (`spec` is its refinement mapping already).
3. Models next: the Rust limiter on `DiscordBucket`; the mock gateway's replay against
   EventStream; the Go voice connection, whose fresh identify after a failed resume finds the old
   UDP socket (`voice_gateway.go:283`) and whose `Close` may overtake a dial
   (`voice_gateway.go:248`).
