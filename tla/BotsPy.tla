------------------------------- MODULE BotsPy -------------------------------
(***************************************************************************)
(* Several bots that share one Dispatcher of the Python SDK                *)
(* (vaidcord-py/src/vaidcord/dispatcher.py), and the sync of their         *)
(* application commands (bot.py).  Every bot runs in its own task, inside  *)
(* Dispatcher.start_polling, whose receive loop syncs on READY and when a  *)
(* handler asks for it; a rate limit leaves the rest to a retry task.  The *)
(* gateway of a bot is GatewayPy.                                          *)
(***************************************************************************)
EXTENDS Integers, FiniteSets

CONSTANTS
    Bots,
    Commanded,  \* the bots with auto_sync_commands
    Lists,      \* number of command lists: the global one and the guilds'
    Commands,   \* commands a bot may register, the same for every list
    Early,      \* those it registers before it is started
    Foreign,    \* a command somebody else registers
    MaxStarts,  \* bound: calls of start_polling
    MaxSyncs,   \* bound: syncs a handler asks for
    MaxFaults   \* bound: rate limits, failed requests, startups and shutdowns

ASSUME BotsAssumption ==
    /\ Commanded \subseteq Bots /\ Early \subseteq Commands /\ Foreign \notin Commands
    /\ Lists \in Nat \ {0}
    /\ {MaxStarts, MaxSyncs, MaxFaults} \subseteq Nat

VARIABLES
    pc,        \* pc[b]: where start_polling of the bot is
    stopping,  \* stopping[b]: stop() was called
    active,    \* _active_bots
    started,   \* _started
    mode,      \* config.command_sync_mode
    registered,  \* registered[b]: _registered_commands
    ready,     \* the bots with _ready_event set
    run,       \* run[b][w]: the sync in the receive loop and the retry task
    remote,    \* remote[b][i]: the command lists Discord has
    starts, syncs, faults

VARIABLES      \* history
    ups,       \* startups completed since the last completed shutdown
    doubled,   \* a bot was started while another one's startup ran
    raced,     \* a bot was started while another one's shutdown ran
    broken,    \* the last shutdown raised
    synced,    \* synced[b]: what the completed syncs were to register
    edited,    \* edited[b]: the lists Foreign was added to
    dropped,   \* dropped[b]: an error ended a retry task
    late,      \* late[b]: a command was registered while a sync was under way
    clash      \* clash[b]: a list changed between the look at it and the overwrite

life == <<pc, stopping, active, started, starts, ups, doubled, raced, broken>>
commands == <<registered, ready, run, remote, syncs, synced, edited, dropped, late, clash>>
vars == <<life, commands, mode, faults>>

Workers == {"loop", "retry"}
Idle == [at |-> "idle", i |-> 1, seen |-> {}, want |-> {}]
Runs == [at : {"idle", "sleep", "list", "put"}, i : 1 .. Lists, seen : SUBSET (Commands \cup {Foreign}),
         want : SUBSET Commands]

Places == {"off", "startup", "run", "shutdown", "done", "raised"}

(* Every variable keeps its type.                                          *)
LifeTypes ==
    /\ pc \in [Bots -> Places] /\ stopping \in [Bots -> BOOLEAN]
    /\ active \subseteq Bots /\ started \in BOOLEAN
    /\ starts \in 0 .. MaxStarts /\ ups \in Nat
    /\ doubled \in BOOLEAN /\ raced \in BOOLEAN /\ broken \in BOOLEAN
CommandTypes ==
    /\ registered \in [Bots -> SUBSET Commands] /\ synced \in [Bots -> SUBSET Commands]
    /\ run \in [Bots -> [Workers -> Runs]]
    /\ remote \in [Bots -> [1 .. Lists -> SUBSET (Commands \cup {Foreign})]]
    /\ edited \in [Bots -> SUBSET (1 .. Lists)]
    /\ dropped \in [Bots -> BOOLEAN] /\ late \in [Bots -> BOOLEAN] /\ clash \in [Bots -> BOOLEAN]
    /\ ready \subseteq Bots /\ syncs \in 0 .. MaxSyncs
TypeOK ==
    /\ LifeTypes /\ CommandTypes
    /\ mode \in {"merge", "replace"} /\ faults \in 0 .. MaxFaults

Init ==
    /\ pc = [b \in Bots |-> "off"] /\ stopping = [b \in Bots |-> FALSE]
    /\ active = {} /\ started = FALSE /\ mode \in {"merge", "replace"}
    /\ run = [b \in Bots |-> [w \in Workers |-> Idle]]
    /\ remote = [b \in Bots |-> [i \in 1 .. Lists |-> {}]]
    /\ starts = 0 /\ syncs = 0 /\ faults = 0 /\ ups = 0 /\ ready = {}
    /\ doubled = FALSE /\ raced = FALSE /\ broken = FALSE
    /\ registered = [b \in Bots |-> Early]
    /\ synced = [b \in Bots |-> {}] /\ edited = [b \in Bots |-> {}]
    /\ dropped = [b \in Bots |-> FALSE] /\ late = [b \in Bots |-> FALSE] /\ clash = [b \in Bots |-> FALSE]

Goto(b, p) == pc' = [pc EXCEPT ![b] = p]
Fault == faults < MaxFaults /\ faults' = faults + 1

-----------------------------------------------------------------------------
(* Dispatcher.start_polling.                                               *)

(* The bot is active before the startup handlers are awaited, and they are *)
(* awaited unless somebody's have completed.                               *)
start_polling(b) ==
    /\ pc[b] \in {"off", "done", "raised"} /\ starts < MaxStarts /\ starts' = starts + 1
    /\ active' = active \cup {b} /\ stopping' = [stopping EXCEPT ![b] = FALSE]
    /\ Goto(b, IF started THEN "run" ELSE "startup")
    /\ doubled' = (doubled \/ \E c \in Bots : pc[c] = "startup")
    /\ raced' = (raced \/ \E c \in Bots : pc[c] = "shutdown")
    /\ UNCHANGED <<started, ups, broken, commands, mode, faults>>

startup(b) ==
    /\ pc[b] = "startup" /\ Goto(b, "run")
    /\ started' = TRUE /\ ups' = ups + 1
    /\ UNCHANGED <<stopping, active, starts, doubled, raced, broken, commands, mode, faults>>

(* A startup handler raises, or start_polling is cancelled in one, outside *)
(* the try: the bot stays active.                                          *)
startupRaises(b) ==
    /\ pc[b] = "startup" /\ Goto(b, "raised") /\ Fault
    /\ UNCHANGED <<stopping, active, started, starts, ups, doubled, raced, broken, commands, mode>>

(* The end of bot.start(): its finally stops the bot once more, and the    *)
(* last active bot awaits the shutdown handlers.                           *)
Ends(b) ==
    /\ active' = active \ {b}
    /\ Goto(b, IF active' = {} /\ started THEN "shutdown" ELSE "done")
    /\ run' = [run EXCEPT ![b] = [w \in Workers |-> Idle]] /\ ready' = ready \ {b}

shutdownForgets(b) ==
    /\ pc[b] = "shutdown" /\ Goto(b, "done")
    /\ ups' = 0 /\ doubled' = FALSE /\ broken' = FALSE
    /\ UNCHANGED <<stopping, active, started, starts, raced, commands, mode, faults>>
shutdown(b) ==
    /\ pc[b] = "shutdown" /\ Goto(b, "done")
    /\ started' = FALSE /\ ups' = 0 /\ doubled' = FALSE /\ broken' = FALSE
    /\ UNCHANGED <<stopping, active, starts, raced, commands, mode, faults>>

(* A shutdown handler raises, or is cancelled: the dispatcher stays        *)
(* started, with nobody active.                                            *)
shutdownRaises(b) ==
    /\ pc[b] = "shutdown" /\ Goto(b, "done") /\ Fault /\ broken' = TRUE
    /\ UNCHANGED <<stopping, active, started, starts, ups, doubled, raced, commands, mode>>

(* stop() from another task: the retry task is cancelled; the receive loop *)
(* ends when it is back from what it is handling.                          *)
stop(b) ==
    /\ pc[b] = "run" /\ ~stopping[b]
    /\ stopping' = [stopping EXCEPT ![b] = TRUE]
    /\ run' = [run EXCEPT ![b]["retry"] = Idle] /\ ready' = ready \ {b}
    /\ UNCHANGED <<pc, active, started, starts, ups, doubled, raced, broken,
                   remote, syncs, synced, edited, registered, dropped, late, clash, mode, faults>>

(* The receive loop ends, for stop() or for a close.                       *)
BotEnds(b) ==
    /\ pc[b] = "run" /\ run[b]["loop"].at = "idle" /\ Ends(b)
    /\ UNCHANGED <<stopping, started, starts, ups, doubled, raced, broken,
                   remote, syncs, synced, edited, registered, dropped, late, clash, mode, faults>>

-----------------------------------------------------------------------------
(* Bot._handle_ready and the sync.                                         *)

(* slash_command, user_command, message_command.  (Early stands for what   *)
(* is registered while the bot does not run.)                              *)
slash_command(b, c) ==
    /\ pc[b] = "run" /\ b \in Commanded /\ c \notin registered[b]
    /\ registered' = [registered EXCEPT ![b] = @ \cup {c}]
    /\ late' = [late EXCEPT ![b] = @ \/ \E w \in Workers : run[b][w].at \in {"list", "put"}]
    /\ UNCHANGED <<life, run, ready, remote, syncs, synced, edited, dropped, clash, mode, faults>>

(* A sync collects what is registered before its first request.            *)
Begun(b) == [Idle EXCEPT !.at = "list", !.want = registered[b]]

(* READY comes once in a run: reconnect() ends it.                         *)
_handle_ready(b) ==
    /\ pc[b] = "run" /\ b \in Commanded /\ ~stopping[b] /\ b \notin ready
    /\ registered[b] # {} /\ ready' = ready \cup {b}
    /\ run' = [run EXCEPT ![b]["loop"] = Begun(b)]
    /\ UNCHANGED <<life, remote, syncs, synced, edited, registered, dropped, late, clash, mode, faults>>

(* Later a handler may ask for a sync; the receive loop waits for it too.  *)
sync_application_commands(b) ==
    /\ pc[b] = "run" /\ ~stopping[b] /\ b \in ready /\ run[b]["loop"].at = "idle"
    /\ syncs < MaxSyncs /\ syncs' = syncs + 1
    /\ run' = [run EXCEPT ![b]["loop"] = Begun(b)]
    /\ UNCHANGED <<life, ready, remote, synced, edited, registered, dropped, late, clash, mode, faults>>

_resolve_command_sync_payload(seen, want) ==
    IF mode = "replace" THEN want ELSE seen \cup want
_commands_changed(seen, want) == seen # _resolve_command_sync_payload(seen, want)

NextList(r) == [r EXCEPT !.at = "list", !.i = @ + 1, !.seen = {}]

(* On to the next list, or done.                                           *)
AdvancesToEnd(b, w) ==
    run' = [run EXCEPT ![b][w] = Idle] /\ synced' = [synced EXCEPT ![b] = @ \cup run[b][w].want]
Advances(b, w) ==
    \/ /\ run[b][w].i < Lists /\ UNCHANGED synced
       /\ run' = [run EXCEPT ![b][w] = NextList(run[b][w])]
    \/ /\ run[b][w].i = Lists
       /\ run' = [run EXCEPT ![b][w] = Idle] /\ synced' = [synced EXCEPT ![b] = @ \cup run[b][w].want]

(* _sync_application_commands_once: Discord answers with a list, and the   *)
(* list is overwritten if it differs.                                      *)
ListsCommands(b, w) ==
    LET r == run[b][w] IN
    /\ r.at = "list"
    /\ \/ /\ _commands_changed(remote[b][r.i], r.want)
          /\ run' = [run EXCEPT ![b][w] = [r EXCEPT !.at = "put", !.seen = remote[b][r.i]]]
          /\ UNCHANGED synced
       \/ ~_commands_changed(remote[b][r.i], r.want) /\ Advances(b, w)
    /\ UNCHANGED <<life, ready, remote, syncs, edited, registered, dropped, late, clash, mode, faults>>

OverwritesCommands(b, w) ==
    LET r == run[b][w] IN
    /\ r.at = "put"
    /\ remote' = [remote EXCEPT ![b][r.i] = _resolve_command_sync_payload(r.seen, r.want)]
    /\ clash' = [clash EXCEPT ![b] = @ \/ remote[b][r.i] # r.seen]
    /\ Advances(b, w)
    /\ UNCHANGED <<life, ready, syncs, edited, registered, dropped, late, mode, faults>>

(* RateLimitError: the sync of the loop is left to a retry task, one at a  *)
(* time; the retry task sleeps again.                                      *)
_schedule_command_sync_retryNever(b, w) == run' = [run EXCEPT ![b][w] = Idle]
_schedule_command_sync_retry(b, w) ==
    LET pending == w = "loop" /\ run[b]["retry"].at # "idle" IN
    run' = [run EXCEPT ![b] = [v \in Workers |->
              IF v = "retry" THEN IF pending THEN run[b][v] ELSE [Idle EXCEPT !.at = "sleep"]
                             ELSE IF w = "loop" THEN Idle ELSE run[b][v]]]
RateLimited(b, w) ==
    /\ run[b][w].at \in {"list", "put"} /\ Fault
    /\ _schedule_command_sync_retry(b, w)
    /\ UNCHANGED <<life, ready, remote, syncs, synced, edited, registered, dropped, late, clash, mode>>

RetryWakes(b) ==
    /\ run[b]["retry"].at = "sleep"
    /\ run' = [run EXCEPT ![b]["retry"] = Begun(b)]
    /\ UNCHANGED <<life, ready, remote, syncs, synced, edited, registered, dropped, late, clash, mode, faults>>

(* Any other error ends the retry task, or leaves start().                 *)
RetryRaises(b) ==
    /\ run[b]["retry"].at \in {"list", "put"} /\ Fault
    /\ run' = [run EXCEPT ![b]["retry"] = Idle] /\ dropped' = [dropped EXCEPT ![b] = TRUE]
    /\ UNCHANGED <<life, ready, remote, syncs, synced, edited, registered, late, clash, mode>>
LoopRaises(b) ==
    /\ run[b]["loop"].at \in {"list", "put"} /\ Fault /\ Ends(b)
    /\ UNCHANGED <<stopping, started, starts, ups, doubled, raced, broken,
                   remote, syncs, synced, edited, registered, dropped, late, clash, mode>>

(* Somebody else registers a command (bound: once per bot, in one list).   *)
ForeignEdit(b, i) ==
    /\ b \in Commanded /\ edited[b] = {}
    /\ remote' = [remote EXCEPT ![b][i] = @ \cup {Foreign}]
    /\ edited' = [edited EXCEPT ![b] = @ \cup {i}]
    /\ UNCHANGED <<life, run, ready, syncs, synced, registered, dropped, late, clash, mode, faults>>

-----------------------------------------------------------------------------
Syncs(b) == RetryWakes(b) \/ \E w \in Workers : ListsCommands(b, w) \/ OverwritesCommands(b, w)

Next ==
    \E b \in Bots :
        \/ start_polling(b) \/ startup(b) \/ startupRaises(b) \/ shutdown(b) \/ shutdownRaises(b)
        \/ stop(b) \/ BotEnds(b) \/ _handle_ready(b) \/ sync_application_commands(b)
        \/ Syncs(b) \/ RetryRaises(b) \/ LoopRaises(b)
        \/ \E w \in Workers : RateLimited(b, w)
        \/ ForeignEdit(b, 1)
        \/ \E c \in Commands : slash_command(b, c)

Spec == Init /\ [][Next]_vars

(* Discord answers, and a sleep ends.                                      *)
FairSpec == Spec /\ \A b \in Commanded : WF_vars(Syncs(b))

-----------------------------------------------------------------------------
(* Properties.                                                             *)

(* Every bot runs between a completed startup and the shutdown that ends   *)
(* it; the startup handlers complete once, unless a bot was started while  *)
(* they ran for another.  (A bot started while the shutdown handlers run   *)
(* is cut off from both.)                                                  *)
StartedWhileRunning ==
    ~raced => \A b \in Bots : pc[b] = "run" => started /\ ups > 0 /\ (doubled \/ ups = 1)

(* And the last one to end shuts down, however startups overlap or fail:   *)
(* one startup is left without its shutdown only when that raised, and the *)
(* next one to end makes up for it.                                        *)
LastOneShutsDown ==
    ~raced /\ ~broken /\ (\A b \in Bots : pc[b] \in {"off", "done"}) => ups = 0 /\ ~started

(* When start() has ended no retry task of the bot is left, also when the  *)
(* sync was limited after stop() had cancelled one.                        *)
StoppedLeavesNoRetry ==
    \A b \in Bots : pc[b] # "run" => run[b]["retry"] = Idle

(* The inductive form: who is active; that the handlers of a shutdown run  *)
(* alone; which half of a pair has completed; who has yet to shut down;    *)
(* and that a sync belongs to a bot that runs.                             *)
ActiveBots == \A b \in Bots : b \in active <=> pc[b] \in {"startup", "run", "raised"}
ShutdownAlone ==
    \A b, c \in Bots : ~raced /\ b # c /\ pc[b] = "shutdown" => pc[c] \in {"off", "done"}
HalfOfPair ==
    ~raced => /\ \A b \in Bots : pc[b] \in {"run", "shutdown"} => started
              /\ \A b \in Bots : pc[b] = "startup" => ~started \/ doubled
              /\ \A b, c \in Bots : b # c /\ pc[b] = "startup" /\ pc[c] = "startup" => doubled
              /\ started <=> ups > 0
              /\ ups > 1 => doubled
SomebodyShutsDown ==
    ~raced /\ ~broken /\ started => \E b \in Bots : pc[b] \notin {"off", "done"}
SyncsOfRunning == \A b \in Bots, w \in Workers : pc[b] # "run" => run[b][w] = Idle
LifeInv ==
    /\ ActiveBots /\ ShutdownAlone /\ HalfOfPair /\ SomebodyShutsDown
    /\ SyncsOfRunning

(* What a bot begins is ended with it: startup and shutdown come in pairs, *)
(* and no retry task is left.                                              *)
LifecyclePaired ==
    TypeOK /\ StartedWhileRunning /\ LastOneShutsDown /\ StoppedLeavesNoRetry /\ LifeInv

(* What a completed sync has registered stays registered, whatever other   *)
(* syncs do at the same time, unless a command came in the middle of one.  *)
SyncedStays == \A b \in Bots, i \in 1 .. Lists : late[b] \/ synced[b] \subseteq remote[b][i]

(* In merge mode the commands of others survive, unless they came between  *)
(* a look at the list and its overwrite.                                   *)
ForeignSurvives ==
    mode = "merge" => \A b \in Bots : ~clash[b] => \A i \in edited[b] : Foreign \in remote[b][i]

(* The inductive form of SyncedStays: the syncs under way want what is     *)
(* registered, and the lists behind them have it.                          *)
Syncing(b, w) == run[b][w].at \in {"list", "put"}
SyncInv ==
    \A b \in Bots : ~late[b] =>
        /\ synced[b] \subseteq registered[b]
        /\ \A w \in Workers : Syncing(b, w) =>
             /\ run[b][w].want = registered[b]
             /\ \A i \in 1 .. Lists : i < run[b][w].i => registered[b] \subseteq remote[b][i]

(* Concurrent syncs lose no command, neither ours nor another's.           *)
ListsKept == SyncedStays /\ ForeignSurvives /\ SyncInv

(* After a sync began every command registered by then arrives, through    *)
(* rate limits and retries, or the bot stops, or the error of a retry was  *)
(* logged, or a command was registered in the middle of a sync.            *)
CommandsArrive ==
    \A b \in Commanded, c \in Commands :
        (run[b]["loop"].at = "list" /\ c \in registered[b]) ~>
            (c \in synced[b] \/ pc[b] # "run" \/ stopping[b] \/ dropped[b] \/ late[b])

(* And no sync that began before a command was registered takes it away.   *)
(* (Not so: it overwrites a list with what it collected.)                  *)
LateStays == \A b \in Bots, i \in 1 .. Lists : synced[b] \subseteq remote[b][i]

(* The startup handlers run once.  (Not so for start_polling_many.)        *)
StartupOnce == ups <= 1

(* A bot runs on a dispatcher that is started.  (Not so for one that was   *)
(* started while the shutdown handlers ran.)                               *)
RunsStarted == \A b \in Bots : pc[b] = "run" => started

(* When no bot runs the dispatcher is shut down.  (Not so when a handler   *)
(* raised: a bot whose startup did stays active, and after a shutdown that *)
(* did the next bot runs without the startup handlers.)                    *)
EndedIsShutDown == (\A b \in Bots : pc[b] \in {"off", "done", "raised"}) => ~started
=============================================================================
