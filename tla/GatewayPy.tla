----------------------------- MODULE GatewayPy -----------------------------
(***************************************************************************)
(* The lifecycle of the Python SDK's Bot (vaidcord-py/src/vaidcord:        *)
(* bot.py, gateway_runtime.py): the asyncio tasks inside Bot.start(), a    *)
(* task that calls Bot.stop(), and the heartbeat task, all sharing one     *)
(* GatewayRuntime and one aiohttp session.                                 *)
(*                                                                         *)
(* A step of a task runs from one await to the next.  Websockets and HTTP  *)
(* sessions are numbered as they are created.  Frames have no content: a   *)
(* task that waits in receive() may be given any frame the server can      *)
(* legally send on that websocket.  Task.cancel() ends a task at its await.*)
(***************************************************************************)
EXTENDS Integers, FiniteSets

CONSTANTS
    MaxStarts,    \* bound: calls of Bot.start()
    MaxStops,     \* bound: calls of Bot.stop() by the application
    MaxRetries,   \* HTTPConfig.max_retries: attempts of one REST request
    MaxFaults,    \* bound: faults of network and server
    MayCancel,    \* TRUE: the task inside start() may be cancelled
    Overlap       \* TRUE: start() may be called again before an earlier
                  \* start() or stop() has returned

ASSUME ConstantsAssumption ==
    /\ MaxStarts \in Nat \ {0}
    /\ MaxStops \in Nat
    /\ MaxRetries \in Nat \ {0}
    /\ MaxFaults \in Nat
    /\ MayCancel \in BOOLEAN
    /\ Overlap \in BOOLEAN

Starts == 1 .. MaxStarts
User   == 0                       \* the task that calls Bot.stop()
Tasks  == {User} \cup Starts

(* A start() dials once and, after an op 7 or op 9, once more.  A session  *)
(* is created when the last one is closed or forgotten, and each stop(),   *)
(* of the application or at the end of a start(), does both at most once.  *)
MaxConns    == 2 * MaxStarts
MaxSessions == 2 * (MaxStarts + MaxStops) + 1
Conns       == 1 .. MaxConns
None        == 0

VARIABLES
    pc,           \* pc[t]: the await task t is in
    task,         \* task[i]: locals of the i-th start()
    stops,        \* calls of stop() so far
    state,        \* Bot._state
    running,      \* Bot._running
    readyEvent,   \* Bot._ready_event
    sessionId,    \* Bot._session_id is not None
    resumeUrl,    \* Bot._resume_gateway_url is not None
    session,      \* Bot._session
    sessions,     \* aiohttp sessions that are open
    nsess         \* sessions created so far

VARIABLES
    ws,             \* GatewayRuntime._ws
    resumeOnHello,  \* GatewayRuntime._resume_on_hello
    ackReceived,    \* GatewayRuntime._heartbeat_ack_received
    hb,             \* the await the task _heartbeat_task is in
    conn,           \* conn[w]: websocket w
    nconns,         \* websockets dialled so far
    faults          \* faults so far

botVars  == <<state, running, readyEvent, sessionId, resumeUrl>>
httpVars == <<session, sessions, nsess>>
gwVars   == <<ws, resumeOnHello, ackReceived, hb>>
connVars == <<conn, nconns>>
vars == <<pc, task, stops, state, running, readyEvent, sessionId, resumeUrl, session,
          sessions, nsess, ws, resumeOnHello, ackReceived, hb, conn, nconns, faults>>

BotStates == {"idle", "connecting", "identifying", "ready", "reconnecting",
              "stopping", "stopped"}

(* rest, retry, dial: inside connect(); read, hello, handler, sleep, close:*)
(* inside run(); stopws, stopsess: inside stop().                          *)
Awaits == {"none", "rest", "retry", "dial", "read", "hello", "handler", "sleep",
           "close", "stopws", "stopsess", "returned"}

(* ws: the websocket run() iterates over; sess: the session of the request *)
(* in flight; attempt: of that request; again: connect() was called by     *)
(* reconnect(); resume: reconnect's parameter.                             *)
Locals == [ws : 0 .. MaxConns, sess : 0 .. MaxSessions,
           attempt : 0 .. MaxRetries, again : BOOLEAN, resume : BOOLEAN]

(* st: closed is ws.closed; gone: the peer closed or dropped it; muted: it *)
(* is half-open.  stage: the frames the server has been asked for.  sent:  *)
(* a heartbeat went out.  resumed: RESUME went out.                        *)
Websockets == [st : {"none", "open", "muted", "gone", "closed"},
               sess : 0 .. MaxSessions,
               stage : {"new", "hello", "identified", "ready"},
               sent : BOOLEAN, resumed : BOOLEAN]

(* Every variable keeps its type.                                          *)
TypeOK ==
    /\ pc \in [Tasks -> Awaits]
    /\ task \in [Starts -> Locals]
    /\ stops \in 0 .. MaxStops
    /\ state \in BotStates
    /\ running \in BOOLEAN /\ readyEvent \in BOOLEAN
    /\ sessionId \in BOOLEAN /\ resumeUrl \in BOOLEAN
    /\ session \in 0 .. nsess /\ sessions \subseteq 1 .. nsess
    /\ nsess \in 0 .. MaxSessions
    /\ ws \in 0 .. nconns
    /\ resumeOnHello \in BOOLEAN /\ ackReceived \in BOOLEAN
    /\ hb \in {"none", "check", "sleep"}
    /\ conn \in [Conns -> Websockets]
    /\ nconns \in 0 .. MaxConns
    /\ faults \in 0 .. MaxFaults

Init ==
    /\ pc = [t \in Tasks |-> "none"]
    /\ task = [i \in Starts |-> [ws |-> None, sess |-> None, attempt |-> 0,
                                 again |-> FALSE, resume |-> FALSE]]
    /\ stops = 0
    /\ state = "idle" /\ running = FALSE /\ readyEvent = FALSE
    /\ sessionId = FALSE /\ resumeUrl = FALSE
    /\ session = None /\ sessions = {} /\ nsess = 0
    /\ ws = None /\ resumeOnHello = FALSE /\ ackReceived = TRUE /\ hb = "none"
    /\ conn = [w \in Conns |-> [st |-> "none", sess |-> None, stage |-> "new",
                                sent |-> FALSE, resumed |-> FALSE]]
    /\ nconns = 0
    /\ faults = 0

Fault == faults < MaxFaults /\ faults' = faults + 1

Goto(t, p) == pc' = [pc EXCEPT ![t] = p]

-----------------------------------------------------------------------------
(* Bot._create_session and Bot._close_session.                             *)

SessionUsable == session # None /\ session \in sessions

CreatedSession == IF SessionUsable THEN session ELSE nsess + 1

_create_session ==
    /\ session' = CreatedSession
    /\ sessions' = sessions \cup {CreatedSession}
    /\ nsess' = IF SessionUsable THEN nsess ELSE nsess + 1

(* Its connector drops every transport that is still open.                 *)
SessionCloses ==
    /\ sessions' = sessions \ {session}
    /\ conn' = [w \in Conns |-> IF conn[w].sess = session /\ conn[w].st \in {"open", "muted"}
                                THEN [conn[w] EXCEPT !.st = "gone"] ELSE conn[w]]
    /\ UNCHANGED <<session, nsess>>

-----------------------------------------------------------------------------
(* Bot.stop().  Its three parts are separated by the two awaits.           *)

(* send_payload, stop and reconnect all ask: is self._ws there and not     *)
(* closed?                                                                 *)
WsLive == ws # None /\ conn[ws].st # "closed"

ClosedWs == [conn EXCEPT ![ws].st = "closed"]

Returned(t) == IF t = User THEN "none" ELSE "returned"

(* _ws is dropped and the session closed; without a session to close,      *)
(* stop() is done.  st: what Bot._state is until then.                     *)
StopCloses(t, st) ==
    /\ ws' = None
    /\ \/ /\ SessionUsable
          /\ SessionCloses
          /\ Goto(t, "stopsess")
          /\ state' = st
       \/ /\ ~SessionUsable
          /\ state' = "stopped"
          /\ Goto(t, Returned(t))
          /\ UNCHANGED <<httpVars, conn>>

StopKeepsHeartbeat(t) ==
    /\ running' = FALSE /\ readyEvent' = FALSE
    /\ \/ /\ WsLive
          /\ state' = "stopping"
          /\ conn' = ClosedWs
          /\ Goto(t, "stopws")
          /\ UNCHANGED <<ws, httpVars>>
       \/ /\ ~WsLive
          /\ StopCloses(t, "stopping")
    /\ UNCHANGED <<hb, sessionId, resumeUrl, resumeOnHello, ackReceived, nconns>>

stop(t) ==
    /\ running' = FALSE /\ readyEvent' = FALSE
    /\ hb' = "none"
    /\ \/ /\ WsLive
          /\ state' = "stopping"
          /\ conn' = ClosedWs
          /\ Goto(t, "stopws")
          /\ UNCHANGED <<ws, httpVars>>
       \/ /\ ~WsLive
          /\ StopCloses(t, "stopping")
    /\ UNCHANGED <<sessionId, resumeUrl, resumeOnHello, ackReceived, nconns>>

(* The await of ws.close() is over; another task may have set the state.   *)
StopClosesSession(t) ==
    /\ pc[t] = "stopws"
    /\ StopCloses(t, state)
    /\ UNCHANGED <<task, stops, running, readyEvent, sessionId, resumeUrl, resumeOnHello,
                   ackReceived, hb, nconns, faults>>

StopReturns(t) ==
    /\ pc[t] = "stopsess"
    /\ session' = None
    /\ state' = "stopped"
    /\ Goto(t, Returned(t))
    /\ UNCHANGED <<task, stops, running, readyEvent, sessionId, resumeUrl, sessions, nsess,
                   gwVars, connVars, faults>>

UserStop ==
    /\ pc[User] = "none" /\ stops < MaxStops
    /\ stops' = stops + 1
    /\ stop(User)
    /\ UNCHANGED <<task, faults>>

(* The task inside start() is cancelled, or a handler raises: run() or     *)
(* start() ends and start's finally clause calls stop().                   *)
Active(i) == pc[i] \in {"rest", "retry", "dial", "read", "hello", "handler", "sleep", "close"}

Cancelled(i) ==
    /\ MayCancel /\ Active(i)
    /\ stop(i)
    /\ UNCHANGED <<task, stops, faults>>

-----------------------------------------------------------------------------
(* Bot.start() and GatewayRuntime.connect().                               *)

(* GET /gateway/bot goes out on the session that is current by then.       *)
BeginRest(i, attempt, again) ==
    /\ _create_session
    /\ task' = [task EXCEPT ![i].sess = CreatedSession, ![i].attempt = attempt,
                            ![i].again = again]
    /\ Goto(i, "rest")

BeginDial(i, again) ==
    /\ _create_session
    /\ task' = [task EXCEPT ![i].sess = CreatedSession, ![i].attempt = 0,
                            ![i].again = again]
    /\ Goto(i, "dial")

start(i) ==
    /\ pc[i] = "none" /\ ~running
    /\ \A j \in Starts : j < i => pc[j] # "none" /\ (Overlap \/ pc[j] = "returned")
    /\ Overlap \/ pc[User] = "none"
    /\ running' = TRUE /\ state' = "connecting"
    /\ BeginRest(i, 1, FALSE)
    /\ UNCHANGED <<stops, readyEvent, sessionId, resumeUrl, gwVars, connVars, faults>>

RestOK(i) ==
    /\ pc[i] = "rest" /\ task[i].sess \in sessions
    /\ resumeOnHello' = FALSE
    /\ BeginDial(i, task[i].again)
    /\ UNCHANGED <<stops, botVars, ws, ackReceived, hb, connVars, faults>>

(* The session was closed under the request, a transport error or a 5xx:   *)
(* all are retried until the attempts are used up.  Any other status       *)
(* raises at once, and start's finally clause calls stop().                *)
RestFails(i) ==
    /\ pc[i] = "rest"
    /\ \/ task[i].sess \notin sessions /\ UNCHANGED faults
       \/ task[i].sess \in sessions /\ Fault
    /\ \/ /\ task[i].attempt < MaxRetries
          /\ Goto(i, "retry")
          /\ UNCHANGED <<botVars, httpVars, gwVars, connVars>>
       \/ /\ task[i].attempt = MaxRetries \/ task[i].sess \in sessions
          /\ stop(i)
    /\ UNCHANGED <<task, stops>>

RestRetries(i) ==
    /\ pc[i] = "retry"
    /\ BeginRest(i, task[i].attempt + 1, task[i].again)
    /\ UNCHANGED <<stops, botVars, gwVars, connVars, faults>>

(* The websocket is open.  start() goes on into run(); a reconnect()       *)
(* returns into the run() that called it, which then returns True, and     *)
(* start's finally clause stops the bot.                                   *)
DialOK(i) ==
    /\ pc[i] = "dial" /\ task[i].sess \in sessions
    /\ LET w == nconns + 1
           opened == [conn EXCEPT ![w].st = "open", ![w].sess = task[i].sess]
       IN /\ nconns' = w
          /\ \/ /\ ~task[i].again
                /\ conn' = opened
                /\ ws' = w
                /\ task' = [task EXCEPT ![i].ws = w]
                /\ Goto(i, "read")
                /\ UNCHANGED <<botVars, hb>>
             \/ /\ task[i].again
                /\ conn' = [opened EXCEPT ![w].st = "closed"]
                /\ ws' = w
                /\ running' = FALSE /\ state' = "stopping" /\ readyEvent' = FALSE
                /\ hb' = "none"
                /\ Goto(i, "stopws")
                /\ UNCHANGED <<task, sessionId, resumeUrl>>
    /\ UNCHANGED <<stops, httpVars, resumeOnHello, ackReceived, faults>>

DialFails(i) ==
    /\ pc[i] = "dial"
    /\ \/ task[i].sess \notin sessions /\ UNCHANGED faults
       \/ task[i].sess \in sessions /\ Fault
    /\ stop(i)
    /\ UNCHANGED <<task, stops>>

-----------------------------------------------------------------------------
(* GatewayRuntime.run() and _handle_gateway_payload.                       *)

Readable(i) == pc[i] = "read" /\ conn[task[i].ws].st = "open"
Stage(i) == conn[task[i].ws].stage

(* async for ends: the peer, stop(), reconnect() or the heartbeat closed it.*)
ReadEnds(i) ==
    /\ pc[i] = "read" /\ conn[task[i].ws].st \in {"gone", "closed"}
    /\ stop(i)
    /\ UNCHANGED <<task, stops, faults>>

(* Op 10: RESUME or IDENTIFY goes out on self._ws.                         *)
Hello(i, stage, resumed) ==
    conn' = [w \in Conns |->
        [conn[w] EXCEPT !.stage = IF WsLive /\ w = ws THEN stage
                                  ELSE IF w = task[i].ws THEN "hello" ELSE @,
                        !.resumed = @ \/ (WsLive /\ w = ws /\ resumed)]]

ReadHello(i) ==
    /\ Readable(i) /\ Stage(i) = "new"
    /\ resumeOnHello' = FALSE
    /\ \/ /\ resumeOnHello /\ sessionId
          /\ Hello(i, "ready", TRUE)
          /\ UNCHANGED state
       \/ /\ ~(resumeOnHello /\ sessionId)
          /\ state' = "identifying"
          /\ Hello(i, "identified", FALSE)
    /\ Goto(i, "hello")
    /\ UNCHANGED <<task, stops, running, readyEvent, sessionId, resumeUrl, httpVars, ws,
                   ackReceived, hb, nconns, faults>>

(* ... and, once it is written, the heartbeat task is replaced.            *)
HelloSent(i) ==
    /\ pc[i] = "hello"
    /\ Goto(i, "read")
    /\ hb' = "check"
    /\ UNCHANGED <<task, stops, botVars, httpVars, ws, resumeOnHello, ackReceived,
                   connVars, faults>>

(* Writing to a connection the peer has closed raises; the exception       *)
(* leaves run() and start().                                               *)
SendFails(i) ==
    /\ pc[i] \in {"hello", "handler"} /\ ws # None /\ conn[ws].st = "gone"
    /\ stop(i)
    /\ UNCHANGED <<task, stops, faults>>

ReadReady(i) ==
    /\ Readable(i) /\ Stage(i) = "identified"
    /\ sessionId' = TRUE /\ resumeUrl' = TRUE
    /\ state' = "ready" /\ readyEvent' = TRUE
    /\ conn' = [conn EXCEPT ![task[i].ws].stage = "ready"]
    /\ Goto(i, "handler")
    /\ UNCHANGED <<task, stops, running, httpVars, gwVars, nconns, faults>>

(* Any other dispatch: the handlers are awaited.                           *)
ReadEvent(i) ==
    /\ Readable(i) /\ Stage(i) = "ready"
    /\ Goto(i, "handler")
    /\ UNCHANGED <<task, stops, botVars, httpVars, gwVars, connVars, faults>>

HandlerReturns(i) ==
    /\ pc[i] = "handler"
    /\ Goto(i, "read")
    /\ UNCHANGED <<task, stops, botVars, httpVars, gwVars, connVars, faults>>

_send_heartbeat ==
    /\ ackReceived' = FALSE
    /\ conn' = [w \in Conns |-> [conn[w] EXCEPT !.sent = @ \/ (WsLive /\ w = ws)]]

ReadHeartbeatRequest(i) ==
    /\ Readable(i) /\ Stage(i) # "new"
    /\ _send_heartbeat
    /\ Goto(i, "handler")
    /\ UNCHANGED <<task, stops, botVars, httpVars, ws, resumeOnHello, hb, nconns, faults>>

ReadAck(i) ==
    /\ Readable(i) /\ conn[task[i].ws].sent
    /\ ackReceived' = TRUE
    /\ UNCHANGED <<pc, task, stops, botVars, httpVars, ws, resumeOnHello, hb, connVars, faults>>

(* reconnect: the old websocket is closed, then connect(resume) begins.    *)
Connects(i, resume) ==
    /\ state' = "connecting"
    /\ \/ /\ resume /\ resumeUrl
          /\ resumeOnHello' = TRUE
          /\ BeginDial(i, TRUE)
       \/ /\ ~(resume /\ resumeUrl)
          /\ BeginRest(i, 1, TRUE)
          /\ UNCHANGED resumeOnHello

reconnect(i, resume) ==
    /\ hb' = "none"
    /\ \/ /\ WsLive
          /\ state' = "reconnecting"
          /\ conn' = ClosedWs
          /\ task' = [task EXCEPT ![i].resume = resume]
          /\ Goto(i, "close")
          /\ UNCHANGED <<httpVars, resumeOnHello>>
       \/ /\ ~WsLive
          /\ Connects(i, resume)
          /\ UNCHANGED conn
    /\ UNCHANGED <<stops, running, readyEvent, sessionId, resumeUrl, ws, ackReceived,
                   nconns, faults>>

ReconnectConnects(i) ==
    /\ pc[i] = "close"
    /\ Connects(i, task[i].resume)
    /\ UNCHANGED <<stops, running, readyEvent, sessionId, resumeUrl, ws, ackReceived, hb,
                   connVars, faults>>

ReadReconnect(i) ==
    /\ Readable(i) /\ Stage(i) # "new"
    /\ reconnect(i, TRUE)

(* Op 9: five seconds pass before the reconnect.                           *)
ReadInvalidSession(i, d) ==
    /\ Readable(i) /\ Stage(i) # "new"
    /\ task' = [task EXCEPT ![i].resume = d]
    /\ Goto(i, "sleep")
    /\ UNCHANGED <<stops, botVars, httpVars, gwVars, connVars, faults>>

SleepEnds(i) ==
    /\ pc[i] = "sleep"
    /\ reconnect(i, task[i].resume)

-----------------------------------------------------------------------------
(* GatewayRuntime._heartbeat.                                              *)

HbCheck ==
    /\ hb = "check"
    /\ hb' = IF running THEN "sleep" ELSE "none"
    /\ UNCHANGED <<pc, task, stops, botVars, httpVars, ws, resumeOnHello, ackReceived,
                   connVars, faults>>

HbBeatAlways ==
    /\ hb = "sleep"
    /\ _send_heartbeat
    /\ hb' = "check"
    /\ UNCHANGED <<pc, task, stops, botVars, httpVars, ws, resumeOnHello, nconns, faults>>

HbBeat ==
    /\ hb = "sleep" /\ ackReceived
    /\ _send_heartbeat
    /\ hb' = "check"
    /\ UNCHANGED <<pc, task, stops, botVars, httpVars, ws, resumeOnHello, nconns, faults>>

(* The write raises and ends the task.                                     *)
HbBeatFails ==
    /\ hb = "sleep" /\ ackReceived
    /\ ws # None /\ conn[ws].st = "gone"
    /\ ackReceived' = FALSE
    /\ hb' = "none"
    /\ UNCHANGED <<pc, task, stops, botVars, httpVars, ws, resumeOnHello, connVars, faults>>

(* The missed ACK: reconnect() cancels the task it runs in, which ends at  *)
(* the first await.  That is ws.close(), whose reader is woken all the     *)
(* same, or, if there is nothing to close, the request inside connect().   *)
HbMissed ==
    /\ hb = "sleep" /\ ~ackReceived
    /\ hb' = "none"
    /\ \/ /\ WsLive
          /\ state' = "reconnecting"
          /\ conn' = ClosedWs
          /\ UNCHANGED <<resumeOnHello, httpVars>>
       \/ /\ ~WsLive
          /\ state' = "connecting"
          /\ resumeOnHello' = (resumeUrl \/ resumeOnHello)
          /\ _create_session
          /\ UNCHANGED conn
    /\ UNCHANGED <<pc, task, stops, running, readyEvent, sessionId, resumeUrl, ws,
                   ackReceived, nconns, faults>>

-----------------------------------------------------------------------------
(* The peer and the network (external).                                    *)

Loses(w, how) ==
    /\ conn[w].st = "open" /\ Fault
    /\ conn' = [conn EXCEPT ![w].st = how]
    /\ UNCHANGED <<pc, task, stops, botVars, httpVars, gwVars, nconns>>

StartStep(i) ==
    \/ start(i) \/ RestOK(i) \/ RestFails(i) \/ RestRetries(i) \/ DialOK(i) \/ DialFails(i)
    \/ ReadEnds(i) \/ ReadHello(i) \/ HelloSent(i) \/ SendFails(i) \/ ReadReady(i)
    \/ ReadEvent(i) \/ HandlerReturns(i) \/ ReadHeartbeatRequest(i) \/ ReadAck(i)
    \/ ReadReconnect(i) \/ SleepEnds(i) \/ ReconnectConnects(i) \/ Cancelled(i)
    \/ \E d \in BOOLEAN : ReadInvalidSession(i, d)

(* Nothing is left to do; a start() that reads a silent connection without *)
(* a heartbeat task, because HELLO never came, waits for ever.             *)
Finished ==
    /\ \A i \in Starts : \/ pc[i] \in {"none", "returned"}
                         \/ pc[i] = "read" /\ conn[task[i].ws].st = "muted"
    /\ pc[User] = "none" /\ hb = "none"
    /\ UNCHANGED vars

Next ==
    \/ \E i \in Starts : StartStep(i)
    \/ \E t \in Tasks : StopClosesSession(t) \/ StopReturns(t)
    \/ UserStop
    \/ HbCheck \/ HbBeat \/ HbBeatFails \/ HbMissed
    \/ \E w \in Conns, how \in {"gone", "muted"} : Loses(w, how)
    \/ Finished

Spec == Init /\ [][Next]_vars

(* The event loop runs every task that can run, awaits of the library end, *)
(* handlers return; nobody has to call start() again or stop().            *)
Fairness ==
    /\ \A i \in Starts :
        /\ WF_vars(RestOK(i)) /\ WF_vars(RestFails(i)) /\ WF_vars(RestRetries(i))
        /\ WF_vars(DialOK(i)) /\ WF_vars(DialFails(i)) /\ WF_vars(ReadEnds(i))
        /\ WF_vars(ReadHello(i)) /\ WF_vars(HelloSent(i))
        /\ WF_vars(HandlerReturns(i)) /\ WF_vars(SleepEnds(i))
        /\ WF_vars(ReconnectConnects(i))
    /\ \A t \in Tasks : WF_vars(StopClosesSession(t)) /\ WF_vars(StopReturns(t))
    /\ WF_vars(HbCheck) /\ WF_vars(HbBeat) /\ WF_vars(HbMissed)

FairSpec == Spec /\ Fairness

-----------------------------------------------------------------------------
(* Properties.                                                             *)

Open(w) == conn[w].st \in {"open", "muted"}

(* When start() has returned and no stop() is under way, nothing is left   *)
(* of the run: no open websocket, no heartbeat task, and the bot is        *)
(* STOPPED and not ready, whatever stop() raced with.                      *)
ReturnedIsQuiet ==
    (\A i \in Starts : pc[i] = "returned") /\ pc[User] = "none"
        => /\ \A w \in Conns : ~Open(w)
           /\ hb # "sleep"
           /\ state = "stopped" /\ ~running /\ ~readyEvent

(* ... and no aiohttp session: each one that was created was closed.       *)
NoSessionLeft ==
    (\A i \in Starts : pc[i] = "returned") /\ pc[User] = "none" => sessions = {}

(* A bot that is running and reads an open connection after the handshake  *)
(* has a heartbeat task: no reconnect, restart or second HELLO loses it.   *)
ConnectionHasHeartbeat ==
    \A i \in Starts :
        (Readable(i) /\ Stage(i) # "new" /\ running) => hb # "none"

(* start() is called when the calls before have returned and no stop() is  *)
(* under way, and only a start() that has not ended has a heartbeat task,  *)
(* runs the bot or makes it ready.  The last stop() to return leaves it    *)
(* STOPPED.                                                                *)
Idle(i) == pc[i] \in {"none", "returned"}
StartsInTurn ==
    /\ pc[User] \in {"none", "stopws", "stopsess"}
    /\ \A i, j \in Starts : j < i /\ pc[i] # "none" => pc[j] = "returned"
    /\ running => pc[User] = "none"
    /\ (\A i \in Starts : ~Active(i)) => hb = "none" /\ ~running /\ ~readyEvent
    /\ (\A i \in Starts : Idle(i)) /\ (\E i \in Starts : pc[i] = "returned") /\ pc[User] = "none"
         => state = "stopped"
    /\ \A i \in Starts : pc[i] = "retry" => task[i].attempt < MaxRetries

(* An open websocket is the current one and a start() reads it; _ws is     *)
(* dropped by the time start() dials anew, and a websocket that stop() has *)
(* closed is not replaced by a live one while stop() waits.                *)
Reading(i) == pc[i] \in {"read", "hello", "handler", "sleep"}
Connecting(i) == pc[i] \in {"rest", "retry", "dial"}
WebsocketsHaveReaders ==
    /\ \A w \in Conns : Open(w) => w = ws /\ \E i \in Starts : Reading(i) /\ task[i].ws = w
    /\ \A w \in Conns : w > nconns => conn[w].st = "none" /\ conn[w].stage = "new"
    /\ \A i \in Starts : Reading(i) => task[i].ws \in 1 .. nconns /\ (running => ws = task[i].ws)
    /\ \A t \in Tasks : pc[t] = "stopws" => ~WsLive
    /\ pc[User] = "stopws" => \A i \in Starts : Connecting(i) => task[i].again
    /\ ws # None => \/ \E t \in Tasks : pc[t] = "stopws"
                    \/ \E i \in Starts : Reading(i) \/ pc[i] = "close" \/ (Connecting(i) /\ task[i].again)
    /\ \A i \in Starts :
         pc[i] \in {"read", "handler"} /\ running /\ conn[task[i].ws].st = "open" /\ Stage(i) # "new"
            => hb # "none"

(* Every start() dials twice at most; every call of start() and of stop()  *)
(* makes two sessions at most necessary: one is closed, one forgotten.     *)
Dials(i) == IF pc[i] = "none" \/ (Connecting(i) /\ ~task[i].again) THEN 0
            ELSE IF pc[i] \in {"stopws", "stopsess", "returned"} THEN 2 ELSE 1
Ended(i) == CASE pc[i] = "returned" -> 2 [] pc[i] = "stopsess" -> 1 [] OTHER -> 0
StopsLeft == CASE pc[User] = "stopws" -> 2 [] pc[User] = "stopsess" -> 1 [] OTHER -> 0
SessionsDue == nsess + (IF SessionUsable THEN 0 ELSE 1) + StopsLeft
ConnectionsCounted ==
    \A i \in Starts : (\A j \in Starts : j > i => pc[j] = "none") =>
        /\ nconns <= 2 * (i - 1) + Dials(i)
        /\ SessionsDue <= 2 * stops + 2 * (i - 1) + 1 + Ended(i)

(* Both: there is a heartbeat task as long as there is a connection to     *)
(* keep alive, and none when start() has returned; with what makes it so.  *)
LifecycleInv ==
    /\ TypeOK /\ ReturnedIsQuiet /\ ConnectionHasHeartbeat
    /\ StartsInTurn /\ WebsocketsHaveReaders /\ ConnectionsCounted

(* A connection that is lost after HELLO, even silently, ends the start()  *)
(* reading it: the missed ACK closes the websocket and run() returns.      *)
LostConnectionEnds ==
    \A i \in Starts :
        (pc[i] = "read" /\ conn[task[i].ws].st # "open" /\ Stage(i) # "new" /\ stops = 0)
            ~> (pc[i] = "returned" \/ stops > 0)

(* "resilient gateway (RESUME, ...)": a server that asks for a reconnect   *)
(* gets a RESUME, unless the application stops the bot.                    *)
ReconnectResumes ==
    \A i \in Starts :
        (pc[i] = "close" /\ task[i].resume)
            ~> (stops > 0 \/ \E w \in Conns : conn[w].resumed)

(* "Stop the bot client.": after stop() the bot does not become READY,     *)
(* unless start() is called again.                                         *)
ReadyOnlyWhileRunning == [][state # "ready" /\ state' = "ready" => running]_vars

(* "Bot is already running": start() is not entered while an earlier call  *)
(* has not returned.                                                       *)
OneStart == Cardinality({i \in Starts : pc[i] \notin {"none", "returned"}}) <= 1

(* "Heartbeat ACK was not received before the next heartbeat": a websocket *)
(* is given up for that only if a heartbeat was sent on it.                *)
MissedAckWasSent ==
    [][\A w \in Conns : (HbMissed /\ w = ws /\ conn[w].st = "open") => conn[w].sent]_vars
=============================================================================
