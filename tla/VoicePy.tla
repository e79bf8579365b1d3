------------------------------- MODULE VoicePy -------------------------------
(***************************************************************************)
(* One voice connection of the Python SDK: VoiceManager and                *)
(* VoiceConnection (vaidcord-py/src/vaidcord/voice/connection.py).         *)
(*                                                                         *)
(* The application task calls VoiceManager.connect; a reader task consumes *)
(* the websocket and reconnects; every VOICE_SERVER_UPDATE of a live       *)
(* connection spawns a migration task; a further task may close.  What a   *)
(* task does between two awaits is one step, and an exception goes where   *)
(* the task's caller catches it.  Payloads that only pass values on        *)
(* (speaking, latency, DAVE, sequence numbers) are left out.               *)
(***************************************************************************)
EXTENDS Integers, Sequences, FiniteSets

CONSTANTS
    Migs,        \* migration tasks
    MaxFaults,   \* bound: closed websockets, failed dials, timeouts and
                 \* voice servers that Discord replaces
    MaxSockets   \* bound: websockets; tasks that overlap can close each
                 \* other's for ever

ASSUME VoiceAssumption ==
    MaxFaults \in Nat /\ MaxSockets \in Nat /\ Migs \cap {"app", "reader"} = {}

Tasks == {"app", "reader"} \cup Migs

(* classify_voice_close_code, for one code of each kind; 0 is None.        *)
FATAL_VOICE_CLOSE_CODES == {4014}
REJOIN_VOICE_CLOSE_CODES == {4006}
CloseCodes == {1006} \cup FATAL_VOICE_CLOSE_CODES \cup REJOIN_VOICE_CLOSE_CODES
classify_voice_close_code(code) ==
    CASE code \in FATAL_VOICE_CLOSE_CODES -> "fatal"
      [] code \in REJOIN_VOICE_CLOSE_CODES -> "rejoin"
      [] OTHER -> "resume"

VARIABLES
    pc,        \* pc[t]: the await the task is at
    on,        \* on[t]: the websocket it iterates over
    resume     \* resume[t]: it reconnects with a resume

VARIABLES      \* VoiceConnection
    ws,        \* the websockets opened so far
    cur,       \* _ws (0: None)
    server,    \* server: number of the VOICE_SERVER_UPDATE it connects to
    ready,     \* ready: the websocket it came on (0: None)
    desc,      \* session_description, likewise
    udp,       \* udp: the READY it was made for (0: None)
    sockets,   \* UDP sockets that are open
    hb,        \* a heartbeat task runs
    resumed,   \* _resumed_event
    closing,   \* _closing
    readerSet, \* _reader_task is set and not done
    closer     \* the task that runs close()

VARIABLES      \* VoiceManager and the main gateway
    entry,     \* _connections has it
    joined,    \* _states, _servers: what has arrived since the last join
    servers,   \* number of the last VOICE_SERVER_UPDATE
    event,     \* _waiters
    update,    \* update[m]: the VOICE_SERVER_UPDATE a migration is for
    owed       \* updates Discord owes for an op 4

VARIABLES
    faults,
    overlap,   \* history: two tasks worked on the connection at once
    broken     \* history: a connect or a migration ended in an exception

conn == <<ws, cur, server, ready, desc, udp, sockets, hb, resumed, closing>>
mgr == <<entry, joined, servers, update, event, owed>>
vars == <<pc, on, resume, conn, readerSet, closer, mgr, faults, overlap, broken>>

Receiving == {"ready", "desc", "resumed", "read"}
Handshake == {"stopws", "dial", "ready", "udp", "discover", "desc", "resumed"}
Working == Handshake \cup {"join", "called"}
Places == Working \cup {"off", "read", "top", "backoff", "done", "raised"}

Msgs == {"HELLO", "READY", "SESSION_DESCRIPTION", "RESUMED"}
Sent == {"identify", "resume", "select"}
Sockets == [open : BOOLEAN, code : CloseCodes \cup {0, 1000}, srv : Nat, sent : SUBSET Sent, got : SUBSET Msgs]

(* Every variable keeps its type.                                          *)
TaskTypes == pc \in [Tasks -> Places] /\ resume \in [Tasks -> BOOLEAN] /\ on \in [Tasks -> 0 .. Len(ws)]
SocketTypes ==
    /\ ws \in Seq(Sockets) /\ {cur, ready, desc, udp} \subseteq 0 .. Len(ws)
    /\ sockets \subseteq 1 .. Len(ws)
FlagTypes ==
    /\ {hb, resumed, closing, readerSet, entry, event, overlap, broken} \subseteq BOOLEAN
    /\ closer \in {"off", "leave", "reader", "ws", "closed"}
    /\ joined \subseteq {"state", "server"} /\ owed \subseteq {"state", "server"}
CountTypes ==
    /\ servers \in Nat /\ server \in 0 .. servers /\ update \in [Migs -> 0 .. servers]
    /\ faults \in 0 .. MaxFaults
TypeOK == TaskTypes /\ SocketTypes /\ FlagTypes /\ CountTypes

Init ==
    /\ pc = [t \in Tasks |-> "off"] /\ on = [t \in Tasks |-> 0] /\ resume = [t \in Tasks |-> FALSE]
    /\ ws = <<>> /\ cur = 0 /\ server = 0 /\ ready = 0 /\ desc = 0 /\ udp = 0 /\ sockets = {}
    /\ hb = FALSE /\ resumed = FALSE /\ closing = FALSE /\ readerSet = FALSE /\ closer = "off"
    /\ entry = FALSE /\ joined = {} /\ servers = 0 /\ event = FALSE /\ owed = {}
    /\ update = [m \in Migs |-> 0]
    /\ faults = 0 /\ overlap = FALSE /\ broken = FALSE

Fault == faults < MaxFaults /\ faults' = faults + 1
Open(w) == w # 0 /\ ws[w].open
is_connected == Open(cur) /\ ~closing

(* Somebody other than t is at work on the connection.                     *)
Others(t) == \E u \in Tasks \ {t} : pc[u] \in Working \cup {"backoff"}

Goto(t, p) == pc' = [pc EXCEPT ![t] = p]

(* aiohttp refuses a second task that receives from a websocket.           *)
Busy(t, w) == \E u \in Tasks \ {t} : pc[u] \in Receiving /\ on[u] = w

-----------------------------------------------------------------------------
(* How a task leaves the handshake.                                        *)

(* _start_reader, also when a reader runs already.                         *)
_start_reader(t, p) ==
    /\ pc' = [pc EXCEPT ![t] = p, !["reader"] = IF readerSet THEN @ ELSE "top"]
    /\ readerSet' = TRUE

Finish(t) ==
    \/ t = "reader" /\ Goto(t, "top") /\ UNCHANGED readerSet
    \/ t # "reader" /\ _start_reader(t, "done")

(* VoiceManager.connect forgets the connection and raises; the exception   *)
(* of a migration ends its task; the reader turns a failed resume into an  *)
(* identify and backs off after a failed identify or join.                 *)
Raises(t) ==
    /\ \/ /\ t = "reader"
          /\ \/ resume[t] /\ Goto(t, "stopws") /\ resume' = [resume EXCEPT ![t] = FALSE]
             \/ ~resume[t] /\ Goto(t, "backoff") /\ UNCHANGED resume
          /\ UNCHANGED <<entry, broken>>
       \/ /\ t # "reader" /\ Goto(t, "raised") /\ broken' = TRUE
          /\ entry' = (entry /\ t # "app")
          /\ UNCHANGED resume

UnchangedRaising == UNCHANGED <<conn, readerSet, closer, joined, servers, update, event, owed, overlap>>

(* A timeout, a refused dial, UDP without an answer, op 4 not sent.        *)
Fails(t) ==
    /\ pc[t] \in {"join", "dial", "ready", "udp", "discover", "desc", "resumed"} /\ Fault
    /\ Raises(t) /\ UNCHANGED on /\ UnchangedRaising

(* _receive_until: the websocket closed before the handshake finished.     *)
ClosedInHandshake(t) ==
    /\ pc[t] \in Receiving \ {"read"} /\ ~Open(on[t])
    /\ Raises(t) /\ UNCHANGED <<on, faults>> /\ UnchangedRaising

(* Waiting on the websocket begins, if it is not someone else's.           *)
ReceivesFrom(t, w, p) ==
    \/ Busy(t, w) /\ Raises(t) /\ UNCHANGED on
    \/ ~Busy(t, w) /\ Goto(t, p) /\ on' = [on EXCEPT ![t] = w] /\ UNCHANGED <<resume, entry, broken>>

-----------------------------------------------------------------------------
(* VoiceManager.request_join and connect.                                  *)

Joins(t, p) ==
    /\ Goto(t, p)
    /\ joined' = {} /\ event' = FALSE /\ owed' = {"state", "server"}

Connect ==
    /\ pc["app"] = "off" /\ Joins("app", "join")
    /\ UNCHANGED <<on, resume, conn, readerSet, closer, entry, servers, update, faults, overlap, broken>>

udp_close == udp' = 0 /\ sockets' = sockets \ {udp}

(* The loop of request_join: woken, it clears the event and looks again.   *)
(* connect() then stores the connection; _rejoin takes the new server and  *)
(* closes the UDP client.                                                  *)
request_join(t) ==
    /\ pc[t] = "join" /\ event /\ event' = FALSE
    /\ \/ /\ joined # {"state", "server"}
          /\ UNCHANGED <<pc, server, udp, sockets, closing, entry, resume>>
       \/ /\ joined = {"state", "server"} /\ server' = servers
          /\ Goto(t, IF t = "app" THEN "dial" ELSE "stopws")
          /\ resume' = [resume EXCEPT ![t] = FALSE]
          /\ \/ t = "app" /\ entry' = TRUE /\ closing' = FALSE /\ UNCHANGED <<udp, sockets>>
             \/ t = "reader" /\ udp_close /\ UNCHANGED <<entry, closing>>
    /\ UNCHANGED <<on, ws, cur, ready, desc, hb, resumed, readerSet, closer, joined,
                   servers, update, owed, faults, overlap, broken>>

(* handle_gateway_event.  An update of a live connection, whoever it was   *)
(* for, spawns migrate_to.                                                 *)
VoiceStateUpdateSilent ==
    /\ "state" \in owed /\ owed' = owed \ {"state"}
    /\ joined' = joined \cup {"state"}
    /\ UNCHANGED <<pc, on, resume, conn, readerSet, closer, entry, event, servers, update, faults, overlap, broken>>
VoiceStateUpdate ==
    /\ "state" \in owed /\ owed' = owed \ {"state"}
    /\ joined' = joined \cup {"state"} /\ event' = TRUE
    /\ UNCHANGED <<pc, on, resume, conn, readerSet, closer, entry, servers, update, faults, overlap, broken>>

VoiceServerUpdate ==
    /\ \/ "server" \in owed /\ UNCHANGED faults
       \/ "server" \notin owed /\ entry /\ closer = "off" /\ Fault
    /\ owed' = owed \ {"server"}
    /\ servers' = servers + 1
    /\ joined' = joined \cup {"server"} /\ event' = TRUE
    /\ \/ ~(entry /\ is_connected) /\ UNCHANGED <<pc, update>>
       \/ /\ entry /\ is_connected
          /\ \E m \in Migs : /\ pc[m] = "off" /\ Goto(m, "called")
                            /\ update' = [update EXCEPT ![m] = servers + 1]
    /\ UNCHANGED <<on, resume, conn, readerSet, closer, entry, overlap, broken>>

-----------------------------------------------------------------------------
(* migrate_to and reconnect.                                               *)

(* _stop_reader cancels the reader at its await.                           *)
_stop_readerKeeps(t, p) == Goto(t, p) /\ readerSet' = FALSE
_stop_reader(t, p) ==
    /\ pc' = [pc EXCEPT ![t] = p, !["reader"] = IF readerSet THEN "off" ELSE @]
    /\ readerSet' = FALSE

migrate_to(m) ==
    /\ pc[m] = "called" /\ server' = update[m]
    /\ udp_close /\ _stop_reader(m, "stopws")
    /\ overlap' = (overlap \/ (\E u \in Tasks \ {m, "reader"} : pc[u] \in Working)
                           \/ closer \notin {"off", "closed"})
    /\ UNCHANGED <<on, resume, ws, cur, ready, desc, hb, resumed, closing, closer, mgr, faults, broken>>

(* reconnect and _reconnect_transport close a websocket that is open.      *)
Shut(s, code) == [open |-> FALSE, code |-> code, srv |-> s.srv, sent |-> s.sent, got |-> s.got]
Closed(w) == [ws EXCEPT ![w] = Shut(@, 1000)]
StopsWs(t) ==
    /\ pc[t] = "stopws" /\ Goto(t, "dial")
    /\ ws' = IF Open(cur) THEN Closed(cur) ELSE ws
    /\ UNCHANGED <<on, resume, cur, server, ready, desc, udp, sockets, hb, resumed, closing, readerSet, closer,
                   mgr, faults, overlap, broken>>

(* The dial is done.  A resume clears the event and waits for nothing when *)
(* the last READY is still there; an identify forgets the last session.    *)
Dialled(t, sent) ==
    /\ ws' = Append(ws, [open |-> TRUE, code |-> 0, srv |-> server, sent |-> {sent}, got |-> {}])
    /\ cur' = Len(ws) + 1
IdentifiesKeepingKey(t) ==
    /\ ~resume[t] /\ Dialled(t, "identify")
    /\ ready' = 0 /\ UNCHANGED <<desc, resumed, readerSet>>
    /\ Goto(t, "ready") /\ on' = [on EXCEPT ![t] = Len(ws) + 1]
Identifies(t) ==
    /\ ~resume[t] /\ Dialled(t, "identify")
    /\ ready' = 0 /\ desc' = 0 /\ UNCHANGED <<resumed, readerSet>>
    /\ Goto(t, "ready") /\ on' = [on EXCEPT ![t] = Len(ws) + 1]
Resumes(t) ==
    /\ resume[t] /\ Dialled(t, "resume")
    /\ resumed' = FALSE /\ UNCHANGED <<ready, desc>>
    /\ \/ ready # 0 /\ Finish(t) /\ UNCHANGED on
       \/ ready = 0 /\ Goto(t, "resumed") /\ on' = [on EXCEPT ![t] = Len(ws) + 1] /\ UNCHANGED readerSet

Dial(t) ==
    /\ pc[t] = "dial" /\ Len(ws) < MaxSockets /\ (Identifies(t) \/ Resumes(t))
    /\ overlap' = (overlap \/ Others(t) \/ closer # "off")
    /\ UNCHANGED <<resume, server, udp, sockets, hb, closing, closer, mgr, faults, broken>>

-----------------------------------------------------------------------------
(* The voice server (external) and the payloads it sends.                  *)

Available(w) ==
    {m \in Msgs \ ws[w].got :
        \/ m = "HELLO"
        \/ m = "READY" /\ "HELLO" \in ws[w].got /\ "identify" \in ws[w].sent
        \/ m = "SESSION_DESCRIPTION" /\ {"READY"} \subseteq ws[w].got /\ "select" \in ws[w].sent
        \/ m = "RESUMED" /\ "HELLO" \in ws[w].got /\ "resume" \in ws[w].sent}

WsCloses(code) ==
    /\ Open(cur) /\ Fault
    /\ ws' = [ws EXCEPT ![cur] = Shut(@, code)]
    /\ UNCHANGED <<pc, on, resume, cur, server, ready, desc, udp, sockets, hb, resumed, closing, readerSet, closer,
                   mgr, overlap, broken>>

(* _handle_ws_payload; READY replaces the UDP client without closing it.   *)
_handle_ws_payload(m, w) ==
    /\ hb' = (hb \/ m = "HELLO")
    /\ ready' = IF m = "READY" THEN w ELSE ready
    /\ udp' = IF m = "READY" THEN w ELSE udp
    /\ desc' = IF m = "SESSION_DESCRIPTION" THEN w ELSE desc
    /\ resumed' = (resumed \/ m = "RESUMED")

(* The waiting task goes on when what it waits for is there.               *)
Receive(t) ==
    /\ pc[t] \in Receiving /\ Open(on[t])
    /\ \E m \in Available(on[t]) :
         /\ _handle_ws_payload(m, on[t])
         /\ ws' = [ws EXCEPT ![on[t]].got = @ \cup {m}]
         /\ \/ pc[t] = "ready" /\ ready' # 0 /\ Goto(t, "udp") /\ UNCHANGED readerSet
            \/ pc[t] = "desc" /\ desc' # 0 /\ Finish(t)
            \/ pc[t] = "resumed" /\ (resumed' \/ ready' # 0) /\ Finish(t)
            \/ /\ \/ pc[t] = "ready" /\ ready' = 0
                  \/ pc[t] = "desc" /\ desc' = 0
                  \/ pc[t] = "resumed" /\ ~resumed' /\ ready' = 0
                  \/ pc[t] = "read"
               /\ UNCHANGED <<pc, readerSet>>
    /\ UNCHANGED <<on, resume, cur, server, sockets, closing, closer, mgr, faults, overlap, broken>>

(* _establish_udp_transport: connect, then discover_ip and                 *)
(* select_protocol; each await reads the connection again.                 *)
UdpConnects(t) ==
    /\ pc[t] = "udp"
    /\ \/ ready = 0 /\ Raises(t) /\ UNCHANGED <<udp, sockets>>
       \/ /\ ready # 0 /\ udp' = (IF udp = 0 THEN ready ELSE udp)
          /\ sockets' = sockets \cup {udp'}
          /\ Goto(t, "discover") /\ UNCHANGED <<resume, entry, broken>>
    /\ UNCHANGED <<on, ws, cur, server, ready, desc, hb, resumed, closing, readerSet, closer, joined, servers, update, event, owed, faults, overlap>>

SelectsProtocol(t) ==
    /\ pc[t] = "discover"
    /\ \/ /\ udp = 0 \/ ready = 0 \/ ~Open(cur)
          /\ Raises(t) /\ UNCHANGED <<on, ws, sockets, readerSet>>
       \/ /\ udp # 0 /\ ready # 0 /\ Open(cur)
          /\ ws' = [ws EXCEPT ![cur].sent = @ \cup {"select"}]
          /\ sockets' = sockets \cup {udp}
          /\ \/ desc # 0 /\ Finish(t) /\ UNCHANGED <<on, resume, entry, broken>>
             \/ desc = 0 /\ ReceivesFrom(t, cur, "desc") /\ UNCHANGED readerSet
    /\ UNCHANGED <<cur, server, ready, desc, udp, hb, resumed, closing, closer, joined, servers, update,
                   event, owed, faults, overlap>>

-----------------------------------------------------------------------------
(* _read_loop.                                                             *)

(* The top of the loop.  A websocket another task receives from raises,    *)
(* which is handled like a close without a code.                           *)
ReaderLoops ==
    /\ pc["reader"] = "top"
    /\ \/ closing /\ Goto("reader", "off") /\ readerSet' = FALSE /\ UNCHANGED <<on, resume>>
       \/ /\ ~closing /\ ~Busy("reader", cur) /\ Goto("reader", "read")
          /\ on' = [on EXCEPT !["reader"] = cur] /\ UNCHANGED <<readerSet, resume>>
       \/ /\ ~closing /\ Busy("reader", cur) /\ Goto("reader", "stopws")
          /\ resume' = [resume EXCEPT !["reader"] = TRUE] /\ UNCHANGED <<on, readerSet>>
    /\ UNCHANGED <<conn, closer, mgr, faults, overlap, broken>>

(* The websocket has ended: return, give up, rejoin or reconnect.          *)
ReaderSeesClose ==
    /\ pc["reader"] = "read" /\ ~Open(on["reader"])
    /\ LET action == classify_voice_close_code(ws[on["reader"]].code) IN
         \/ /\ closing \/ action = "fatal"
            /\ closing' = TRUE /\ Goto("reader", "off") /\ readerSet' = FALSE
            /\ UNCHANGED <<resume, joined, event, owed>>
         \/ /\ ~closing /\ action = "rejoin" /\ Joins("reader", "join")
            /\ resume' = [resume EXCEPT !["reader"] = FALSE] /\ UNCHANGED <<closing, readerSet>>
         \/ /\ ~closing /\ action = "resume" /\ Goto("reader", "stopws")
            /\ resume' = [resume EXCEPT !["reader"] = TRUE] /\ UNCHANGED <<closing, readerSet, joined, event, owed>>
    /\ UNCHANGED <<on, ws, cur, server, ready, desc, udp, sockets, hb, resumed, closer, entry,
                   servers, update, faults, overlap, broken>>

BackoffEnds ==
    /\ pc["reader"] = "backoff" /\ Goto("reader", "top")
    /\ UNCHANGED <<on, resume, conn, readerSet, closer, mgr, faults, overlap, broken>>

(* _heartbeat_loop ends when its websocket is closed.                      *)
HeartbeatEnds ==
    /\ hb /\ ~Open(cur) /\ hb' = FALSE
    /\ UNCHANGED <<pc, on, resume, ws, cur, server, ready, desc, udp, sockets, resumed, closing, readerSet, closer,
                   mgr, faults, overlap, broken>>

-----------------------------------------------------------------------------
(* disconnect and close, from a task of the application.                   *)

Disconnect ==
    /\ closer = "off" /\ entry /\ closer' = "leave" /\ entry' = FALSE
    /\ UNCHANGED <<pc, on, resume, conn, readerSet, joined, servers, update, event, owed, faults, overlap, broken>>

(* close(): the reader is cancelled and waited for, then the heartbeat,    *)
(* UDP and the websocket go.                                               *)
CloseStarts ==
    /\ closer = "leave" \/ (closer = "off" /\ entry)
    /\ closer' = "reader" /\ closing' = TRUE
    /\ _stop_reader("reader", "off")
    /\ overlap' = (overlap \/ \E u \in Tasks \ {"reader"} : pc[u] \in Working)
    /\ UNCHANGED <<on, resume, ws, cur, server, ready, desc, udp, sockets, hb, resumed, mgr, faults, broken>>

CloseReleasesKeepsHeartbeat ==
    /\ closer = "reader" /\ closer' = "ws" /\ udp_close
    /\ UNCHANGED <<pc, on, resume, ws, cur, server, ready, desc, hb, resumed, closing, readerSet, mgr, faults, overlap, broken>>
CloseReleases ==
    /\ closer = "reader" /\ closer' = "ws"
    /\ hb' = FALSE /\ udp_close
    /\ UNCHANGED <<pc, on, resume, ws, cur, server, ready, desc, resumed, closing, readerSet, mgr, faults, overlap, broken>>

CloseEnds ==
    /\ closer = "ws" /\ closer' = "closed"
    /\ ws' = IF Open(cur) THEN Closed(cur) ELSE ws
    /\ UNCHANGED <<pc, on, resume, cur, server, ready, desc, udp, sockets, hb, resumed, closing, readerSet, mgr, faults, overlap, broken>>

-----------------------------------------------------------------------------
TaskStep(t) ==
    \/ t \in {"app", "reader"} /\ request_join(t)
    \/ t \in Migs /\ migrate_to(t)
    \/ StopsWs(t) \/ Dial(t) \/ ClosedInHandshake(t) \/ Receive(t) \/ UdpConnects(t) \/ SelectsProtocol(t)
    \/ t = "reader" /\ (ReaderLoops \/ ReaderSeesClose \/ BackoffEnds)

Gateway == VoiceStateUpdate \/ ("server" \in owed /\ VoiceServerUpdate)
Close == CloseReleases \/ CloseEnds

Next ==
    \/ Connect \/ Disconnect \/ CloseStarts \/ Close
    \/ \E t \in Tasks : TaskStep(t) \/ Fails(t)
    \/ VoiceStateUpdate \/ VoiceServerUpdate
    \/ \E c \in CloseCodes : WsCloses(c)
    \/ HeartbeatEnds

Spec == Init /\ [][Next]_vars

(* The event loop runs what is ready, and both servers answer.             *)
FairSpec ==
    /\ Spec
    /\ \A t \in Tasks : WF_vars(TaskStep(t))
    /\ WF_vars(Gateway) /\ WF_vars(Close) /\ WF_vars(HeartbeatEnds)

-----------------------------------------------------------------------------
(* Properties.                                                             *)

Driving == Working \cup {"read", "top", "backoff"}
Drivers == {t \in Tasks : pc[t] \in Driving}

(* No two tasks work on the connection at once (a handshake of one would   *)
(* receive the other's answers), unless an update or a close came in the   *)
(* middle of a handshake that is not the reader's.                         *)
OneDriver == ~overlap => Cardinality(Drivers \ {m \in Migs : pc[m] = "called"}) <= 1

(* And somebody always does: a connection that was made and not closed is  *)
(* read, or about to be, unless a connect or migration failed.             *)
SomeoneDrives == cur # 0 /\ ~closing /\ ~overlap /\ ~broken => Drivers # {}

(* The inductive form: where the tasks can be, and that one at most is at  *)
(* work.                                                                   *)
Active(t) == pc[t] \in Driving \ {"called"}
BeforeConnect == pc["app"] = "off" => /\ \A t \in Tasks : pc[t] = "off"
                                      /\ cur = 0 /\ ~entry /\ closer = "off" /\ owed = {}
OneActive == ~overlap => \A t, u \in Tasks : Active(t) /\ Active(u) => t = u
ReaderAlone ==
    /\ pc["reader"] \notin {"called", "done", "raised"} /\ (readerSet <=> pc["reader"] # "off")
    /\ \A t \in Tasks \ {"reader"} : pc[t] \notin {"read", "top", "backoff"}
    /\ pc["app"] # "called"
DriverInv == BeforeConnect /\ OneActive /\ ReaderAlone

(* Both: the reader, a reconnect or a migration, and never two of them.    *)
DrivenByOne == TypeOK /\ OneDriver /\ SomeoneDrives /\ DriverInv

(* A connection at rest encrypts with the key of the session its UDP       *)
(* socket and SSRC belong to, after any sequence of resumes, fresh         *)
(* identifies, rejoins and migrations.                                     *)
OneSession == desc # 0 => desc = ready /\ desc = udp /\ udp \in sockets
AtRest == is_connected /\ ~overlap /\ ~broken /\ Drivers = {"reader"} /\ pc["reader"] = "read"

(* The inductive form.  A task is on the connection's websocket; what the  *)
(* handshake has reached; when a resume is tried; and what may be wrong    *)
(* with the session while a rejoin or a migration replaces it.             *)
Lost == cur # 0 /\ ~ws[cur].open /\ ws[cur].code \in REJOIN_VOICE_CLOSE_CODES
OnCurrent ==
    /\ \A t \in Tasks : pc[t] \in Receiving => on[t] = cur
    /\ \A t \in Tasks : pc[t] \in Receiving \cup {"udp", "discover"} => cur # 0
    /\ pc["reader"] # "off" => cur # 0
Stages ==
    \A t \in Tasks :
        /\ pc[t] \in {"ready", "udp", "discover", "desc"} => "identify" \in ws[cur].sent
        /\ pc[t] = "ready" => "READY" \notin ws[cur].got
        /\ pc[t] \in {"udp", "discover", "desc"} => ready = cur /\ udp = cur
Renewals ==
    /\ \A t \in Tasks \ {"reader"} : ~resume[t]
    /\ pc["reader"] \in {"stopws", "dial"} /\ resume["reader"] => ~Open(cur) /\ ~Lost
    /\ pc["reader"] = "join" => Lost
Fresh ==
    cur # 0 /\ "identify" \in ws[cur].sent /\ "READY" \notin ws[cur].got => ready = 0 /\ desc = 0
Whole ==
    /\ OneSession
    /\ cur # 0 /\ "select" \in ws[cur].sent => ready = cur /\ udp = cur /\ udp \in sockets
Replaced == ~broken => Whole \/ Lost \/ (\E m \in Migs : pc[m] \in {"stopws", "dial"}) \/ closer \in {"ws", "closed"}
SessionInv == ~overlap => OnCurrent /\ Stages /\ Renewals /\ Fresh /\ Replaced

MediaOfOneSession == (AtRest => OneSession) /\ SessionInv

(* After close() nothing of the connection runs, unless it overtook a      *)
(* connect or a migration, which then finish on their own.                 *)
QuietInv ==
    ~overlap => /\ closer \in {"reader", "ws", "closed"} => Drivers = {} /\ closing
                /\ closer \in {"ws", "closed"} => ~hb /\ udp = 0
                /\ closer = "closed" => ~Open(cur)
ClosedIsQuiet ==
    /\ closer = "closed" /\ ~overlap => ~hb /\ ~Open(cur) /\ udp = 0 /\ Drivers = {}
    /\ QuietInv

(* A connection that is lost while it is read is read again or given up.   *)
LostIsRecovered ==
    (pc["reader"] = "read" /\ ~Open(cur)) ~>
        (closing \/ broken \/ overlap \/ (pc["reader"] = "read" /\ Open(on["reader"])))

(* "Close codes after which reconnecting is pointless or forbidden."       *)
FatalIsFinal ==
    [][pc["reader"] = "dial" /\ Len(ws') > Len(ws)
         => ws[cur].code \notin FATAL_VOICE_CLOSE_CODES]_vars

(* "reconnect the live session to the new endpoint": with no failure in    *)
(* between, the connection is on the voice server announced last.          *)
OnAnnouncedServer ==
    AtRest => ws[cur].srv = servers
=============================================================================
