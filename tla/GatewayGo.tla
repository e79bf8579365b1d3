----------------------------- MODULE GatewayGo -----------------------------
(***************************************************************************)
(* The gateway client of the Go SDK (vaidcord-go/gateway.go): Gateway.Run, *)
(* the connect - handshake - read cycle runOnce, and the heartbeatLoop     *)
(* goroutine of every connection, against a Discord gateway that may drop, *)
(* close, mute or invalidate at any moment.                                *)
(*                                                                         *)
(* Abstractions.  A connection is identified by its number gen; a session  *)
(* by the number of the connection that identified.  Dispatches in flight  *)
(* are those numbered wireNext..srvSeq[connSid]; the control frame slot    *)
(* ctl is unordered with respect to them, which allows every order the     *)
(* server can write them in.  Time is not measured: a tick of the          *)
(* heartbeat timer is a step of its own.  A healthy connection whose ACK   *)
(* is slower than the interval, a select that passes over a context        *)
(* already done, and an op 1 out of turn count among the MaxFaults faults. *)
(***************************************************************************)
EXTENDS Naturals, Sequences

CONSTANTS
    MaxConns,      \* bound: websockets dialled (a fault costs at most two)
    MaxSeq,        \* bound: events per session
    MaxFaults,     \* bound: faults of network, server and timing
    MaxBeats,      \* bound: heartbeats in flight when the server asks for one
    ReadyKinds,    \* READY with a resume URL ("full"), without one ("nourl"),
                   \* or with data json.Unmarshal rejects ("bad")
    HelloMayHang,  \* TRUE: a peer may accept the websocket and never say HELLO
    MayCancel      \* TRUE: the caller of Run may cancel ctx

ASSUME ConstantsAssumption ==
    /\ MaxConns \in Nat \ {0}
    /\ MaxSeq \in Nat \ {0}
    /\ MaxFaults \in Nat
    /\ MaxBeats \in Nat
    /\ ReadyKinds \subseteq {"full", "nourl", "bad"}
    /\ HelloMayHang \in BOOLEAN
    /\ MayCancel \in BOOLEAN

Conns == 1 .. MaxConns

(* Sessions are numbered by the connection that identified; 0 is "".       *)
NoSession == 0

VARIABLES
    pc,           \* where Run is: dial, hello, read, backoff, stopped
    resume,       \* Run's local: the next handshake is RESUME
    sessionID,    \* Gateway.sessionID
    resumeURL,    \* Gateway.resumeGatewayURL # ""
    seq,          \* Gateway.seq
    closeReason,  \* Gateway.closeReason # nil (always ErrMissedHeartbeatACK)
    cancelled,    \* ctx is cancelled
    gen,          \* number of the connection dialled last
    localClosed,  \* conn.Close() was called on it by a goroutine of ours
    hb            \* hb[g]: the heartbeatLoop goroutine of connection g

VARIABLES
    hs,           \* IDENTIFY or RESUME on its way to the server
    connSid,      \* the session the server attached the connection to
    wireNext,     \* number of the next dispatch on the wire
    ctl,          \* control frame (or close) on its way to the client
    muted,        \* half-open connection: nothing arrives any more
    beats, acks   \* heartbeats on their way out, ACKs on their way in

VARIABLES
    srvSeq,       \* srvSeq[s]: events numbered in session s (0: no session)
    alive,        \* alive[s]: session s can be resumed
    ready,        \* ready[s]: what READY of session s looked like
    faults        \* faults so far

VARIABLE log      \* history: log[s] is what onDispatch was given of session s

clientVars == <<pc, resume, sessionID, resumeURL, seq>>
wireVars   == <<hs, connSid, wireNext, ctl, muted, beats, acks>>
serverVars == <<srvSeq, alive, ready>>
vars == <<pc, resume, sessionID, resumeURL, seq, closeReason, cancelled, gen,
          localClosed, hb, hs, connSid, wireNext, ctl, muted, beats, acks,
          srvSeq, alive, ready, faults, log>>

Codes == {"fatal", "reidentify", "resume"}   \* GatewayCloseAction
Closes == Codes \cup {"drop"}                \* "drop": no close frame at all
Controls == {"none", "hello", "op1", "op7", "op9true", "op9false"} \cup Closes

NoHandshake == [kind |-> "none", sid |-> NoSession, seq |-> 0]

(* heartbeatLoop's locals, its two channels (capacity 1) and its context.  *)
(* asked: the last heartbeat was sent because of an op 1 (history).        *)
HeartbeatStates ==
    [pc : {"none", "select", "send", "force", "closing", "done"}, awaiting : BOOLEAN,
     ack : BOOLEAN, beat : BOOLEAN, asked : BOOLEAN, cancelled : BOOLEAN]

Idle == [pc |-> "none", awaiting |-> FALSE, ack |-> FALSE, beat |-> FALSE,
         asked |-> FALSE, cancelled |-> FALSE]

(* The goroutine returned: its locals are gone.                            *)
Ended(h) == [Idle EXCEPT !.pc = "done", !.cancelled = h.cancelled]

Handshakes ==
    [kind : {"none", "identify", "resume"}, sid : 0 .. MaxConns, seq : 0 .. MaxSeq]

ClientTypes ==
    /\ pc \in {"dial", "hello", "read", "backoff", "stopped"}
    /\ resume \in BOOLEAN
    /\ sessionID \in 0 .. MaxConns
    /\ resumeURL \in BOOLEAN
    /\ seq \in 0 .. MaxSeq
    /\ closeReason \in BOOLEAN
    /\ cancelled \in BOOLEAN
    /\ gen \in 0 .. MaxConns
    /\ localClosed \in BOOLEAN

WireTypes ==
    /\ hs \in Handshakes
    /\ connSid \in 0 .. MaxConns
    /\ wireNext \in 1 .. MaxSeq + 1
    /\ ctl \in Controls
    /\ muted \in BOOLEAN
    /\ beats \in Nat
    /\ acks \in Nat

ServerTypes ==
    /\ srvSeq \in [Conns -> 0 .. MaxSeq]
    /\ alive \in [Conns -> BOOLEAN]
    /\ ready \in [Conns -> {"full", "nourl", "bad"}]
    /\ faults \in 0 .. MaxFaults

(* Every variable keeps its type; a live connection has a number.          *)
TypeOK ==
    /\ ClientTypes /\ WireTypes /\ ServerTypes
    /\ hb \in [Conns -> HeartbeatStates]
    /\ log \in [Conns -> Seq(1 .. MaxSeq)]
    /\ pc \in {"hello", "read"} => gen \in Conns

Init ==
    /\ pc = "dial" /\ resume = FALSE
    /\ sessionID = NoSession /\ resumeURL = FALSE /\ seq = 0
    /\ closeReason = FALSE /\ cancelled = FALSE
    /\ gen = 0 /\ localClosed = FALSE
    /\ hb = [g \in Conns |-> Idle]
    /\ hs = NoHandshake /\ connSid = NoSession /\ wireNext = 1
    /\ ctl = "none" /\ muted = FALSE /\ beats = 0 /\ acks = 0
    /\ srvSeq = [s \in Conns |-> 0]
    /\ alive = [s \in Conns |-> FALSE]
    /\ ready = [s \in Conns |-> "full"]
    /\ faults = 0
    /\ log = [s \in Conns |-> <<>>]

Connected == pc \in {"hello", "read"}   \* g.conn # nil

Fault == faults < MaxFaults /\ faults' = faults + 1

-----------------------------------------------------------------------------
(* The end of a connection, as Run sees it.                                *)

canResume == sessionID # NoSession /\ resumeURL

clearSession ==
    /\ sessionID' = NoSession
    /\ resumeURL' = FALSE
    /\ seq' = 0

(* runOnce's deferred calls on the connection itself: it is closed, and    *)
(* what was still on the wire is lost.                                     *)
DropWire ==
    /\ hs' = NoHandshake /\ connSid' = NoSession /\ wireNext' = 1
    /\ ctl' = "none" /\ muted' = FALSE /\ beats' = 0 /\ acks' = 0
    /\ localClosed' = FALSE

StopHeartbeatMissing == UNCHANGED hb
stopHeartbeat == hb' = [g \in Conns |-> IF g = gen THEN [hb[g] EXCEPT !.cancelled = TRUE]
                                                   ELSE hb[g]]

(* Run after runOnce returned an error classified as `action`.             *)
RunDecides(action) ==
    \/ /\ cancelled \/ action = "fatal"
       /\ pc' = "stopped"
       /\ UNCHANGED <<resume, sessionID, resumeURL, seq>>
    \/ /\ ~cancelled /\ action = "reidentify"
       /\ pc' = "backoff"
       /\ clearSession
       /\ resume' = FALSE
    \/ /\ ~cancelled /\ action = "resume"
       /\ pc' = "backoff"
       /\ resume' = canResume
       /\ UNCHANGED <<sessionID, resumeURL, seq>>

runOnceReturns(action) ==
    /\ DropWire
    /\ stopHeartbeat
    /\ RunDecides(action)
    /\ UNCHANGED <<cancelled, gen, serverVars, log>>

-----------------------------------------------------------------------------
(* Run and runOnce.                                                        *)

DialOK ==
    /\ pc = "dial" /\ ~cancelled /\ gen < MaxConns
    /\ gen' = gen + 1
    /\ pc' = "hello"
    /\ closeReason' = FALSE
    /\ UNCHANGED <<resume, sessionID, resumeURL, seq, cancelled, localClosed,
                   hb, wireVars, serverVars, faults, log>>

(* GET /gateway/bot or the websocket dial fails.                           *)
DialFails ==
    /\ pc = "dial" /\ ~cancelled /\ Fault
    /\ runOnceReturns("resume")
    /\ UNCHANGED closeReason

(* Both take ctx and fail when it is cancelled.                            *)
DialCancelled ==
    /\ pc = "dial" /\ cancelled
    /\ runOnceReturns("resume")
    /\ UNCHANGED <<closeReason, faults>>

sendResume == [kind |-> "resume", sid |-> sessionID, seq |-> seq]
sendIdentify == [kind |-> "identify", sid |-> NoSession, seq |-> 0]

(* HELLO arrives: IDENTIFY or RESUME goes out, the heartbeat loop starts.  *)
ReadHello ==
    /\ pc = "hello" /\ ctl = "hello"
    /\ pc' = "read"
    /\ ctl' = "none"
    /\ hs' = IF resume THEN sendResume ELSE sendIdentify
    /\ hb' = [hb EXCEPT ![gen] = [Idle EXCEPT !.pc = "select"]]
    /\ UNCHANGED <<resume, sessionID, resumeURL, seq, closeReason, cancelled, gen,
                   localClosed, connSid, wireNext, muted, beats, acks,
                   serverVars, faults, log>>

(* A close before HELLO is returned as it is, without a GatewayClosedError *)
(* around it, so Run never looks at its code.                              *)
HelloFails ==
    /\ pc = "hello" /\ ctl \in Closes
    /\ runOnceReturns("resume")
    /\ UNCHANGED <<closeReason, faults>>

(* READY stores the session; every dispatch is handed to onDispatch.       *)
ReadDispatchKeepsSeq ==
    /\ pc = "read" /\ ~muted
    /\ connSid # NoSession /\ wireNext <= srvSeq[connSid]
    /\ seq' = IF wireNext = 1 THEN 1 ELSE seq
    /\ IF wireNext = 1 /\ ready[connSid] # "bad"
       THEN sessionID' = connSid /\ resumeURL' = (ready[connSid] = "full")
       ELSE UNCHANGED <<sessionID, resumeURL>>
    /\ log' = [log EXCEPT ![connSid] = Append(@, wireNext)]
    /\ wireNext' = wireNext + 1
    /\ UNCHANGED <<pc, resume, closeReason, cancelled, gen, localClosed, hb,
                   hs, connSid, ctl, muted, beats, acks, serverVars, faults>>

ReadDispatch ==
    /\ pc = "read" /\ ~muted
    /\ connSid # NoSession /\ wireNext <= srvSeq[connSid]
    /\ seq' = wireNext
    /\ IF wireNext = 1 /\ ready[connSid] # "bad"
       THEN sessionID' = connSid /\ resumeURL' = (ready[connSid] = "full")
       ELSE UNCHANGED <<sessionID, resumeURL>>
    /\ log' = [log EXCEPT ![connSid] = Append(@, wireNext)]
    /\ wireNext' = wireNext + 1
    /\ UNCHANGED <<pc, resume, closeReason, cancelled, gen, localClosed, hb,
                   hs, connSid, ctl, muted, beats, acks, serverVars, faults>>

(* Op 1: beatC <- struct{}{}, or nothing when a request is pending.        *)
ReadHeartbeatRequest ==
    /\ pc = "read" /\ ~muted /\ ctl = "op1"
    /\ hb' = [hb EXCEPT ![gen].beat = (hb[gen].pc # "done")]
    /\ ctl' = "none"
    /\ UNCHANGED <<clientVars, closeReason, cancelled, gen, localClosed,
                   hs, connSid, wireNext, muted, beats, acks, serverVars, faults, log>>

(* Op 11: ackC <- struct{}{}, or nothing when one is pending.              *)
ReadAck ==
    /\ pc = "read" /\ ~muted /\ acks > 0
    /\ acks' = acks - 1
    /\ hb' = [hb EXCEPT ![gen].ack = (hb[gen].pc # "done")]
    /\ UNCHANGED <<clientVars, closeReason, cancelled, gen, localClosed,
                   hs, connSid, wireNext, ctl, muted, beats, serverVars, faults, log>>

ReadReconnect ==
    /\ pc = "read" /\ ~muted /\ ctl = "op7"
    /\ runOnceReturns("resume")
    /\ UNCHANGED <<closeReason, faults>>

InvalidSessionAlwaysClears == "reidentify"
InvalidSessionAction == IF ctl = "op9true" THEN "resume" ELSE "reidentify"

ReadInvalidSession ==
    /\ pc = "read" /\ ~muted /\ ctl \in {"op9true", "op9false"}
    /\ runOnceReturns(InvalidSessionAction)
    /\ UNCHANGED <<closeReason, faults>>

(* ReadMessage fails: ctx first, then closeReason, then the close code.    *)
ReadError ==
    /\ pc = "read"
    /\ localClosed \/ ctl \in Closes
    /\ IF cancelled
       THEN runOnceReturns("resume") /\ UNCHANGED closeReason
       ELSE /\ closeReason' = FALSE
            /\ \/ closeReason /\ runOnceReturns("resume")
               \/ ~closeReason /\ ctl \in Codes /\ runOnceReturns(ctl)
               \/ ~closeReason /\ (localClosed \/ ctl = "drop") /\ runOnceReturns("resume")
    /\ UNCHANGED faults

BackoffElapses ==
    /\ pc = "backoff"
    /\ pc' = "dial"
    /\ UNCHANGED <<resume, sessionID, resumeURL, seq, closeReason, cancelled, gen,
                   localClosed, hb, wireVars, serverVars, faults, log>>

BackoffCancelled ==
    /\ pc = "backoff" /\ cancelled
    /\ pc' = "stopped"
    /\ UNCHANGED <<resume, sessionID, resumeURL, seq, closeReason, cancelled, gen,
                   localClosed, hb, wireVars, serverVars, faults, log>>

WatchCtxMissing == FALSE /\ UNCHANGED vars

(* The goroutine that closes the connection when ctx is cancelled; it is   *)
(* started after HELLO.                                                    *)
WatchCtx ==
    /\ pc = "read" /\ cancelled /\ ~localClosed
    /\ localClosed' = TRUE
    /\ UNCHANGED <<clientVars, closeReason, cancelled, gen, hb, wireVars,
                   serverVars, faults, log>>

Cancel ==
    /\ MayCancel /\ ~cancelled
    /\ cancelled' = TRUE
    /\ UNCHANGED <<clientVars, closeReason, gen, localClosed, hb, wireVars,
                   serverVars, faults, log>>

-----------------------------------------------------------------------------
(* heartbeatLoop of connection g.  select chooses freely among the ready   *)
(* branches, so a goroutine whose context is done may still take another   *)
(* one and finish what it is doing, perhaps on a newer connection.         *)

HbCtxDone(g) == hb[g].cancelled \/ cancelled

Overlooks(g) == IF HbCtxDone(g) THEN Fault ELSE UNCHANGED faults

HbReturn(g) ==
    /\ hb[g].pc = "select" /\ HbCtxDone(g)
    /\ hb' = [hb EXCEPT ![g] = Ended(@)]
    /\ UNCHANGED <<clientVars, closeReason, cancelled, gen, localClosed, wireVars,
                   serverVars, faults, log>>

HbAck(g) ==
    /\ hb[g].pc = "select" /\ hb[g].ack
    /\ hb' = [hb EXCEPT ![g].ack = FALSE, ![g].awaiting = FALSE, ![g].asked = FALSE]
    /\ Overlooks(g)
    /\ UNCHANGED <<clientVars, closeReason, cancelled, gen, localClosed, wireVars,
                   serverVars, log>>

HbBeat(g) ==
    /\ hb[g].pc = "select" /\ hb[g].beat
    /\ hb' = [hb EXCEPT ![g].beat = FALSE, ![g].pc = "send", ![g].asked = TRUE]
    /\ Overlooks(g)
    /\ UNCHANGED <<clientVars, closeReason, cancelled, gen, localClosed, wireVars,
                   serverVars, log>>

(* The connection still answers: declaring it a zombie is a timing fault.  *)
Healthy == ~muted /\ ~localClosed /\ ctl \notin Closes

HbTickNeverForces(g) ==
    /\ hb[g].pc = "select" /\ ~hb[g].awaiting
    /\ hb' = [hb EXCEPT ![g].pc = "send", ![g].asked = FALSE]
    /\ Overlooks(g)
    /\ UNCHANGED <<clientVars, closeReason, cancelled, gen, localClosed, wireVars,
                   serverVars, log>>

(* timer.C: the previous heartbeat must have been acknowledged by now.     *)
HbTick(g) ==
    /\ hb[g].pc = "select"
    /\ \/ /\ hb[g].awaiting
          /\ IF Healthy THEN Fault ELSE Overlooks(g)
          /\ hb' = [hb EXCEPT ![g].pc = "force"]
       \/ /\ ~hb[g].awaiting
          /\ hb' = [hb EXCEPT ![g].pc = "send", ![g].asked = FALSE]
          /\ Overlooks(g)
    /\ UNCHANGED <<clientVars, closeReason, cancelled, gen, localClosed, wireVars,
                   serverVars, log>>

(* sendHeartbeat writes to the connection Gateway.conn names now.          *)
HbSend(g) ==
    /\ hb[g].pc = "send"
    /\ \/ /\ Connected /\ ~localClosed
          /\ beats' = beats + 1
          /\ hb' = [hb EXCEPT ![g].pc = "select", ![g].awaiting = TRUE]
       \/ /\ ~Connected \/ localClosed \/ ctl \in Closes
          /\ hb' = [hb EXCEPT ![g] = Ended(@)]
          /\ UNCHANGED beats
    /\ UNCHANGED <<clientVars, closeReason, cancelled, gen, localClosed,
                   hs, connSid, wireNext, ctl, muted, acks, serverVars, faults, log>>

(* forceClose aimed at Gateway.conn instead of the loop's own connection.  *)
HbForceCloseCurrent(g) ==
    /\ hb[g].pc = "closing"
    /\ hb' = [hb EXCEPT ![g] = Ended(@)]
    /\ localClosed' = (localClosed \/ Connected)
    /\ UNCHANGED <<clientVars, closeReason, cancelled, gen, wireVars,
                   serverVars, faults, log>>

(* forceClose: first the reason, under stateMu ...                         *)
HbForceReason(g) ==
    /\ hb[g].pc = "force"
    /\ closeReason' = TRUE
    /\ hb' = [hb EXCEPT ![g].pc = "closing"]
    /\ UNCHANGED <<clientVars, cancelled, gen, localClosed, wireVars,
                   serverVars, faults, log>>

(* ... then the loop's own connection.                                     *)
HbForceClose(g) ==
    /\ hb[g].pc = "closing"
    /\ hb' = [hb EXCEPT ![g] = Ended(@)]
    /\ localClosed' = (localClosed \/ (g = gen /\ Connected))
    /\ UNCHANGED <<clientVars, closeReason, cancelled, gen, wireVars,
                   serverVars, faults, log>>

HeartbeatLoop(g) ==
    \/ HbReturn(g) \/ HbAck(g) \/ HbBeat(g) \/ HbTick(g)
    \/ HbSend(g) \/ HbForceReason(g) \/ HbForceClose(g)

-----------------------------------------------------------------------------
(* Discord's gateway (external): what the client has to expect of it.      *)

SrvUnchanged == UNCHANGED <<clientVars, closeReason, cancelled, gen, localClosed,
                            hb, log>>

SrvHello ==
    /\ pc = "hello" /\ ctl = "none" /\ ~muted
    /\ ctl' = "hello"
    /\ SrvUnchanged
    /\ UNCHANGED <<hs, connSid, wireNext, muted, beats, acks, serverVars, faults>>

SrvIdentify(k) ==
    /\ pc = "read" /\ hs.kind = "identify" /\ ~muted /\ ctl \in {"none", "op1"}
    /\ hs' = NoHandshake
    /\ connSid' = gen
    /\ wireNext' = 1
    /\ srvSeq' = [srvSeq EXCEPT ![gen] = 1]
    /\ alive' = [alive EXCEPT ![gen] = TRUE]
    /\ ready' = [ready EXCEPT ![gen] = k]
    /\ SrvUnchanged
    /\ UNCHANGED <<ctl, muted, beats, acks, faults>>

(* A live session is replayed from the event after seq; a dead one is      *)
(* answered by op 9, a number Discord never sent by a close (4007).        *)
SrvResume ==
    /\ pc = "read" /\ hs.kind = "resume" /\ ~muted /\ ctl \in {"none", "op1"}
    /\ hs' = NoHandshake
    /\ \/ /\ alive[hs.sid] /\ hs.seq <= srvSeq[hs.sid]
          /\ connSid' = hs.sid
          /\ wireNext' = hs.seq + 1
          /\ UNCHANGED <<ctl, alive>>
       \/ /\ ~alive[hs.sid]
          /\ ctl' = "op9false"
          /\ UNCHANGED <<connSid, wireNext, alive>>
       \/ /\ alive[hs.sid] /\ hs.seq > srvSeq[hs.sid]
          /\ ctl' = "reidentify"
          /\ alive' = [alive EXCEPT ![hs.sid] = FALSE]
          /\ UNCHANGED <<connSid, wireNext>>
    /\ SrvUnchanged
    /\ UNCHANGED <<muted, beats, acks, srvSeq, ready, faults>>

SrvEmit(s) ==
    /\ alive[s] /\ srvSeq[s] < MaxSeq
    /\ srvSeq' = [srvSeq EXCEPT ![s] = @ + 1]
    /\ SrvUnchanged
    /\ UNCHANGED <<wireVars, alive, ready, faults>>

SrvAck ==
    /\ Connected /\ ~muted /\ beats > 0
    /\ beats' = beats - 1
    /\ acks' = acks + 1
    /\ SrvUnchanged
    /\ UNCHANGED <<hs, connSid, wireNext, ctl, muted, serverVars, faults>>

SrvHeartbeatRequest ==
    /\ pc = "read" /\ ~muted /\ ctl = "none"
    /\ beats + acks < MaxBeats /\ ~hb[gen].beat /\ Fault
    /\ ctl' = "op1"
    /\ SrvUnchanged
    /\ UNCHANGED <<hs, connSid, wireNext, muted, beats, acks, serverVars>>

SrvReconnect ==
    /\ pc = "read" /\ connSid # NoSession /\ ~muted /\ ctl = "none" /\ Fault
    /\ ctl' = "op7"
    /\ SrvUnchanged
    /\ UNCHANGED <<hs, connSid, wireNext, muted, beats, acks, serverVars>>

SrvInvalidSession(resumable) ==
    /\ pc = "read" /\ connSid # NoSession /\ ~muted /\ ctl = "none" /\ Fault
    /\ ctl' = IF resumable THEN "op9true" ELSE "op9false"
    /\ alive' = [alive EXCEPT ![connSid] = resumable /\ @]
    /\ SrvUnchanged
    /\ UNCHANGED <<hs, connSid, wireNext, muted, beats, acks, srvSeq, ready>>

(* A close frame, or the connection is simply gone.  Codes that ask for a  *)
(* new IDENTIFY mean that the session is over.                             *)
SrvClose(c) ==
    /\ Connected /\ ~muted /\ ctl \notin Closes /\ Fault
    /\ ctl' = c
    /\ alive' = [s \in Conns |-> alive[s] /\ ~(c = "reidentify" /\ s \in {connSid, hs.sid})]
    /\ SrvUnchanged
    /\ UNCHANGED <<hs, connSid, wireNext, muted, beats, acks, srvSeq, ready>>

Mute ==
    /\ \/ pc = "read"
       \/ pc = "hello" /\ HelloMayHang
    /\ ~muted /\ ctl \notin Closes /\ Fault
    /\ muted' = TRUE
    /\ SrvUnchanged
    /\ UNCHANGED <<hs, connSid, wireNext, ctl, beats, acks, serverVars>>

(* Sessions of a disconnected client expire.                               *)
SrvExpire(s) ==
    /\ alive[s] /\ connSid # s /\ Fault
    /\ alive' = [alive EXCEPT ![s] = FALSE]
    /\ SrvUnchanged
    /\ UNCHANGED <<wireVars, srvSeq, ready>>

-----------------------------------------------------------------------------
Run ==
    \/ DialOK \/ DialFails \/ DialCancelled \/ BackoffElapses \/ BackoffCancelled
    \/ ReadHello \/ HelloFails \/ ReadDispatch \/ ReadHeartbeatRequest \/ ReadAck
    \/ ReadReconnect \/ ReadInvalidSession \/ ReadError

Server ==
    \/ SrvHello \/ SrvResume \/ SrvAck \/ SrvHeartbeatRequest \/ SrvReconnect \/ Mute
    \/ \E k \in ReadyKinds : SrvIdentify(k)
    \/ \E r \in BOOLEAN : SrvInvalidSession(r)
    \/ \E c \in Closes : SrvClose(c)
    \/ \E s \in Conns : SrvEmit(s) \/ SrvExpire(s)

(* Run has returned and so has every goroutine it started.                 *)
Stopped ==
    /\ pc = "stopped"
    /\ \A g \in Conns : hb[g].pc \in {"none", "done"}
    /\ UNCHANGED vars

Next ==
    \/ Run \/ WatchCtx \/ Cancel \/ Server \/ Stopped
    \/ \E g \in Conns : HeartbeatLoop(g)

Spec == Init /\ [][Next]_vars

(* Goroutines are scheduled and timers expire; a peer that is not muted    *)
(* answers HELLO, IDENTIFY, RESUME and heartbeats.  Nothing forces a fault,*)
(* a cancellation or a new event.                                          *)
Fairness ==
    /\ WF_vars(DialOK) /\ WF_vars(DialCancelled) /\ WF_vars(BackoffElapses)
    /\ WF_vars(ReadHello) /\ WF_vars(HelloFails) /\ WF_vars(ReadDispatch)
    /\ WF_vars(ReadHeartbeatRequest) /\ WF_vars(ReadAck) /\ WF_vars(ReadReconnect)
    /\ WF_vars(ReadInvalidSession) /\ WF_vars(ReadError) /\ WF_vars(WatchCtx)
    /\ WF_vars(SrvHello) /\ WF_vars(SrvResume) /\ WF_vars(SrvAck)
    /\ WF_vars(\E k \in ReadyKinds : SrvIdentify(k))
    /\ \A g \in Conns :
        /\ WF_vars(HbReturn(g)) /\ WF_vars(HbAck(g)) /\ WF_vars(HbBeat(g))
        /\ WF_vars(HbTick(g)) /\ WF_vars(HbSend(g))
        /\ WF_vars(HbForceReason(g)) /\ WF_vars(HbForceClose(g))

FairSpec == Spec /\ Fairness

-----------------------------------------------------------------------------
(* Properties.                                                             *)

(* onDispatch is given the events 1, 2, 3, ... of every session, each once *)
(* and in order, whatever connections they came over: the seq stored by    *)
(* the read loop is exactly what RESUME must name.                         *)
InOrderExactlyOnce ==
    \A s \in Conns : \A i \in 1 .. Len(log[s]) : log[s][i] = i

(* Why: RESUME names the session and the number onDispatch reached, so the *)
(* server continues exactly there.  The parts are inductive together.      *)
LogsArePrefixes ==
    \A s \in Conns : /\ Len(log[s]) <= srvSeq[s]
                     /\ log[s] = [i \in 1 .. Len(log[s]) |-> i]

WireFollowsLog ==
    connSid # NoSession => pc = "read" /\ wireNext = Len(log[connSid]) + 1

SeqFollowsLog ==
    canResume => log[sessionID] # <<>> /\ seq = Len(log[sessionID])

ResumeIsPossible ==
    /\ resume => canResume
    /\ ~resume /\ connSid = NoSession => ~canResume \/ pc = "stopped"
    /\ connSid # NoSession =>
        /\ canResume => sessionID = connSid
        /\ log[connSid] = <<>> => ~resume
        /\ ~resume => connSid = gen

HandshakeIsCurrent ==
    /\ hs.kind # "none" => pc = "read" /\ connSid = NoSession
    /\ hs.kind = "resume" => resume /\ hs.sid = sessionID /\ hs.seq = seq
    /\ hs.kind = "identify" => ~resume /\ hs.sid = NoSession

SessionsAreFresh ==
    /\ \A s \in Conns : srvSeq[s] = 0 => ~alive[s]
    /\ \A s \in Conns : s > gen => srvSeq[s] = 0
    /\ \A s \in Conns : s = gen /\ (pc = "hello" \/ hs.kind # "none") => srvSeq[s] = 0

DeliveryInv ==
    /\ LogsArePrefixes /\ WireFollowsLog /\ SeqFollowsLog
    /\ ResumeIsPossible /\ HandshakeIsCurrent /\ SessionsAreFresh

(* A session that is alive, stored completely and heard of is the one the  *)
(* client will resume; a frame that makes the client forget its session    *)
(* comes only when the server has.                                         *)
KeptInv ==
    /\ \A s \in Conns : alive[s] /\ log[s] # <<>> /\ ready[s] = "full"
                        => sessionID = s /\ resumeURL
    /\ (ctl \in {"op9false", "reidentify"} /\ pc = "read") \/
       (pc = "read" /\ connSid = NoSession /\ hs.kind = "none")
        => \A s \in Conns : (canResume /\ s = sessionID) \/ s = connSid => ~alive[s]

(* The client as Discord's events see it: reconnects are invisible.        *)
ES == INSTANCE EventStream WITH Sessions <- Conns, emitted <- srvSeq, delivered <- log
ImplementsEventStream == ES!Spec

(* IDENTIFY gives up no session that could have been resumed: when it is   *)
(* sent, every session whose READY was stored completely is dead.          *)
SessionKept ==
    [][(pc = "hello" /\ pc' = "read" /\ hs'.kind = "identify")
        => \A s \in Conns : alive[s] => log[s] = <<>> \/ ready[s] # "full"]_vars

(* Only the connection being read has a heartbeat loop that nobody told to *)
(* stop: a reconnect never leaves a second one behind.                     *)
OneHeartbeatLoop ==
    \A g \in Conns :
        hb[g].pc \notin {"none", "done"} /\ ~hb[g].cancelled => g = gen /\ pc = "read"

(* All of this together: the log, the number a RESUME names and the wire   *)
(* agree, no resumable session is forgotten, and there is one heartbeat.   *)
GatewayInv == TypeOK /\ DeliveryInv /\ KeptInv /\ OneHeartbeatLoop

(* A connection closed under the read loop is closed for a reason the read *)
(* loop finds: its own heartbeat loop has stored one and Run not taken it  *)
(* back, or ctx is done.  So the loop of an earlier connection, which may  *)
(* still be inside forceClose while Run dials and clears the reason        *)
(* (gateway.go:532), never makes a healthy connection look broken.         *)
ClosedWithReason ==
    /\ localClosed => Connected /\ (closeReason \/ cancelled)
    /\ Connected /\ hb[gen].pc = "closing" => closeReason
    /\ \A g \in Conns : g > gen => hb[g].pc = "none"

(* An event of a session the client can resume reaches onDispatch, however *)
(* many connections that takes, unless the session dies or the client is   *)
(* told to stop.                                                           *)
EventuallyDelivered ==
    \A s \in Conns : \A n \in 2 .. MaxSeq :
        (srvSeq[s] >= n /\ log[s] # <<>> /\ ready[s] = "full")
            ~> (Len(log[s]) >= n \/ ~alive[s] \/ pc = "stopped" \/ cancelled)

(* Run returns after its context is cancelled.                             *)
CancelStops == cancelled ~> pc = "stopped"

(* "Run ... keeps the gateway alive until ctx is cancelled or a fatal      *)
(* close code is received": a connection closed with a fatal code before   *)
(* HELLO is not dialled again.                                             *)
FatalCloseStops ==
    [][(Connected /\ ctl = "fatal" /\ ~Connected') => pc' = "stopped"]_vars

(* The same for a close that the read loop receives.                       *)
FatalCloseInReadLoopStops ==
    [][(pc = "read" /\ ctl = "fatal" /\ pc' # "read") => pc' = "stopped"]_vars

(* "recycles the connection when the previous heartbeat was never          *)
(* acknowledged": not when its ACK already waits in ackC.                  *)
AckedNeverRecycled ==
    [][\A g \in Conns : (hb[g].pc = "select" /\ hb'[g].pc = "force") => ~hb[g].ack]_vars

(* ... and not when the previous heartbeat is one that op 1 asked for      *)
(* since the last tick, whose ACK has had less than an interval to arrive. *)
FullIntervalBeforeRecycle ==
    [][\A g \in Conns : (hb[g].pc = "select" /\ hb'[g].pc = "force") => ~hb[g].asked]_vars
=============================================================================
