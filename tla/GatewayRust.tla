---------------------------- MODULE GatewayRust ----------------------------
(***************************************************************************)
(* The gateway client of the Rust SDK (vaidcord-rust/src/gateway.rs):      *)
(* GatewayRunner::run, the select loop of run_connection and the           *)
(* heartbeat_loop task, which talks to the select loop through a channel   *)
(* and two atomics, against a Discord gateway that may drop, close, mute   *)
(* or invalidate at any moment.                                            *)
(*                                                                         *)
(* Connections are numbered as they are dialled and a session is named by  *)
(* the connection that identified, as in GatewayGo; dispatches in flight   *)
(* are those numbered wireNext..srvSeq[connSid].  The events channel hands *)
(* over what it is given at once.  A task that is aborted is gone.         *)
(***************************************************************************)
EXTENDS Naturals, Sequences

CONSTANTS
    MaxConns,      \* bound: websockets dialled (a fault costs at most two)
    MaxSeq,        \* bound: events per session
    MaxFaults,     \* bound: faults of network, server and timing
    MaxBeats,      \* bound: heartbeats in flight when the server asks for one
    ReadyKinds,    \* READY with a session id ("full") or without one ("bad");
                   \* where the next dial goes has no effect on the client
    Unreachable,   \* TRUE: every dial may fail, for ever
    MayShutdown    \* TRUE: the application may call shutdown() or drop the
                   \* GatewayConnection

ASSUME ConstantsAssumption ==
    /\ MaxConns \in Nat \ {0}
    /\ MaxSeq \in Nat \ {0}
    /\ MaxFaults \in Nat
    /\ MaxBeats \in Nat
    /\ ReadyKinds \subseteq {"full", "bad"}
    /\ Unreachable \in BOOLEAN
    /\ MayShutdown \in BOOLEAN

Conns == 1 .. MaxConns
NoSession == 0

VARIABLES
    pc,           \* where run is: dial, read, sleep (op 9), backoff, stopped
    resume,       \* run's local; during a connection: can_resume
    sessionId,    \* session.session_id
    seq,          \* session.seq (0: None)
    closeCode,    \* run_connection's close_code, classified
    gen,          \* number of the connection dialled last
    shutdown,     \* the commands channel holds Shutdown or has lost its senders
    dropped       \* the receiver of the events channel is gone

VARIABLES
    hb,           \* heartbeat_loop: its await, the ticker's first tick, and
                  \* whether an interval passed since the last beat (history)
    ackReceived,  \* the AtomicBool ack_received
    outbound      \* the outbound channel: beats, then perhaps MissedAck

VARIABLES
    hs,           \* IDENTIFY or RESUME on its way to the server
    connSid,      \* the session the server attached the connection to
    wireNext,     \* number of the next dispatch on the wire
    ctl,          \* control frame, close or end of stream on its way here
    greeted,      \* HELLO was sent
    muted,        \* half-open connection: nothing arrives any more
    beats, acks   \* heartbeats on their way out, ACKs on their way in

VARIABLES srvSeq, alive, ready, faults   \* the server, as in GatewayGo
VARIABLE log      \* history: log[s] is what the events channel was given

runVars  == <<pc, resume, sessionId, seq, closeCode, gen>>
appVars  == <<shutdown, dropped>>
hbVars   == <<hb, ackReceived, outbound>>
wireVars == <<hs, connSid, wireNext, ctl, greeted, muted, beats, acks>>
srvVars  == <<srvSeq, alive, ready>>
vars == <<pc, resume, sessionId, seq, closeCode, gen, shutdown, dropped, hb, ackReceived,
          outbound, hs, connSid, wireNext, ctl, greeted, muted, beats, acks, srvSeq, alive,
          ready, faults, log>>

Codes  == {"fatal", "reidentify", "resume"}   \* GatewayCloseAction
Closes == Codes \cup {"drop"}                 \* "drop": no close frame
Ends   == Closes \cup {"eof"}                 \* "eof": after a close frame
Controls == {"none", "hello", "op1", "op7", "op9true", "op9false"} \cup Ends

NoHandshake == [kind |-> "none", sid |-> NoSession, seq |-> 0]
NoTask == [pc |-> "none", first |-> FALSE, waited |-> FALSE]
Empty  == [beats |-> 0, missed |-> FALSE]

HeartbeatTasks == [pc : {"none", "jitter", "check", "tick"}, first : BOOLEAN, waited : BOOLEAN]
Handshakes == [kind : {"none", "identify", "resume"}, sid : 0 .. MaxConns, seq : 0 .. MaxSeq]

RunnerTypes ==
    /\ pc \in {"dial", "read", "sleep", "backoff", "stopped"}
    /\ resume \in BOOLEAN
    /\ sessionId \in 0 .. MaxConns /\ seq \in 0 .. MaxSeq
    /\ closeCode \in Codes \cup {"none"}
    /\ gen \in 0 .. MaxConns
    /\ shutdown \in BOOLEAN /\ dropped \in BOOLEAN

HeartbeatTypes ==
    /\ hb \in HeartbeatTasks
    /\ ackReceived \in BOOLEAN
    /\ outbound \in [beats : Nat, missed : BOOLEAN]

WireTypes ==
    /\ hs \in Handshakes
    /\ connSid \in 0 .. MaxConns /\ wireNext \in 1 .. MaxSeq + 1
    /\ ctl \in Controls /\ greeted \in BOOLEAN /\ muted \in BOOLEAN
    /\ beats \in Nat /\ acks \in Nat

ServerTypes ==
    /\ srvSeq \in [Conns -> 0 .. MaxSeq]
    /\ alive \in [Conns -> BOOLEAN]
    /\ ready \in [Conns -> {"full", "bad"}]
    /\ faults \in 0 .. MaxFaults

(* Every variable keeps its type; a connection being read has a number.    *)
TypeOK ==
    /\ RunnerTypes /\ HeartbeatTypes /\ WireTypes /\ ServerTypes
    /\ log \in [Conns -> Seq(1 .. MaxSeq)]
    /\ pc = "read" => gen \in Conns

Init ==
    /\ pc = "dial" /\ resume = FALSE /\ sessionId = NoSession /\ seq = 0
    /\ closeCode = "none" /\ gen = 0
    /\ shutdown = FALSE /\ dropped = FALSE
    /\ hb = NoTask /\ ackReceived = TRUE /\ outbound = Empty
    /\ hs = NoHandshake /\ connSid = NoSession /\ wireNext = 1
    /\ ctl = "none" /\ greeted = FALSE /\ muted = FALSE /\ beats = 0 /\ acks = 0
    /\ srvSeq = [s \in Conns |-> 0]
    /\ alive = [s \in Conns |-> FALSE]
    /\ ready = [s \in Conns |-> "full"]
    /\ faults = 0
    /\ log = [s \in Conns |-> <<>>]

Fault == faults < MaxFaults /\ faults' = faults + 1

-----------------------------------------------------------------------------
(* The end of a connection.                                                *)

(* The select loop is left: the heartbeat task is aborted and the sink,    *)
(* the stream and the outbound channel are dropped.                        *)
AbortsHeartbeatMissing == UNCHANGED hbVars
AbortsHeartbeat == hb' = NoTask /\ ackReceived' = TRUE /\ outbound' = Empty

DropsConnection ==
    /\ AbortsHeartbeat
    /\ closeCode' = "none"
    /\ hs' = NoHandshake /\ connSid' = NoSession /\ wireNext' = 1
    /\ ctl' = "none" /\ greeted' = FALSE /\ muted' = FALSE /\ beats' = 0 /\ acks' = 0

(* run_connection returns Reconnect { resume } or an error.                *)
Reconnect(r) ==
    /\ DropsConnection
    /\ pc' = "backoff"
    /\ resume' = r
    /\ UNCHANGED <<gen, srvVars, log>>

Stop ==
    /\ DropsConnection
    /\ pc' = "stopped"
    /\ UNCHANGED <<resume, sessionId, seq, gen, srvVars, log>>

ForgetSession == sessionId' = NoSession /\ seq' = 0
KeepSession   == UNCHANGED <<sessionId, seq>>

-----------------------------------------------------------------------------
(* GatewayRunner::run and run_connection.                                  *)

(* can_resume: the last connection asked for it and there is a session.    *)
CanResume == resume /\ sessionId # NoSession

ConnectOK ==
    /\ pc = "dial" /\ gen < MaxConns
    /\ pc' = "read"
    /\ gen' = gen + 1
    /\ resume' = CanResume
    /\ UNCHANGED <<sessionId, seq, closeCode, appVars, hbVars, wireVars, srvVars, faults, log>>

(* gateway_url or connect_async fails: the error goes into the events      *)
(* channel and the next attempt may resume.                                *)
ConnectFails ==
    /\ pc = "dial"
    /\ IF Unreachable THEN UNCHANGED faults ELSE Fault
    /\ \/ dropped /\ Stop
       \/ ~dropped /\ Reconnect(TRUE) /\ KeepSession
    /\ UNCHANGED appVars

Reading == pc = "read" /\ ~muted /\ closeCode = "none"

resume_payload == [kind |-> "resume", sid |-> sessionId, seq |-> seq]
identify_payload == [kind |-> "identify", sid |-> NoSession, seq |-> 0]

(* Op 10: the heartbeat task starts and the handshake goes out.            *)
ReadHello ==
    /\ Reading /\ ctl = "hello"
    /\ ctl' = "none"
    /\ hb' = [NoTask EXCEPT !.pc = "jitter"]
    /\ ackReceived' = TRUE
    /\ hs' = IF resume THEN resume_payload ELSE identify_payload
    /\ UNCHANGED <<runVars, appVars, outbound, connSid, wireNext, greeted, muted, beats, acks,
                   srvVars, faults, log>>

Dispatchable == Reading /\ connSid # NoSession /\ wireNext <= srvSeq[connSid]

(* Op 0: the number is stored, READY stores the session, the payload goes  *)
(* into the events channel.                                                *)
ReadDispatchKeepsSeq ==
    /\ Dispatchable /\ ~dropped
    /\ seq' = IF wireNext = 1 THEN 1 ELSE seq
    /\ sessionId' = IF wireNext # 1 THEN sessionId
                    ELSE IF ready[connSid] = "bad" THEN NoSession ELSE connSid
    /\ wireNext' = wireNext + 1
    /\ log' = [log EXCEPT ![connSid] = Append(@, wireNext)]
    /\ UNCHANGED <<pc, resume, closeCode, gen, appVars, hbVars, hs, connSid, ctl, greeted, muted,
                   beats, acks, srvVars, faults>>

ReadDispatch ==
    /\ Dispatchable /\ ~dropped
    /\ seq' = wireNext
    /\ sessionId' = IF wireNext # 1 THEN sessionId
                    ELSE IF ready[connSid] = "bad" THEN NoSession ELSE connSid
    /\ wireNext' = wireNext + 1
    /\ log' = [log EXCEPT ![connSid] = Append(@, wireNext)]
    /\ UNCHANGED <<pc, resume, closeCode, gen, appVars, hbVars, hs, connSid, ctl, greeted, muted,
                   beats, acks, srvVars, faults>>

(* Nobody receives events any more; what was stored goes with the runner.  *)
ReadDispatchDropped ==
    /\ Dispatchable /\ dropped
    /\ Stop
    /\ UNCHANGED <<appVars, faults>>

(* Op 1 is answered in line; the heartbeat task does not hear of it.       *)
ReadHeartbeatRequest ==
    /\ Reading /\ ctl = "op1"
    /\ ctl' = "none"
    /\ beats' = beats + 1
    /\ UNCHANGED <<runVars, appVars, hbVars, hs, connSid, wireNext, greeted, muted, acks, srvVars,
                   faults, log>>

ReadAck ==
    /\ Reading /\ acks > 0
    /\ acks' = acks - 1
    /\ ackReceived' = TRUE
    /\ UNCHANGED <<runVars, appVars, hb, outbound, hs, connSid, wireNext, ctl, greeted, muted, beats,
                   srvVars, faults, log>>

ReadReconnect ==
    /\ Reading /\ ctl = "op7"
    /\ Reconnect(TRUE) /\ KeepSession
    /\ UNCHANGED <<appVars, faults>>

(* Op 9: the session is forgotten unless it is resumable, then the select  *)
(* loop sleeps before it ends.                                             *)
InvalidSessionAlwaysForgets == FALSE
InvalidSessionResumable == ctl = "op9true"

ReadInvalidSession ==
    /\ Reading /\ ctl \in {"op9true", "op9false"}
    /\ pc' = "sleep"
    /\ resume' = InvalidSessionResumable
    /\ IF InvalidSessionResumable THEN KeepSession ELSE ForgetSession
    /\ ctl' = "none"
    /\ UNCHANGED <<closeCode, gen, appVars, hbVars, hs, connSid, wireNext, greeted, muted, beats, acks,
                   srvVars, faults, log>>

SleepEnds ==
    /\ pc = "sleep"
    /\ Reconnect(resume) /\ KeepSession
    /\ UNCHANGED <<appVars, faults>>

(* A close frame only sets close_code; the loop goes on until the stream   *)
(* ends.                                                                   *)
ReadClose ==
    /\ Reading /\ ctl \in Codes
    /\ closeCode' = ctl
    /\ ctl' = "eof"
    /\ UNCHANGED <<pc, resume, sessionId, seq, gen, appVars, hbVars, hs, connSid, wireNext,
                   greeted, muted, beats, acks, srvVars, faults, log>>

(* close_end.                                                              *)
StreamEnds ==
    /\ pc = "read" /\ ctl = "eof"
    /\ \/ closeCode = "fatal" /\ Stop
       \/ closeCode = "reidentify" /\ Reconnect(FALSE) /\ ForgetSession
       \/ closeCode = "resume" /\ Reconnect(TRUE) /\ KeepSession
    /\ UNCHANGED <<appVars, faults>>

StreamFails ==
    /\ pc = "read" /\ ctl = "drop"
    /\ Reconnect(TRUE) /\ KeepSession
    /\ UNCHANGED <<appVars, faults>>

BackoffElapses ==
    /\ pc = "backoff"
    /\ pc' = "dial"
    /\ UNCHANGED <<resume, sessionId, seq, closeCode, gen, appVars, hbVars, wireVars, srvVars,
                   faults, log>>

(* A heartbeat from the outbound channel is written; after a close frame   *)
(* the write fails, and so may one on a connection that is gone.           *)
OutboundBeat ==
    /\ pc = "read" /\ outbound.beats > 0
    /\ \/ /\ closeCode = "none"
          /\ outbound' = [outbound EXCEPT !.beats = @ - 1]
          /\ beats' = beats + 1
          /\ UNCHANGED <<runVars, hb, ackReceived, hs, connSid, wireNext, ctl, greeted, muted, acks,
                         srvVars, log>>
       \/ /\ closeCode # "none" \/ ctl = "drop"
          /\ Reconnect(TRUE) /\ KeepSession
    /\ UNCHANGED <<appVars, faults>>

OutboundMissedIgnored ==
    /\ pc = "read" /\ outbound.beats = 0 /\ outbound.missed
    /\ outbound' = Empty
    /\ UNCHANGED <<runVars, appVars, hb, ackReceived, wireVars, srvVars, faults, log>>

OutboundMissed ==
    /\ pc = "read" /\ outbound.beats = 0 /\ outbound.missed
    /\ Reconnect(TRUE) /\ KeepSession
    /\ UNCHANGED <<appVars, faults>>

CommandShutdownIgnored == FALSE /\ UNCHANGED vars

(* The commands channel is polled only by the select loop.                 *)
CommandShutdown ==
    /\ pc = "read" /\ shutdown
    /\ Stop
    /\ UNCHANGED <<appVars, faults>>

AppShutdown ==
    /\ MayShutdown /\ ~shutdown /\ pc # "stopped"
    /\ shutdown' = TRUE
    /\ UNCHANGED <<runVars, dropped, hbVars, wireVars, srvVars, faults, log>>

(* The GatewayConnection is dropped; its handle may have been the last one. *)
AppDrops ==
    /\ MayShutdown /\ ~dropped /\ pc # "stopped"
    /\ dropped' = TRUE
    /\ shutdown' \in {shutdown, TRUE}
    /\ UNCHANGED <<runVars, hbVars, wireVars, srvVars, faults, log>>

-----------------------------------------------------------------------------
(* heartbeat_loop.                                                         *)

HbUnchanged == UNCHANGED <<runVars, appVars, wireVars, srvVars, log>>

HbJitter ==
    /\ hb.pc = "jitter"
    /\ hb' = [pc |-> "check", first |-> TRUE, waited |-> TRUE]
    /\ HbUnchanged /\ UNCHANGED <<ackReceived, outbound, faults>>

(* ack_received.swap(false): TRUE sends a beat.                            *)
HbBeat ==
    /\ hb.pc = "check" /\ ackReceived
    /\ ackReceived' = FALSE
    /\ outbound' = [outbound EXCEPT !.beats = @ + 1]
    /\ hb' = [hb EXCEPT !.pc = "tick", !.waited = FALSE]
    /\ HbUnchanged /\ UNCHANGED faults

(* The connection still answers: giving it up is a timing fault.           *)
Healthy == ~muted /\ ctl \notin Ends

(* ... and FALSE declares the connection dead.                             *)
HbMissed ==
    /\ hb.pc = "check" /\ ~ackReceived
    /\ IF Healthy THEN Fault ELSE UNCHANGED faults
    /\ outbound' = [outbound EXCEPT !.missed = TRUE]
    /\ hb' = NoTask
    /\ HbUnchanged /\ UNCHANGED ackReceived

(* ticker.tick(): the first tick of a tokio interval completes at once.    *)
HbTick ==
    /\ hb.pc = "tick"
    /\ hb' = [pc |-> "check", first |-> FALSE, waited |-> ~hb.first]
    /\ HbUnchanged /\ UNCHANGED <<ackReceived, outbound, faults>>

-----------------------------------------------------------------------------
(* Discord's gateway (external), as in GatewayGo.                          *)

SrvUnchanged == UNCHANGED <<runVars, appVars, hbVars, log>>

SrvHello ==
    /\ pc = "read" /\ ~greeted /\ ctl = "none"
    /\ greeted' = TRUE
    /\ ctl' = "hello"
    /\ SrvUnchanged
    /\ UNCHANGED <<hs, connSid, wireNext, muted, beats, acks, srvVars, faults>>

SrvIdentify(k) ==
    /\ pc = "read" /\ hs.kind = "identify" /\ ~muted /\ ctl \in {"none", "op1"}
    /\ hs' = NoHandshake
    /\ connSid' = gen /\ wireNext' = 1
    /\ srvSeq' = [srvSeq EXCEPT ![gen] = 1]
    /\ alive' = [alive EXCEPT ![gen] = TRUE]
    /\ ready' = [ready EXCEPT ![gen] = k]
    /\ SrvUnchanged
    /\ UNCHANGED <<ctl, greeted, muted, beats, acks, faults>>

(* A live session is replayed from the event after seq; a dead one, or a   *)
(* number that was never sent, is answered by op 9.                        *)
SrvResume ==
    /\ pc = "read" /\ hs.kind = "resume" /\ ~muted /\ ctl \in {"none", "op1"}
    /\ hs' = NoHandshake
    /\ \/ /\ alive[hs.sid] /\ hs.seq <= srvSeq[hs.sid]
          /\ connSid' = hs.sid /\ wireNext' = hs.seq + 1
          /\ UNCHANGED <<ctl, alive>>
       \/ /\ ~alive[hs.sid] \/ hs.seq > srvSeq[hs.sid]
          /\ ctl' = "op9false"
          /\ alive' = [alive EXCEPT ![hs.sid] = FALSE]
          /\ UNCHANGED <<connSid, wireNext>>
    /\ SrvUnchanged
    /\ UNCHANGED <<greeted, muted, beats, acks, srvSeq, ready, faults>>

SrvEmit(s) ==
    /\ alive[s] /\ srvSeq[s] < MaxSeq
    /\ srvSeq' = [srvSeq EXCEPT ![s] = @ + 1]
    /\ SrvUnchanged
    /\ UNCHANGED <<wireVars, alive, ready, faults>>

SrvAck ==
    /\ pc = "read" /\ ~muted /\ beats > 0
    /\ beats' = beats - 1
    /\ acks' = acks + 1
    /\ SrvUnchanged
    /\ UNCHANGED <<hs, connSid, wireNext, ctl, greeted, muted, srvVars, faults>>

(* Frames of the server's own accord, on an attached connection.           *)
SrvSends(f) ==
    /\ pc = "read" /\ connSid # NoSession /\ ~muted /\ ctl = "none"
    /\ IF f = "op1" THEN beats + acks + outbound.beats < MaxBeats /\ UNCHANGED faults ELSE Fault
    /\ ctl' = f
    /\ alive' = [alive EXCEPT ![connSid] = @ /\ f # "op9false"]
    /\ SrvUnchanged
    /\ UNCHANGED <<hs, connSid, wireNext, greeted, muted, beats, acks, srvSeq, ready>>

(* The codes that ask for a new IDENTIFY "invalidate the session".         *)
SrvClose(c) ==
    /\ pc = "read" /\ ~muted /\ ctl \notin Ends /\ Fault
    /\ ctl' = c
    /\ alive' = [s \in Conns |-> alive[s] /\ ~(c = "reidentify" /\ s \in {connSid, sessionId})]
    /\ SrvUnchanged
    /\ UNCHANGED <<hs, connSid, wireNext, greeted, muted, beats, acks, srvSeq, ready>>

(* Half-open after HELLO.                                                  *)
Mute ==
    /\ pc = "read" /\ greeted /\ ~muted /\ ctl \notin Ends \cup {"hello"} /\ Fault
    /\ muted' = TRUE
    /\ SrvUnchanged
    /\ UNCHANGED <<hs, connSid, wireNext, ctl, greeted, beats, acks, srvVars>>

SrvExpire(s) ==
    /\ alive[s] /\ connSid # s /\ Fault
    /\ alive' = [alive EXCEPT ![s] = FALSE]
    /\ SrvUnchanged
    /\ UNCHANGED <<wireVars, srvSeq, ready>>

-----------------------------------------------------------------------------
Runner ==
    \/ ConnectOK \/ ConnectFails \/ BackoffElapses \/ SleepEnds
    \/ ReadHello \/ ReadDispatch \/ ReadDispatchDropped \/ ReadHeartbeatRequest \/ ReadAck
    \/ ReadReconnect \/ ReadInvalidSession \/ ReadClose \/ StreamEnds \/ StreamFails
    \/ OutboundBeat \/ OutboundMissed \/ CommandShutdown

Heartbeat == HbJitter \/ HbBeat \/ HbMissed \/ HbTick

Server ==
    \/ SrvHello \/ SrvResume \/ SrvAck \/ Mute
    \/ \E k \in ReadyKinds : SrvIdentify(k)
    \/ \E f \in {"op1", "op7", "op9true", "op9false"} : SrvSends(f)
    \/ \E c \in Closes : SrvClose(c)
    \/ \E s \in Conns : SrvEmit(s) \/ SrvExpire(s)

Stopped == pc = "stopped" /\ UNCHANGED vars

Next == Runner \/ Heartbeat \/ AppShutdown \/ AppDrops \/ Server \/ Stopped

Spec == Init /\ [][Next]_vars

(* Tasks are scheduled, timers expire, and a peer that is not muted answers.*)
(* A branch of select! that stays ready is chosen eventually.              *)
Fairness ==
    /\ WF_vars(ConnectOK) /\ WF_vars(BackoffElapses) /\ WF_vars(SleepEnds)
    /\ WF_vars(ReadHello) /\ WF_vars(ReadDispatch) /\ WF_vars(ReadDispatchDropped)
    /\ WF_vars(ReadHeartbeatRequest) /\ WF_vars(ReadAck) /\ WF_vars(ReadReconnect)
    /\ WF_vars(ReadInvalidSession) /\ WF_vars(ReadClose) /\ WF_vars(StreamEnds)
    /\ WF_vars(StreamFails) /\ WF_vars(OutboundBeat) /\ WF_vars(OutboundMissed)
    /\ WF_vars(CommandShutdown)
    /\ WF_vars(HbJitter) /\ WF_vars(HbBeat) /\ WF_vars(HbMissed) /\ WF_vars(HbTick)
    /\ WF_vars(SrvHello) /\ WF_vars(SrvResume) /\ WF_vars(SrvAck)
    /\ WF_vars(\E k \in ReadyKinds : SrvIdentify(k))

FairSpec == Spec /\ Fairness

-----------------------------------------------------------------------------
(* Properties.                                                             *)

(* What a RESUME names is what the events channel was given last, so the   *)
(* server continues exactly there; a session the client can name has been  *)
(* heard of.                                                               *)
ResumePointIsCurrent ==
    /\ hs.kind = "resume" => hs.sid = sessionId /\ hs.seq = Len(log[hs.sid])
    /\ sessionId # NoSession => seq = Len(log[sessionId]) /\ seq > 0

(* The client as Discord's events see it: reconnects are invisible.        *)
ES == INSTANCE EventStream WITH Sessions <- Conns, emitted <- srvSeq, delivered <- log
ImplementsEventStream == ES!Spec

(* IDENTIFY gives up no session that could have been resumed.              *)
SessionKept ==
    [][(hs.kind = "none" /\ hs'.kind = "identify")
        => \A s \in Conns : alive[s] => log[s] = <<>> \/ ready[s] = "bad"]_vars

(* The heartbeat task lives and dies with the select loop: no beat and no  *)
(* missed ACK of one connection reaches the next one.                      *)
HeartbeatOfConnection ==
    pc \notin {"read", "sleep"} => hb = NoTask /\ outbound = Empty

(* The inductive form of ResumePointIsCurrent.  Handlers were given the    *)
(* first numbers of every session; the stored number, the one a RESUME in  *)
(* flight carries and the next one on the wire all continue there.         *)
LogsArePrefixes ==
    \A s \in Conns : /\ Len(log[s]) <= srvSeq[s]
                     /\ log[s] = [i \in 1 .. Len(log[s]) |-> i]

WireFollowsLog ==
    connSid # NoSession => pc \in {"read", "sleep"} /\ wireNext = Len(log[connSid]) + 1

SeqFollowsLog ==
    sessionId # NoSession => log[sessionId] # <<>> /\ seq = Len(log[sessionId])

(* A connection that is not attached has a session to resume exactly when  *)
(* it was dialled for that.                                                *)
ResumeIsPossible ==
    /\ pc = "read" /\ resume => sessionId # NoSession
    /\ ~resume /\ (connSid = NoSession \/ pc = "sleep") => sessionId = NoSession \/ pc = "stopped"
    /\ connSid # NoSession /\ sessionId # NoSession => sessionId = connSid
    /\ connSid # NoSession /\ log[connSid] = <<>> => sessionId = NoSession

HandshakeIsCurrent ==
    /\ hs.kind # "none" => pc = "read" /\ connSid = NoSession /\ ctl \in {"none"} \cup Ends
    /\ hs.kind = "resume" => resume /\ hs.sid = sessionId /\ hs.seq = seq
    /\ hs.kind = "identify" => ~resume

(* HELLO comes once, and first.                                            *)
HelloComesFirst ==
    /\ ~greeted \/ ctl = "hello" => connSid = NoSession /\ hs.kind = "none"
    /\ ctl = "hello" => greeted

SessionsAreFresh ==
    /\ \A s \in Conns : srvSeq[s] = 0 => ~alive[s]
    /\ \A s \in Conns : s > gen => srvSeq[s] = 0
    /\ pc = "read" /\ connSid = NoSession => \A s \in Conns : s = gen => srvSeq[s] = 0

(* The next connection finds nothing of the last one.                      *)
NothingOnTheWire ==
    pc \notin {"read", "sleep"} =>
        /\ hs.kind = "none" /\ connSid = NoSession
        /\ closeCode = "none" /\ ctl = "none" /\ ~greeted

DeliveryInv ==
    /\ LogsArePrefixes /\ WireFollowsLog /\ SeqFollowsLog /\ ResumeIsPossible
    /\ HandshakeIsCurrent /\ HelloComesFirst /\ SessionsAreFresh /\ NothingOnTheWire

(* A live session whose READY arrived with an id is the stored one, and    *)
(* what makes the runner forget it comes when the server has.              *)
KeptInv ==
    /\ \A s \in Conns : alive[s] /\ log[s] # <<>> /\ ready[s] = "full" => sessionId = s
    /\ pc = "read" /\ (ctl \in {"op9false", "reidentify"} \/ closeCode = "reidentify")
        => \A s \in Conns : s = sessionId \/ s = connSid => ~alive[s]
    /\ closeCode # "none" => ctl = "eof"

(* Together: the runner takes from one connection to the next the resume   *)
(* point and nothing else.                                                 *)
RunnerInv ==
    TypeOK /\ ResumePointIsCurrent /\ HeartbeatOfConnection /\ DeliveryInv /\ KeptInv

(* A connection on which nothing arrives any more is given up.             *)
ZombieRecycled ==
    \A g \in Conns : (pc = "read" /\ gen = g /\ muted) ~> ~(pc = "read" /\ gen = g)

(* "Cleanly close the connection and stop the reconnect loop.": shutdown() *)
(* ends the runner.                                                        *)
ShutdownStops == shutdown ~> pc = "stopped"

(* "Fatal: Do not reconnect": a connection that received a fatal close     *)
(* frame is the last one.                                                  *)
FatalCloseStops ==
    [][(closeCode = "fatal" /\ pc' # pc) => pc' = "stopped"]_vars

(* "then a steady interval": a beat whose ACK is missed had an interval to *)
(* be acknowledged.                                                        *)
MissedAfterInterval == [][(~outbound.missed /\ outbound'.missed) => hb.waited]_vars
=============================================================================
