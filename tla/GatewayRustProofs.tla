------------------------- MODULE GatewayRustProofs -------------------------
(***************************************************************************)
(* Proofs about GatewayRust: for any number of connections, events, faults *)
(* and sessions, the events channel is given every session's events once   *)
(* and in order, and no session that could be resumed is given up.         *)
(***************************************************************************)
EXTENDS GatewayRust, TLAPS

-----------------------------------------------------------------------------
(* Types.                                                                  *)

(* The handshakes the runner and the server put on the wire are typed.     *)
LEMMA HandshakeTypes ==
    ASSUME RunnerTypes
    PROVE  NoHandshake \in Handshakes /\ identify_payload \in Handshakes /\ resume_payload \in Handshakes
  BY ConstantsAssumption
  DEF Handshakes, NoHandshake, identify_payload, resume_payload, NoSession, RunnerTypes

(* Every state heartbeat_loop reaches is one of its states.                *)
LEMMA HeartbeatUpdates ==
    ASSUME NEW h \in HeartbeatTasks
    PROVE  /\ NoTask \in HeartbeatTasks /\ [NoTask EXCEPT !.pc = "jitter"] \in HeartbeatTasks
           /\ [pc |-> "check", first |-> TRUE, waited |-> TRUE] \in HeartbeatTasks
           /\ [pc |-> "check", first |-> FALSE, waited |-> ~h.first] \in HeartbeatTasks
           /\ [h EXCEPT !.pc = "tick", !.waited = FALSE] \in HeartbeatTasks
  BY DEF HeartbeatTasks, NoTask

(* What the end of a connection does to the types.                         *)
LEMMA DropKeepsTypes ==
    ASSUME TypeOK, DropsConnection, pc' \in {"backoff", "stopped"}, resume' \in BOOLEAN,
           ForgetSession \/ KeepSession, UNCHANGED <<gen, srvVars, log, appVars>>,
           faults' \in 0 .. MaxFaults
    PROVE  TypeOK'
  <1>1. NoSession \in 0 .. MaxConns /\ 0 \in 0 .. MaxSeq /\ 1 \in 1 .. MaxSeq + 1 /\ 0 \in Nat
    BY ConstantsAssumption DEF NoSession
  <1>2. RunnerTypes'
    BY Zenon, <1>1 DEF TypeOK, RunnerTypes, DropsConnection, ForgetSession, KeepSession, appVars
  <1>3. HeartbeatTypes'
    BY HeartbeatUpdates DEF TypeOK, HeartbeatTypes, DropsConnection, AbortsHeartbeat, Empty
  <1>4. WireTypes'
    BY Zenon, <1>1, HandshakeTypes DEF TypeOK, WireTypes, DropsConnection, Controls
  <1>5. ServerTypes'
    BY DEF TypeOK, ServerTypes, srvVars
  <1> QED BY <1>2, <1>3, <1>4, <1>5 DEF TypeOK

LEMMA ReconnectKeepsTypes ==
    ASSUME TypeOK, NEW r \in BOOLEAN, Reconnect(r), ForgetSession \/ KeepSession,
           UNCHANGED appVars, faults' \in 0 .. MaxFaults
    PROVE  TypeOK'
  BY DropKeepsTypes DEF Reconnect

LEMMA StopKeepsTypes ==
    ASSUME TypeOK, Stop, UNCHANGED appVars, faults' \in 0 .. MaxFaults
    PROVE  TypeOK'
  BY DropKeepsTypes DEF Stop, KeepSession, TypeOK, RunnerTypes

(* Faults are counted.                                                     *)
LEMMA FaultType ==
    ASSUME TypeOK, Fault \/ UNCHANGED faults
    PROVE  faults' \in 0 .. MaxFaults
  BY ConstantsAssumption DEF Fault, TypeOK, ServerTypes

(* Steps of the runner that end the connection.                            *)
LEMMA EndingKeepsTypes ==
    ASSUME TypeOK,
           \/ ConnectFails \/ ReadDispatchDropped \/ ReadReconnect \/ SleepEnds \/ StreamEnds
           \/ StreamFails \/ OutboundMissed \/ CommandShutdown
    PROVE  TypeOK'
  <1>1. Fault \/ UNCHANGED faults
    BY DEF ConnectFails, ReadDispatchDropped, ReadReconnect, SleepEnds, StreamEnds, StreamFails,
           OutboundMissed, CommandShutdown
  <1>2. faults' \in 0 .. MaxFaults /\ UNCHANGED appVars
    BY <1>1, FaultType
    DEF ConnectFails, ReadDispatchDropped, ReadReconnect, SleepEnds, StreamEnds, StreamFails,
        OutboundMissed, CommandShutdown
  <1>3. \/ Stop
        \/ \E r \in BOOLEAN : Reconnect(r) /\ (ForgetSession \/ KeepSession)
    BY DEF ConnectFails, ReadDispatchDropped, ReadReconnect, SleepEnds, StreamEnds, StreamFails,
           OutboundMissed, CommandShutdown, TypeOK, RunnerTypes
  <1> QED BY <1>2, <1>3, StopKeepsTypes, ReconnectKeepsTypes

(* Steps of the runner within a connection.                                *)
LEMMA RunnerKeepsTypes ==
    ASSUME TypeOK,
           \/ ConnectOK \/ BackoffElapses \/ ReadHello \/ ReadHeartbeatRequest \/ ReadAck
           \/ ReadInvalidSession \/ ReadClose
    PROVE  TypeOK'
  <1> USE ConstantsAssumption
  <1>1. RunnerTypes'
    <2>1. CASE ConnectOK
      <3>1. gen' \in 0 .. MaxConns
        BY SMT, <2>1 DEF ConnectOK, TypeOK, RunnerTypes
      <3> QED BY Zenon, <3>1, <2>1 DEF ConnectOK, CanResume, TypeOK, RunnerTypes, appVars
    <2>2. CASE ReadInvalidSession
      <3>1. NoSession \in 0 .. MaxConns /\ 0 \in 0 .. MaxSeq
        BY SMT DEF NoSession
      <3> QED BY Zenon, <3>1, <2>2
          DEF ReadInvalidSession, InvalidSessionResumable, ForgetSession, KeepSession, TypeOK,
              RunnerTypes, appVars
    <2>3. CASE BackoffElapses \/ ReadClose
      BY <2>3 DEF BackoffElapses, ReadClose, TypeOK, RunnerTypes, appVars
    <2>4. CASE ReadHello \/ ReadHeartbeatRequest \/ ReadAck
      BY <2>4 DEF ReadHello, ReadHeartbeatRequest, ReadAck, TypeOK, RunnerTypes, runVars, appVars
    <2> QED BY <2>1, <2>2, <2>3, <2>4
  <1>2. HeartbeatTypes'
    BY HeartbeatUpdates
    DEF ConnectOK, BackoffElapses, ReadHello, ReadHeartbeatRequest, ReadAck, ReadInvalidSession,
        ReadClose, TypeOK, HeartbeatTypes, hbVars
  <1>3. WireTypes'
    <2>1. CASE ConnectOK \/ BackoffElapses
      BY <2>1 DEF ConnectOK, BackoffElapses, TypeOK, WireTypes, wireVars
    <2>2. CASE ReadHello
      BY <2>2, HandshakeTypes DEF ReadHello, TypeOK, WireTypes, Controls
    <2>3. CASE ReadHeartbeatRequest \/ ReadAck
      BY <2>3 DEF ReadHeartbeatRequest, ReadAck, TypeOK, WireTypes, Controls
    <2>4. CASE ReadInvalidSession \/ ReadClose
      BY <2>4 DEF ReadInvalidSession, ReadClose, TypeOK, WireTypes, Controls, Ends
    <2> QED BY <2>1, <2>2, <2>3, <2>4
  <1>4. ServerTypes' /\ log' = log
    BY DEF ConnectOK, BackoffElapses, ReadHello, ReadHeartbeatRequest, ReadAck, ReadInvalidSession,
           ReadClose, TypeOK, ServerTypes, srvVars
  <1>5. pc' = "read" => gen' \in Conns
    BY DEF ConnectOK, BackoffElapses, ReadHello, ReadHeartbeatRequest, ReadAck, ReadInvalidSession,
           ReadClose, TypeOK, RunnerTypes, runVars, Conns
  <1> QED BY <1>1, <1>2, <1>3, <1>4, <1>5 DEF TypeOK

LEMMA DispatchKeepsTypes ==
    ASSUME TypeOK, ReadDispatch
    PROVE  TypeOK'
  <1> USE ConstantsAssumption
  <1>1. connSid \in Conns /\ connSid \in 0 .. MaxConns /\ NoSession \in 0 .. MaxConns /\ wireNext \in 1 .. MaxSeq
    BY DEF ReadDispatch, Dispatchable, TypeOK, WireTypes, ServerTypes, Conns, NoSession
  <1>2. RunnerTypes'
    <2>1. sessionId' \in 0 .. MaxConns /\ seq' \in 0 .. MaxSeq
      BY <1>1 DEF ReadDispatch, TypeOK, RunnerTypes
    <2> QED BY Zenon, <2>1 DEF ReadDispatch, TypeOK, RunnerTypes, appVars
  <1>3. WireTypes' /\ HeartbeatTypes' /\ ServerTypes'
    BY <1>1 DEF ReadDispatch, TypeOK, WireTypes, HeartbeatTypes, ServerTypes, hbVars, srvVars
  <1>4. log' \in [Conns -> Seq(1 .. MaxSeq)]
    BY <1>1 DEF ReadDispatch, TypeOK
  <1> QED BY <1>2, <1>3, <1>4 DEF TypeOK, ReadDispatch

LEMMA OutboundKeepsTypes ==
    ASSUME TypeOK, OutboundBeat
    PROVE  TypeOK'
  <1>1. CASE Reconnect(TRUE) /\ KeepSession
    BY <1>1, ReconnectKeepsTypes, FaultType DEF OutboundBeat
  <1>2. CASE ~(Reconnect(TRUE) /\ KeepSession)
    <2>1. /\ outbound' = [outbound EXCEPT !.beats = @ - 1] /\ outbound.beats > 0 /\ beats' = beats + 1
          /\ UNCHANGED <<pc, resume, sessionId, seq, closeCode, gen, shutdown, dropped, hb, ackReceived,
                         hs, connSid, wireNext, ctl, greeted, muted, acks, srvSeq, alive, ready, faults, log>>
      BY <1>2 DEF OutboundBeat, runVars, appVars, srvVars
    <2>2. HeartbeatTypes'
      BY <2>1 DEF TypeOK, HeartbeatTypes
    <2> QED BY <2>1, <2>2 DEF TypeOK, RunnerTypes, WireTypes, ServerTypes
  <1> QED BY <1>1, <1>2

(* Steps of heartbeat_loop and of the application.                         *)
LEMMA OtherTasksKeepTypes ==
    ASSUME TypeOK, Heartbeat \/ AppShutdown \/ AppDrops
    PROVE  TypeOK'
  <1>1. faults' \in 0 .. MaxFaults
    BY FaultType
    DEF Heartbeat, HbJitter, HbBeat, HbMissed, HbTick, AppShutdown, AppDrops
  <1>2. UNCHANGED <<pc, resume, sessionId, seq, closeCode, gen, hs, connSid, wireNext, ctl, greeted,
                    muted, beats, acks, srvSeq, alive, ready, log>>
    BY DEF Heartbeat, HbJitter, HbBeat, HbMissed, HbTick, AppShutdown, AppDrops, HbUnchanged,
           runVars, wireVars, srvVars
  <1>3. shutdown' \in BOOLEAN /\ dropped' \in BOOLEAN
    BY DEF Heartbeat, HbJitter, HbBeat, HbMissed, HbTick, AppShutdown, AppDrops, HbUnchanged,
           appVars, TypeOK, RunnerTypes
  <1>4. HeartbeatTypes'
    <2>1. CASE HbJitter \/ HbTick
      BY <2>1, HeartbeatUpdates DEF HbJitter, HbTick, TypeOK, HeartbeatTypes
    <2>2. CASE HbBeat
      <3>1. hb' \in HeartbeatTasks
        BY <2>2, HeartbeatUpdates DEF HbBeat, TypeOK, HeartbeatTypes
      <3>2. outbound' \in [beats : Nat, missed : BOOLEAN]
        BY <2>2 DEF HbBeat, TypeOK, HeartbeatTypes
      <3> QED BY <2>2, <3>1, <3>2 DEF HbBeat, HeartbeatTypes
    <2>3. CASE HbMissed
      <3>1. hb' \in HeartbeatTasks
        BY <2>3, HeartbeatUpdates DEF HbMissed, TypeOK, HeartbeatTypes
      <3> QED BY <2>3, <3>1 DEF HbMissed, TypeOK, HeartbeatTypes
    <2>4. CASE AppShutdown \/ AppDrops
      BY <2>4 DEF AppShutdown, AppDrops, TypeOK, HeartbeatTypes, hbVars
    <2> QED BY <2>1, <2>2, <2>3, <2>4 DEF Heartbeat
  <1> QED BY <1>1, <1>2, <1>3, <1>4 DEF TypeOK, RunnerTypes, WireTypes, ServerTypes

(* Steps of the server.                                                    *)
LEMMA ServerKeepsTypes ==
    ASSUME TypeOK, Server
    PROVE  TypeOK'
  <1> USE ConstantsAssumption
  <1>1. RunnerTypes' /\ HeartbeatTypes' /\ log' = log /\ UNCHANGED <<pc, gen>>
    <2>1. SrvUnchanged
      BY DEF Server, SrvHello, SrvResume, SrvAck, Mute, SrvIdentify, SrvSends, SrvClose, SrvEmit, SrvExpire
    <2> QED BY <2>1 DEF SrvUnchanged, runVars, appVars, hbVars, TypeOK, RunnerTypes, HeartbeatTypes
  <1>2. faults' \in 0 .. MaxFaults
    BY FaultType
    DEF Server, SrvHello, SrvResume, SrvAck, Mute, SrvIdentify, SrvSends, SrvClose, SrvEmit, SrvExpire
  <1>3. WireTypes'
    <2>1. CASE SrvHello
      BY <2>1 DEF SrvHello, TypeOK, WireTypes, Controls
    <2>2. CASE SrvResume
      <3>1. hs' \in Handshakes /\ connSid' \in 0 .. MaxConns
        BY <2>2, HandshakeTypes DEF SrvResume, TypeOK, WireTypes, Handshakes
      <3>2. wireNext' \in 1 .. MaxSeq + 1
        BY <2>2 DEF SrvResume, TypeOK, WireTypes, Handshakes
      <3>3. ctl' \in Controls
        BY <2>2 DEF SrvResume, TypeOK, WireTypes, Controls
      <3> QED BY <2>2, <3>1, <3>2, <3>3 DEF SrvResume, TypeOK, WireTypes
    <2>3. CASE SrvAck
      BY <2>3 DEF SrvAck, TypeOK, WireTypes
    <2>4. CASE Mute
      BY <2>4 DEF Mute, TypeOK, WireTypes
    <2>5. ASSUME NEW k \in ReadyKinds, SrvIdentify(k) PROVE WireTypes'
      BY <2>5, HandshakeTypes DEF SrvIdentify, TypeOK, WireTypes, Conns
    <2>6. ASSUME NEW f \in {"op1", "op7", "op9true", "op9false"}, SrvSends(f) PROVE WireTypes'
      BY <2>6 DEF SrvSends, TypeOK, WireTypes, Controls
    <2>7. ASSUME NEW c \in Closes, SrvClose(c) PROVE WireTypes'
      BY <2>7 DEF SrvClose, TypeOK, WireTypes, Controls, Ends
    <2>8. ASSUME NEW s \in Conns, SrvEmit(s) \/ SrvExpire(s) PROVE WireTypes'
      BY <2>8 DEF SrvEmit, SrvExpire, TypeOK, WireTypes, wireVars
    <2> QED BY <2>1, <2>2, <2>3, <2>4, <2>5, <2>6, <2>7, <2>8 DEF Server
  <1>4. srvSeq' \in [Conns -> 0 .. MaxSeq] /\ ready' \in [Conns -> {"full", "bad"}]
    <2>1. CASE SrvHello \/ SrvResume \/ SrvAck \/ Mute
      BY <2>1 DEF SrvHello, SrvResume, SrvAck, Mute, srvVars, TypeOK, ServerTypes
    <2>2. ASSUME NEW k \in ReadyKinds, SrvIdentify(k)
          PROVE  srvSeq' \in [Conns -> 0 .. MaxSeq] /\ ready' \in [Conns -> {"full", "bad"}]
      BY <2>2 DEF SrvIdentify, TypeOK, ServerTypes
    <2>3. ASSUME NEW s \in Conns, SrvEmit(s)
          PROVE  srvSeq' \in [Conns -> 0 .. MaxSeq] /\ ready' \in [Conns -> {"full", "bad"}]
      BY <2>3 DEF SrvEmit, TypeOK, ServerTypes
    <2>4. ASSUME ~SrvHello, ~SrvResume, ~SrvAck, ~Mute,
                 ~\E k \in ReadyKinds : SrvIdentify(k), ~\E s \in Conns : SrvEmit(s)
          PROVE  UNCHANGED <<srvSeq, ready>>
      BY <2>4 DEF Server, SrvSends, SrvClose, SrvExpire
    <2> QED BY <2>1, <2>2, <2>3, <2>4 DEF TypeOK, ServerTypes
  <1>5. alive' \in [Conns -> BOOLEAN]
    BY Zenon DEF Server, SrvHello, SrvResume, SrvAck, Mute, SrvIdentify, SrvSends, SrvClose, SrvEmit,
           SrvExpire, srvVars, TypeOK, ServerTypes
  <1> QED BY <1>1, <1>2, <1>3, <1>4, <1>5 DEF TypeOK, ServerTypes

(* Every step keeps the types.                                             *)
LEMMA StepKeepsTypes ==
    ASSUME TypeOK, [Next]_vars
    PROVE  TypeOK'
  <1>1. CASE UNCHANGED vars \/ Stopped
    BY <1>1 DEF vars, Stopped, TypeOK, RunnerTypes, HeartbeatTypes, WireTypes, ServerTypes
  <1> QED BY <1>1, EndingKeepsTypes, RunnerKeepsTypes, DispatchKeepsTypes, OutboundKeepsTypes,
             OtherTasksKeepTypes, ServerKeepsTypes DEF Next, Runner

(* Every variable of the runner, its heartbeat task, the connection and    *)
(* the server keeps its type, for all bounds.                              *)
THEOREM TypeCorrect == Spec => []TypeOK
  <1>1. Init => TypeOK
    <2> SUFFICES ASSUME Init PROVE TypeOK
      OBVIOUS
    <2>1. /\ NoSession \in 0 .. MaxConns /\ 0 \in 0 .. MaxConns /\ 0 \in 0 .. MaxSeq
          /\ 1 \in 1 .. MaxSeq + 1 /\ 0 \in Nat
      BY ConstantsAssumption DEF NoSession
    <2>2. RunnerTypes
      BY Zenon, <2>1 DEF Init, RunnerTypes
    <2>3. WireTypes
      BY Zenon, <2>1, <2>2, HandshakeTypes DEF Init, WireTypes, Controls
    <2>4. HeartbeatTypes
      BY DEF Init, HeartbeatTypes, HeartbeatTasks, NoTask, Empty
    <2>5. ServerTypes
      BY ConstantsAssumption DEF Init, ServerTypes
    <2>6. log \in [Conns -> Seq(1 .. MaxSeq)] /\ pc # "read"
      BY DEF Init
    <2> QED BY <2>2, <2>3, <2>4, <2>5, <2>6 DEF TypeOK
  <1> QED BY <1>1, StepKeepsTypes, PTL DEF Spec

-----------------------------------------------------------------------------
(* Delivery.  The invariant ties four numbers together: how many events    *)
(* the channel was given, the stored seq, the seq a RESUME carries and the *)
(* next number on the wire.                                                *)

(* Heartbeats, control frames, closes and the death of sessions leave      *)
(* those numbers alone.                                                    *)
LEMMA QuietKeepsDelivery ==
    ASSUME DeliveryInv,
           UNCHANGED <<pc, resume, sessionId, seq, gen, connSid, wireNext, hs, greeted, srvSeq, log>>,
           \A s \in Conns : alive'[s] => alive[s],
           pc \notin {"read", "sleep"} => UNCHANGED <<ctl, closeCode>>,
           ctl' = "hello" => ctl = "hello",
           hs.kind # "none" => ctl' \in {"none"} \cup Ends
    PROVE  DeliveryInv'
  BY DEF DeliveryInv, LogsArePrefixes, WireFollowsLog, SeqFollowsLog, ResumeIsPossible,
         HandshakeIsCurrent, HelloComesFirst, SessionsAreFresh, NothingOnTheWire

(* The end of a connection forgets the wire; what is stored still agrees   *)
(* with what was delivered, or is forgotten too.                           *)
LEMMA DropKeepsDelivery ==
    ASSUME DeliveryInv, DropsConnection, pc' \in {"backoff", "stopped"},
           ForgetSession \/ KeepSession, UNCHANGED <<gen, srvVars, log>>,
           ~resume' => sessionId' = NoSession \/ pc' = "stopped"
    PROVE  DeliveryInv'
  <1>1. /\ hs'.kind = "none" /\ connSid' = NoSession /\ ctl' = "none" /\ closeCode' = "none" /\ ~greeted'
        /\ UNCHANGED <<gen, srvSeq, alive, log>>
    BY DEF DropsConnection, NoHandshake, srvVars
  <1>2. /\ LogsArePrefixes' /\ WireFollowsLog' /\ HandshakeIsCurrent' /\ HelloComesFirst'
        /\ SessionsAreFresh' /\ NothingOnTheWire'
    BY <1>1 DEF DeliveryInv, LogsArePrefixes, WireFollowsLog, HandshakeIsCurrent, HelloComesFirst,
                SessionsAreFresh, NothingOnTheWire
  <1>3. SeqFollowsLog'
    BY <1>1 DEF DeliveryInv, SeqFollowsLog, ForgetSession, KeepSession
  <1>4. ResumeIsPossible'
    BY <1>1 DEF ResumeIsPossible
  <1> QED BY <1>2, <1>3, <1>4 DEF DeliveryInv

(* A dispatch extends the log of the attached session by its successor.    *)
LEMMA DispatchKeepsDelivery ==
    ASSUME TypeOK, DeliveryInv, ReadDispatch
    PROVE  DeliveryInv'
  <1>1. /\ connSid \in Conns /\ wireNext = Len(log[connSid]) + 1
        /\ wireNext \in 1 .. MaxSeq /\ wireNext <= srvSeq[connSid]
        /\ log \in [Conns -> Seq(1 .. MaxSeq)] /\ pc = "read" /\ connSid # NoSession
        /\ seq' = wireNext /\ wireNext' = wireNext + 1
        /\ log' = [log EXCEPT ![connSid] = Append(@, wireNext)]
        /\ UNCHANGED <<pc, resume, gen, hs, connSid, ctl, closeCode, greeted, srvSeq, alive>>
    BY ConstantsAssumption
    DEF ReadDispatch, Dispatchable, Reading, TypeOK, WireTypes, ServerTypes, DeliveryInv,
        WireFollowsLog, Conns, NoSession, srvVars
  <1>2. /\ Len(log'[connSid]) = wireNext /\ log'[connSid] # <<>>
        /\ log'[connSid] = [i \in 1 .. wireNext |-> i]
        /\ \A s \in Conns : s # connSid => log'[s] = log[s]
    <2>1. log[connSid] = [i \in 1 .. Len(log[connSid]) |-> i]
      BY <1>1 DEF DeliveryInv, LogsArePrefixes
    <2>2. log'[connSid] = Append(log[connSid], wireNext) /\ log[connSid] \in Seq(1 .. MaxSeq)
      BY <1>1
    <2> QED BY <2>1, <2>2, <1>1
  <1>3. LogsArePrefixes' /\ WireFollowsLog'
    BY <1>1, <1>2 DEF DeliveryInv, LogsArePrefixes, WireFollowsLog
  <1>4. HandshakeIsCurrent' /\ HelloComesFirst' /\ SessionsAreFresh' /\ NothingOnTheWire'
    BY <1>1 DEF DeliveryInv, HandshakeIsCurrent, HelloComesFirst, SessionsAreFresh, NothingOnTheWire
  <1>5. sessionId' # NoSession => sessionId' = connSid
    BY <1>1 DEF ReadDispatch, DeliveryInv, ResumeIsPossible
  <1>6. SeqFollowsLog'
    BY <1>1, <1>2, <1>5 DEF SeqFollowsLog
  <1>7. resume => sessionId' # NoSession
    <2>1. CASE wireNext = 1
      <3>1. log[connSid] = <<>>
        BY <1>1, <2>1
      <3> QED BY <1>1, <3>1 DEF DeliveryInv, ResumeIsPossible
    <2>2. CASE wireNext # 1
      BY <1>1, <2>2 DEF ReadDispatch, DeliveryInv, ResumeIsPossible
    <2> QED BY <2>1, <2>2
  <1>8. ResumeIsPossible'
    BY <1>1, <1>2, <1>5, <1>7 DEF ResumeIsPossible
  <1> QED BY <1>3, <1>4, <1>6, <1>8 DEF DeliveryInv

(* IDENTIFY starts a session nobody has heard of.                          *)
LEMMA IdentifyKeepsDelivery ==
    ASSUME TypeOK, DeliveryInv, NEW k \in ReadyKinds, SrvIdentify(k)
    PROVE  DeliveryInv'
  <1>1. /\ gen \in Conns /\ pc = "read" /\ connSid = NoSession /\ ~resume /\ greeted /\ ctl # "hello"
        /\ srvSeq[gen] = 0 /\ sessionId = NoSession /\ gen # NoSession
    BY ConstantsAssumption
    DEF SrvIdentify, TypeOK, DeliveryInv, HandshakeIsCurrent, HelloComesFirst, ResumeIsPossible,
        SessionsAreFresh, Conns, NoSession
  <1>2. log[gen] = <<>> /\ Len(log[gen]) = 0
    BY <1>1 DEF DeliveryInv, LogsArePrefixes, TypeOK
  <1>3. /\ hs'.kind = "none" /\ connSid' = gen /\ wireNext' = 1
        /\ srvSeq' = [srvSeq EXCEPT ![gen] = 1] /\ alive' = [alive EXCEPT ![gen] = TRUE]
        /\ UNCHANGED <<pc, resume, sessionId, seq, gen, closeCode, ctl, greeted, log>>
    BY DEF SrvIdentify, SrvUnchanged, runVars, NoHandshake
  <1>4. /\ srvSeq'[gen] = 1
        /\ \A s \in Conns : s # gen => srvSeq'[s] = srvSeq[s] /\ alive'[s] = alive[s]
    BY <1>1, <1>3 DEF TypeOK, ServerTypes
  <1>5. LogsArePrefixes' /\ SessionsAreFresh'
    BY <1>1, <1>2, <1>3, <1>4
    DEF DeliveryInv, LogsArePrefixes, SessionsAreFresh, TypeOK, RunnerTypes, Conns
  <1>6. /\ WireFollowsLog' /\ SeqFollowsLog' /\ ResumeIsPossible' /\ HandshakeIsCurrent'
        /\ HelloComesFirst' /\ NothingOnTheWire'
    BY <1>1, <1>2, <1>3
    DEF WireFollowsLog, SeqFollowsLog, ResumeIsPossible, HandshakeIsCurrent, HelloComesFirst,
        NothingOnTheWire
  <1> QED BY <1>5, <1>6 DEF DeliveryInv

(* RESUME continues the stored session behind the stored number.           *)
LEMMA ResumeKeepsDelivery ==
    ASSUME TypeOK, DeliveryInv, SrvResume
    PROVE  DeliveryInv'
  <1>1. /\ pc = "read" /\ connSid = NoSession /\ resume /\ hs.sid = sessionId /\ hs.seq = seq
        /\ sessionId # NoSession /\ sessionId \in Conns /\ greeted /\ ctl # "hello"
        /\ log[sessionId] # <<>> /\ seq = Len(log[sessionId])
    BY ConstantsAssumption
    DEF SrvResume, TypeOK, RunnerTypes, DeliveryInv, HandshakeIsCurrent, HelloComesFirst, ResumeIsPossible,
        SeqFollowsLog, Conns, NoSession
  <1>2. /\ hs'.kind = "none"
        /\ UNCHANGED <<pc, resume, sessionId, seq, gen, closeCode, greeted, srvSeq, log>>
        /\ \/ connSid' = sessionId /\ wireNext' = seq + 1
           \/ UNCHANGED <<connSid, wireNext>>
        /\ ctl' # "hello"
    BY <1>1 DEF SrvResume, SrvUnchanged, runVars, NoHandshake
  <1>3. \A s \in Conns : alive'[s] => alive[s]
    BY DEF SrvResume, TypeOK, ServerTypes
  <1>4. LogsArePrefixes' /\ SessionsAreFresh' /\ SeqFollowsLog' /\ NothingOnTheWire'
    BY <1>1, <1>2, <1>3 DEF DeliveryInv, LogsArePrefixes, SessionsAreFresh, SeqFollowsLog, NothingOnTheWire
  <1>5. WireFollowsLog' /\ ResumeIsPossible' /\ HandshakeIsCurrent' /\ HelloComesFirst'
    BY <1>1, <1>2 DEF DeliveryInv, WireFollowsLog, ResumeIsPossible, HandshakeIsCurrent, HelloComesFirst
  <1> QED BY <1>4, <1>5 DEF DeliveryInv

(* Steps of the runner that end the connection.                            *)
LEMMA EndingKeepsDelivery ==
    ASSUME TypeOK, DeliveryInv,
           \/ ConnectFails \/ ReadDispatchDropped \/ ReadReconnect \/ SleepEnds \/ StreamEnds
           \/ StreamFails \/ OutboundMissed \/ CommandShutdown
    PROVE  DeliveryInv'
  <1>1. CASE Stop
    BY <1>1, DropKeepsDelivery DEF Stop, KeepSession
  <1>2. CASE Reconnect(TRUE) /\ KeepSession
    BY <1>2, DropKeepsDelivery DEF Reconnect
  <1>3. CASE Reconnect(FALSE) /\ ForgetSession
    BY <1>3, DropKeepsDelivery DEF Reconnect, ForgetSession
  <1>4. CASE SleepEnds
    BY <1>4, DropKeepsDelivery DEF SleepEnds, Reconnect, KeepSession, DeliveryInv, ResumeIsPossible
  <1> QED BY <1>1, <1>2, <1>3, <1>4
      DEF ConnectFails, ReadDispatchDropped, ReadReconnect, StreamEnds, StreamFails, OutboundMissed,
          CommandShutdown

(* Every step keeps the delivery invariant.                                *)
LEMMA StepKeepsDelivery ==
    ASSUME TypeOK, DeliveryInv, [Next]_vars
    PROVE  DeliveryInv'
  <1>1. CASE ConnectOK
    <2>1. /\ pc = "dial" /\ pc' = "read" /\ gen' = gen + 1 /\ resume' = CanResume
          /\ UNCHANGED <<sessionId, seq, closeCode, hs, connSid, wireNext, ctl, greeted, srvSeq, alive, log>>
      BY <1>1 DEF ConnectOK, wireVars, srvVars
    <2>2. connSid = NoSession /\ hs.kind = "none" /\ ctl = "none"
      BY <2>1 DEF DeliveryInv, NothingOnTheWire
    <2>3. SessionsAreFresh'
      BY <2>1 DEF DeliveryInv, SessionsAreFresh, TypeOK, RunnerTypes, Conns
    <2>4. ResumeIsPossible'
      BY <2>1, <2>2 DEF DeliveryInv, ResumeIsPossible, CanResume
    <2> QED BY <2>1, <2>2, <2>3, <2>4
        DEF DeliveryInv, LogsArePrefixes, WireFollowsLog, SeqFollowsLog, HandshakeIsCurrent,
            HelloComesFirst, NothingOnTheWire
  <1>2. CASE BackoffElapses
    BY <1>2 DEF BackoffElapses, wireVars, srvVars, DeliveryInv, LogsArePrefixes, WireFollowsLog,
         SeqFollowsLog, ResumeIsPossible, HandshakeIsCurrent, HelloComesFirst, SessionsAreFresh,
         NothingOnTheWire
  <1>3. CASE ReadHello
    <2>1. /\ pc = "read" /\ connSid = NoSession /\ hs.kind = "none" /\ greeted /\ ctl' = "none"
          /\ hs' = (IF resume THEN resume_payload ELSE identify_payload)
          /\ UNCHANGED <<pc, resume, sessionId, seq, closeCode, gen, connSid, wireNext, greeted,
                         srvSeq, alive, log>>
      BY <1>3 DEF ReadHello, Reading, DeliveryInv, HelloComesFirst, runVars, srvVars
    <2>2. HandshakeIsCurrent'
      BY <2>1 DEF HandshakeIsCurrent, resume_payload, identify_payload
    <2> QED BY <2>1, <2>2
        DEF DeliveryInv, LogsArePrefixes, WireFollowsLog, SeqFollowsLog, ResumeIsPossible,
            HelloComesFirst, SessionsAreFresh, NothingOnTheWire
  <1>4. CASE ReadInvalidSession
    <2>1. /\ pc = "read" /\ pc' = "sleep" /\ hs.kind = "none" /\ ctl' = "none"
          /\ resume' = InvalidSessionResumable
          /\ IF InvalidSessionResumable THEN KeepSession ELSE ForgetSession
          /\ UNCHANGED <<closeCode, gen, hs, connSid, wireNext, greeted, srvSeq, alive, log>>
      <3>1. ctl \in {"op9true", "op9false"} /\ ctl \notin {"none"} \cup Ends
        BY <1>4 DEF ReadInvalidSession, Ends, Closes, Codes
      <3> QED BY <1>4, <3>1
          DEF ReadInvalidSession, Reading, DeliveryInv, HandshakeIsCurrent, HelloComesFirst,
              NothingOnTheWire, srvVars
    <2>2. SeqFollowsLog' /\ ResumeIsPossible'
      BY <2>1 DEF DeliveryInv, SeqFollowsLog, ResumeIsPossible, KeepSession, ForgetSession
    <2>3. LogsArePrefixes' /\ WireFollowsLog' /\ SessionsAreFresh'
      BY <2>1 DEF DeliveryInv, LogsArePrefixes, WireFollowsLog, SessionsAreFresh
    <2>4. HandshakeIsCurrent' /\ HelloComesFirst' /\ NothingOnTheWire'
      BY <2>1 DEF DeliveryInv, HandshakeIsCurrent, HelloComesFirst, NothingOnTheWire
    <2> QED BY <2>2, <2>3, <2>4 DEF DeliveryInv
  <1>5. CASE ReadHeartbeatRequest \/ ReadAck
    BY <1>5, QuietKeepsDelivery DEF ReadHeartbeatRequest, ReadAck, Reading, runVars, srvVars, DeliveryInv, HandshakeIsCurrent
  <1>6. CASE ReadClose
    BY <1>6, QuietKeepsDelivery DEF ReadClose, Reading, srvVars, Ends
  <1>7. CASE OutboundBeat
    <2>1. CASE Reconnect(TRUE) /\ KeepSession
      BY <2>1, DropKeepsDelivery DEF Reconnect
    <2>2. CASE ~(Reconnect(TRUE) /\ KeepSession)
      BY <1>7, <2>2, QuietKeepsDelivery DEF OutboundBeat, runVars, srvVars, DeliveryInv, HandshakeIsCurrent
    <2> QED BY <2>1, <2>2
  <1>8. CASE Heartbeat
    BY <1>8, QuietKeepsDelivery
    DEF Heartbeat, HbJitter, HbBeat, HbMissed, HbTick, HbUnchanged, runVars, wireVars, srvVars,
        DeliveryInv, HandshakeIsCurrent
  <1>9. CASE AppShutdown \/ AppDrops
    BY <1>9, QuietKeepsDelivery
    DEF AppShutdown, AppDrops, runVars, wireVars, srvVars, DeliveryInv, HandshakeIsCurrent
  <1>10. CASE SrvHello
    <2>1. /\ pc = "read" /\ ~greeted /\ greeted' /\ ctl' = "hello"
          /\ UNCHANGED <<pc, resume, sessionId, seq, closeCode, gen, hs, connSid, wireNext, srvSeq, alive, log>>
      BY <1>10 DEF SrvHello, SrvUnchanged, runVars, srvVars
    <2> QED BY <2>1
        DEF DeliveryInv, LogsArePrefixes, WireFollowsLog, SeqFollowsLog, ResumeIsPossible,
            HandshakeIsCurrent, HelloComesFirst, SessionsAreFresh, NothingOnTheWire
  <1>11. CASE SrvAck \/ Mute
    BY <1>11, QuietKeepsDelivery
    DEF SrvAck, Mute, SrvUnchanged, runVars, srvVars, DeliveryInv, HandshakeIsCurrent
  <1>12. ASSUME NEW f \in {"op1", "op7", "op9true", "op9false"}, SrvSends(f) PROVE DeliveryInv'
    <2>1. \A s \in Conns : alive'[s] => alive[s]
      BY Zenon, <1>12 DEF SrvSends, TypeOK, ServerTypes
    <2> QED BY <1>12, <2>1, QuietKeepsDelivery
        DEF SrvSends, SrvUnchanged, runVars, DeliveryInv, HandshakeIsCurrent
  <1>13. ASSUME NEW c \in Closes, SrvClose(c) PROVE DeliveryInv'
    <2>1. \A s \in Conns : alive'[s] => alive[s]
      BY Zenon, <1>13 DEF SrvClose, TypeOK, ServerTypes
    <2> QED BY <1>13, <2>1, QuietKeepsDelivery DEF SrvClose, SrvUnchanged, runVars, Ends, Closes, Codes
  <1>14. ASSUME NEW s \in Conns, SrvExpire(s) PROVE DeliveryInv'
    BY <1>14, QuietKeepsDelivery
    DEF SrvExpire, SrvUnchanged, runVars, wireVars, TypeOK, ServerTypes, DeliveryInv, HandshakeIsCurrent
  <1>15. ASSUME NEW s \in Conns, SrvEmit(s) PROVE DeliveryInv'
    <2>1. /\ srvSeq' = [srvSeq EXCEPT ![s] = @ + 1] /\ srvSeq[s] # 0
          /\ UNCHANGED <<pc, resume, sessionId, seq, closeCode, gen, connSid, wireNext, hs, ctl,
                         greeted, alive, log>>
      BY <1>15 DEF SrvEmit, SrvUnchanged, runVars, wireVars, DeliveryInv, SessionsAreFresh
    <2>2. LogsArePrefixes' /\ SessionsAreFresh'
      BY <2>1 DEF DeliveryInv, LogsArePrefixes, SessionsAreFresh, TypeOK, ServerTypes
    <2> QED BY <2>1, <2>2
        DEF DeliveryInv, WireFollowsLog, SeqFollowsLog, ResumeIsPossible, HandshakeIsCurrent,
            HelloComesFirst, NothingOnTheWire
  <1>16. CASE UNCHANGED vars \/ Stopped
    BY <1>16, QuietKeepsDelivery DEF vars, Stopped, DeliveryInv, HandshakeIsCurrent
  <1> QED BY <1>1, <1>2, <1>3, <1>4, <1>5, <1>6, <1>7, <1>8, <1>9, <1>10, <1>11, <1>12, <1>13, <1>14,
             <1>15, <1>16, EndingKeepsDelivery, DispatchKeepsDelivery, IdentifyKeepsDelivery,
             ResumeKeepsDelivery DEF Next, Runner, Server

(* The events channel is given the events of every session once and in     *)
(* order, for any number of reconnects: RESUME always continues where the  *)
(* runner stopped.                                                         *)
THEOREM DeliveryInvariant == Spec => []DeliveryInv
  <1>1. Init => DeliveryInv
    BY DEF Init, DeliveryInv, LogsArePrefixes, WireFollowsLog, SeqFollowsLog, ResumeIsPossible,
           HandshakeIsCurrent, HelloComesFirst, SessionsAreFresh, NothingOnTheWire, NoHandshake, NoSession
  <1> QED BY <1>1, StepKeepsDelivery, TypeCorrect, PTL DEF Spec

-----------------------------------------------------------------------------
(* The client implements EventStream: every step either numbers an event,  *)
(* hands the next one over, or is invisible.                               *)
THEOREM Implements == Spec => ImplementsEventStream
  <1>1. Init => ES!Init
    BY DEF Init, ES!Init
  <1>2. ASSUME TypeOK, DeliveryInv, [Next]_vars
        PROVE  [ES!Next]_<<srvSeq, log>>
    <2>1. CASE ReadDispatch
      <3>1. connSid \in Conns /\ wireNext = Len(log[connSid]) + 1 /\ wireNext <= srvSeq[connSid]
        BY <1>2, <2>1, ConstantsAssumption
        DEF ReadDispatch, Dispatchable, TypeOK, WireTypes, DeliveryInv, WireFollowsLog, Conns, NoSession
      <3>2. Len(log[connSid]) \in Nat /\ srvSeq[connSid] \in Nat
        BY <1>2, <3>1 DEF TypeOK, ServerTypes
      <3>3. ES!Deliver(connSid)
        BY <1>2, <2>1, <3>1, <3>2 DEF ReadDispatch, srvVars, ES!Deliver
      <3> QED BY <3>1, <3>3 DEF ES!Next
    <2>2. ASSUME NEW k \in ReadyKinds, SrvIdentify(k) PROVE [ES!Next]_<<srvSeq, log>>
      <3>1. gen \in Conns /\ srvSeq[gen] = 0
        BY <1>2, <2>2 DEF SrvIdentify, TypeOK, DeliveryInv, HandshakeIsCurrent, SessionsAreFresh
      <3>2. ES!Emit(gen)
        BY <2>2, <3>1, <1>2 DEF SrvIdentify, SrvUnchanged, ES!Emit, TypeOK, ServerTypes
      <3> QED BY <3>1, <3>2 DEF ES!Next
    <2>3. ASSUME NEW s \in Conns, SrvEmit(s) PROVE [ES!Next]_<<srvSeq, log>>
      BY <2>3 DEF SrvEmit, SrvUnchanged, ES!Emit, ES!Next
    <2>4. CASE ConnectOK \/ ConnectFails \/ BackoffElapses \/ SleepEnds \/ ReadHello
               \/ ReadDispatchDropped \/ ReadHeartbeatRequest \/ ReadAck \/ ReadReconnect
      BY <2>4 DEF ConnectOK, ConnectFails, BackoffElapses, SleepEnds, ReadHello, ReadDispatchDropped,
                  ReadHeartbeatRequest, ReadAck, ReadReconnect, Reconnect, Stop, srvVars
    <2>5. CASE ReadInvalidSession \/ ReadClose \/ StreamEnds \/ StreamFails \/ OutboundBeat
               \/ OutboundMissed \/ CommandShutdown
      BY <2>5 DEF ReadInvalidSession, ReadClose, StreamEnds, StreamFails, OutboundBeat,
                  OutboundMissed, CommandShutdown, Reconnect, Stop, srvVars
    <2>6. CASE Heartbeat \/ AppShutdown \/ AppDrops \/ Stopped \/ UNCHANGED vars
      BY <2>6 DEF Heartbeat, HbJitter, HbBeat, HbMissed, HbTick, HbUnchanged, AppShutdown, AppDrops,
                  Stopped, vars, srvVars
    <2>7. CASE SrvHello \/ SrvResume \/ SrvAck \/ Mute
               \/ (\E f \in {"op1", "op7", "op9true", "op9false"} : SrvSends(f))
               \/ (\E c \in Closes : SrvClose(c)) \/ (\E s \in Conns : SrvExpire(s))
      BY <2>7 DEF SrvHello, SrvResume, SrvAck, Mute, SrvSends, SrvClose, SrvExpire, SrvUnchanged, srvVars
    <2> QED BY <1>2, <2>1, <2>2, <2>3, <2>4, <2>5, <2>6, <2>7 DEF Next, Runner, Server
  <1>3. Spec => [][ES!Next]_<<srvSeq, log>>
    BY <1>2, TypeCorrect, DeliveryInvariant, PTL DEF Spec
  <1> QED BY <1>1, <1>3, PTL DEF Spec, ImplementsEventStream, ES!Spec, ES!vars

-----------------------------------------------------------------------------
(* Sessions.  A step that only takes sessions away, and leaves a runner    *)
(* that forgets nothing, keeps KeptInv.                                    *)
LEMMA QuietKeepsSessions ==
    ASSUME KeptInv,
           UNCHANGED <<sessionId, connSid, ready, log>>,
           pc' = "read" => pc = "read",
           \A s \in Conns : alive'[s] => alive[s],
           ctl' \in {"op9false", "reidentify"} => ctl' = ctl,
           UNCHANGED closeCode,
           closeCode # "none" => ctl' = "eof"
    PROVE  KeptInv'
  BY DEF KeptInv

(* When the runner forgets its session the server has forgotten it before. *)
LEMMA ForgettingIsLate ==
    ASSUME KeptInv, pc = "read", ctl = "op9false" \/ closeCode = "reidentify", ForgetSession,
           UNCHANGED <<alive, ready, log>>, pc' # "read", closeCode' # "none" => ctl' = "eof"
    PROVE  KeptInv'
  BY DEF KeptInv

(* The end of a connection keeps the session or forgets a dead one.        *)
LEMMA EndingKeepsSessions ==
    ASSUME KeptInv,
           \/ ConnectFails \/ ReadDispatchDropped \/ ReadReconnect \/ SleepEnds \/ StreamEnds
           \/ StreamFails \/ OutboundMissed \/ CommandShutdown \/ (Reconnect(TRUE) /\ KeepSession)
    PROVE  KeptInv'
  <1>1. ASSUME DropsConnection, pc' # "read", UNCHANGED <<sessionId, alive, ready, log>>
        PROVE  KeptInv'
    BY <1>1 DEF DropsConnection, KeptInv
  <1>2. CASE Stop
    BY <1>1, <1>2 DEF Stop, srvVars
  <1>3. ASSUME NEW r, Reconnect(r), KeepSession PROVE KeptInv'
    BY <1>1, <1>3 DEF Reconnect, KeepSession, srvVars
  <1>4. CASE StreamEnds /\ closeCode = "reidentify" /\ Reconnect(FALSE) /\ ForgetSession
    BY <1>4, ForgettingIsLate DEF StreamEnds, Reconnect, DropsConnection, srvVars
  <1> QED BY <1>2, <1>3, <1>4
      DEF ConnectFails, ReadDispatchDropped, ReadReconnect, SleepEnds, StreamEnds, StreamFails,
          OutboundMissed, CommandShutdown

(* Every step keeps the session invariant.                                 *)
LEMMA StepKeepsSessions ==
    ASSUME TypeOK, DeliveryInv, KeptInv, [Next]_vars
    PROVE  KeptInv'
  <1>1. CASE ConnectOK
    BY <1>1 DEF ConnectOK, wireVars, srvVars, KeptInv, DeliveryInv, NothingOnTheWire
  <1>2. CASE BackoffElapses
    BY <1>2, QuietKeepsSessions DEF BackoffElapses, wireVars, srvVars, KeptInv
  <1>3. CASE ReadHello \/ ReadHeartbeatRequest \/ ReadAck
    BY <1>3, QuietKeepsSessions DEF ReadHello, ReadHeartbeatRequest, ReadAck, Reading, runVars, srvVars
  <1>4. CASE ReadInvalidSession
    <2>1. CASE ctl = "op9false"
      BY <1>4, <2>1, ForgettingIsLate
      DEF ReadInvalidSession, Reading, InvalidSessionResumable, srvVars
    <2>2. CASE ctl # "op9false"
      BY <1>4, <2>2, QuietKeepsSessions
      DEF ReadInvalidSession, Reading, InvalidSessionResumable, KeepSession, srvVars
    <2> QED BY <2>1, <2>2
  <1>5. CASE ReadClose
    BY <1>5 DEF ReadClose, Reading, srvVars, KeptInv
  <1>6. CASE OutboundBeat
    <2>1. CASE ~(Reconnect(TRUE) /\ KeepSession)
      BY <1>6, <2>1, QuietKeepsSessions DEF OutboundBeat, runVars, srvVars
    <2> QED BY <2>1, EndingKeepsSessions
  <1>7. CASE Heartbeat \/ AppShutdown \/ AppDrops \/ Stopped \/ UNCHANGED vars
    <2>1. UNCHANGED <<pc, sessionId, connSid, ready, log, alive, ctl, closeCode>>
      BY <1>7 DEF Heartbeat, HbJitter, HbBeat, HbMissed, HbTick, HbUnchanged, AppShutdown, AppDrops,
                  Stopped, vars, runVars, wireVars, srvVars
    <2> QED BY <2>1, QuietKeepsSessions DEF KeptInv
  <1>8. CASE SrvHello \/ SrvAck \/ Mute
    BY <1>8, QuietKeepsSessions DEF SrvHello, SrvAck, Mute, SrvUnchanged, runVars, srvVars, KeptInv
  <1>9. ASSUME NEW s \in Conns, SrvEmit(s) \/ SrvExpire(s) PROVE KeptInv'
    <2>1. /\ UNCHANGED <<pc, sessionId, connSid, ready, log, ctl, closeCode>>
          /\ \A t \in Conns : alive'[t] => alive[t]
      BY <1>9 DEF SrvEmit, SrvExpire, SrvUnchanged, runVars, wireVars, TypeOK, ServerTypes
    <2> QED BY <2>1, QuietKeepsSessions DEF KeptInv
  <1>10. CASE ReadDispatch
    <2>1. /\ connSid \in Conns /\ connSid # NoSession /\ wireNext = Len(log[connSid]) + 1
          /\ log[connSid] \in Seq(1 .. MaxSeq)
          /\ log' = [log EXCEPT ![connSid] = Append(@, wireNext)]
          /\ UNCHANGED <<pc, connSid, ctl, closeCode, alive, ready>>
      BY <1>10, ConstantsAssumption
      DEF ReadDispatch, Dispatchable, TypeOK, WireTypes, DeliveryInv, WireFollowsLog, Conns, NoSession, srvVars
    <2>2. sessionId # NoSession => sessionId = connSid
      BY <2>1 DEF DeliveryInv, ResumeIsPossible
    <2>3. sessionId' \in {sessionId, connSid, NoSession}
      BY <1>10 DEF ReadDispatch
    <2>4. ASSUME NEW s \in Conns, alive'[s], log'[s] # <<>>, ready'[s] = "full"
          PROVE  sessionId' = s
      <3>1. CASE s = connSid /\ wireNext = 1
        BY <1>10, <2>1, <2>4, <3>1 DEF ReadDispatch
      <3>2. CASE s = connSid /\ wireNext # 1
        <4>1. log[s] # <<>>
          BY <2>1, <3>2
        <4> QED BY <1>10, <2>1, <2>4, <3>2, <4>1 DEF ReadDispatch, KeptInv
      <3>3. CASE s # connSid
        <4>1. sessionId = s
          BY <2>1, <2>4, <3>3 DEF KeptInv, TypeOK
        <4> QED BY <2>2, <3>3, <4>1, ConstantsAssumption DEF Conns, NoSession
      <3> QED BY <3>1, <3>2, <3>3
    <2>5. \A s \in Conns : s = sessionId' => s \in {sessionId, connSid}
      BY <2>3, ConstantsAssumption DEF Conns, NoSession
    <2> QED BY <2>1, <2>4, <2>5 DEF KeptInv
  <1>11. ASSUME NEW k \in ReadyKinds, SrvIdentify(k) PROVE KeptInv'
    <2>1. gen \in Conns /\ log[gen] = <<>> /\ ctl \in {"none", "op1"}
      BY <1>11
      DEF SrvIdentify, TypeOK, ServerTypes, DeliveryInv, HandshakeIsCurrent, SessionsAreFresh, LogsArePrefixes
    <2>2. /\ alive' = [alive EXCEPT ![gen] = TRUE] /\ ready' = [ready EXCEPT ![gen] = k]
          /\ UNCHANGED <<pc, sessionId, ctl, closeCode, log>>
      BY <1>11 DEF SrvIdentify, SrvUnchanged, runVars
    <2>3. closeCode = "none"
      BY <2>1 DEF KeptInv
    <2> QED BY <2>1, <2>2, <2>3 DEF KeptInv, TypeOK, ServerTypes
  <1>12. CASE SrvResume
    <2>1. /\ hs.sid = sessionId /\ sessionId \in Conns /\ connSid = NoSession /\ ctl \in {"none", "op1"}
          /\ UNCHANGED <<pc, sessionId, closeCode, ready, log>>
      BY <1>12, ConstantsAssumption
      DEF SrvResume, SrvUnchanged, runVars, DeliveryInv, HandshakeIsCurrent, ResumeIsPossible,
          TypeOK, RunnerTypes, Conns, NoSession
    <2>2. closeCode = "none"
      BY <2>1 DEF KeptInv
    <2>3. \A s \in Conns : alive'[s] => alive[s]
      BY <1>12 DEF SrvResume, TypeOK, ServerTypes
    <2>4. \/ UNCHANGED ctl
          \/ connSid' = NoSession /\ ~alive'[sessionId]
      BY <1>12, <2>1 DEF SrvResume, TypeOK, ServerTypes
    <2> QED BY <2>1, <2>2, <2>3, <2>4 DEF KeptInv, Conns, NoSession
  <1>13. ASSUME NEW f \in {"op1", "op7", "op9true", "op9false"}, SrvSends(f) PROVE KeptInv'
    <2>1. /\ UNCHANGED <<pc, sessionId, connSid, closeCode, ready, log>> /\ connSid # NoSession
          /\ ctl = "none" /\ ctl' = f
      BY <1>13 DEF SrvSends, SrvUnchanged, runVars
    <2>2. /\ \A s \in Conns : alive'[s] => alive[s]
          /\ f = "op9false" => \A s \in Conns : s = connSid => ~alive'[s]
      BY Zenon, <1>13 DEF SrvSends, TypeOK, ServerTypes
    <2>3. sessionId # NoSession => sessionId = connSid
      BY <2>1 DEF DeliveryInv, ResumeIsPossible
    <2>4. \A s \in Conns : s = sessionId => s = connSid
      BY <2>3, ConstantsAssumption DEF Conns, NoSession
    <2>5. closeCode = "none"
      BY <2>1 DEF KeptInv
    <2> QED BY <2>1, <2>2, <2>4, <2>5 DEF KeptInv
  <1>14. ASSUME NEW c \in Closes, SrvClose(c) PROVE KeptInv'
    <2>1. /\ UNCHANGED <<pc, sessionId, connSid, closeCode, ready, log>>
          /\ ctl' = c /\ c # "op9false" /\ ctl # "eof"
      BY <1>14 DEF SrvClose, SrvUnchanged, runVars, Closes, Codes, Ends
    <2>2. /\ \A s \in Conns : alive'[s] => alive[s]
          /\ c = "reidentify" => \A s \in Conns : s \in {connSid, sessionId} => ~alive'[s]
      BY Zenon, <1>14 DEF SrvClose, TypeOK, ServerTypes
    <2>3. closeCode = "none"
      BY <2>1 DEF KeptInv
    <2> QED BY <2>1, <2>2, <2>3 DEF KeptInv
  <1> QED BY <1>1, <1>2, <1>3, <1>4, <1>5, <1>6, <1>7, <1>8, <1>9, <1>10, <1>11, <1>12, <1>13, <1>14,
             EndingKeepsSessions DEF Next, Runner, Server

(* What READY stored stays the session the server can resume: the runner   *)
(* forgets only sessions that are dead.                                    *)
THEOREM KeptInvariant == Spec => []KeptInv
  <1>1. Init => KeptInv
    BY DEF Init, KeptInv
  <1> QED BY <1>1, StepKeepsSessions, TypeCorrect, DeliveryInvariant, PTL DEF Spec

(* IDENTIFY never throws away a session the runner could have resumed.     *)
THEOREM SessionsKept == Spec => SessionKept
  <1>1. ASSUME TypeOK, DeliveryInv, KeptInv, [Next]_vars,
               hs.kind = "none", hs'.kind = "identify",
               NEW s \in Conns, alive[s], log[s] # <<>>, ready[s] # "bad"
        PROVE  FALSE
    <2>1. ReadHello
      <3>1. CASE Runner
        <4>1. ASSUME DropsConnection PROVE hs'.kind = "none"
          BY <4>1 DEF DropsConnection, NoHandshake
        <4>2. CASE ConnectOK \/ BackoffElapses \/ ReadDispatch \/ ReadHeartbeatRequest \/ ReadAck
                   \/ ReadInvalidSession \/ ReadClose
          BY <1>1, <4>2 DEF ConnectOK, BackoffElapses, ReadDispatch, ReadHeartbeatRequest, ReadAck,
                            ReadInvalidSession, ReadClose, wireVars
        <4>3. CASE OutboundBeat
          BY <1>1, <4>1, <4>3 DEF OutboundBeat, Reconnect
        <4> QED BY <1>1, <3>1, <4>1, <4>2, <4>3
            DEF Runner, ConnectFails, ReadDispatchDropped, ReadReconnect, SleepEnds, StreamEnds,
                StreamFails, OutboundMissed, CommandShutdown, Reconnect, Stop
      <3>2. CASE Server
        BY <1>1, <3>2 DEF Server, SrvHello, SrvResume, SrvAck, Mute, SrvIdentify, SrvSends, SrvClose,
                          SrvEmit, SrvExpire, NoHandshake, wireVars
      <3>3. CASE Heartbeat \/ AppShutdown \/ AppDrops \/ Stopped \/ UNCHANGED vars
        BY <1>1, <3>3 DEF Heartbeat, HbJitter, HbBeat, HbMissed, HbTick, HbUnchanged, AppShutdown,
                          AppDrops, Stopped, vars, wireVars
      <3> QED BY <1>1, <3>1, <3>2, <3>3 DEF Next
    <2>2. sessionId = s /\ sessionId # NoSession
      BY <1>1, ConstantsAssumption DEF KeptInv, TypeOK, ServerTypes, Conns, NoSession
    <2>3. connSid = NoSession /\ pc = "read" /\ ~resume
      BY <1>1, <2>1 DEF ReadHello, Reading, resume_payload, DeliveryInv, HelloComesFirst
    <2> QED BY <1>1, <2>2, <2>3 DEF DeliveryInv, ResumeIsPossible
  <1>2. TypeOK /\ DeliveryInv /\ KeptInv /\ [Next]_vars
        => [(hs.kind = "none" /\ hs'.kind = "identify")
            => \A s \in Conns : alive[s] => log[s] = <<>> \/ ready[s] = "bad"]_vars
    BY <1>1
  <1> QED BY <1>2, TypeCorrect, KeptInvariant, DeliveryInvariant, PTL DEF Spec, SessionKept

-----------------------------------------------------------------------------
(* The heartbeat task.                                                     *)

LEMMA StepKeepsHeartbeat ==
    ASSUME HeartbeatOfConnection, [Next]_vars
    PROVE  HeartbeatOfConnection'
  <1>1. ASSUME DropsConnection PROVE HeartbeatOfConnection'
    BY <1>1 DEF DropsConnection, AbortsHeartbeat, HeartbeatOfConnection
  <1>2. CASE UNCHANGED hbVars /\ (pc \in {"read", "sleep"} => pc' \in {"read", "sleep"})
    BY <1>2 DEF HeartbeatOfConnection, hbVars
  <1>3. CASE ReadHello \/ ReadAck
    BY <1>3 DEF ReadHello, ReadAck, Reading, runVars, HeartbeatOfConnection
  <1>4. CASE OutboundBeat
    BY <1>1, <1>4 DEF OutboundBeat, Reconnect, runVars, HeartbeatOfConnection
  <1>5. CASE Heartbeat
    BY <1>5 DEF Heartbeat, HbJitter, HbBeat, HbMissed, HbTick, HbUnchanged, runVars, NoTask,
                HeartbeatOfConnection
  <1>6. CASE ConnectOK \/ BackoffElapses \/ ReadDispatch \/ ReadHeartbeatRequest \/ ReadInvalidSession
             \/ ReadClose \/ AppShutdown \/ AppDrops \/ Stopped \/ UNCHANGED vars
    BY <1>2, <1>6
    DEF ConnectOK, BackoffElapses, ReadDispatch, ReadHeartbeatRequest, ReadInvalidSession, ReadClose,
        AppShutdown, AppDrops, Stopped, vars, runVars, hbVars
  <1>7. CASE Server
    BY <1>2, <1>7
    DEF Server, SrvHello, SrvResume, SrvAck, Mute, SrvIdentify, SrvSends, SrvClose, SrvEmit, SrvExpire,
        SrvUnchanged, runVars
  <1> QED BY <1>1, <1>3, <1>4, <1>5, <1>6, <1>7
      DEF Next, Runner, ConnectFails, ReadDispatchDropped, ReadReconnect, SleepEnds, StreamEnds,
          StreamFails, OutboundMissed, CommandShutdown, Reconnect, Stop

(* No heartbeat, and no missed ACK, of one connection reaches the next.    *)
THEOREM HeartbeatStaysWithConnection == Spec => []HeartbeatOfConnection
  <1>1. Init => HeartbeatOfConnection
    BY DEF Init, HeartbeatOfConnection
  <1> QED BY <1>1, StepKeepsHeartbeat, PTL DEF Spec

(* The invariant that TLC checks, for every bound: the runner takes the    *)
(* resume point from one connection to the next, and nothing else.         *)
THEOREM Invariance == Spec => []RunnerInv
  <1>1. TypeOK /\ DeliveryInv => ResumePointIsCurrent
    <2> SUFFICES ASSUME TypeOK, DeliveryInv PROVE ResumePointIsCurrent
      OBVIOUS
    <2>1. sessionId # NoSession => seq = Len(log[sessionId]) /\ seq > 0
      <3> SUFFICES ASSUME sessionId # NoSession PROVE seq = Len(log[sessionId]) /\ seq > 0
        OBVIOUS
      <3>1. sessionId \in Conns /\ log[sessionId] # <<>> /\ seq = Len(log[sessionId])
        BY ConstantsAssumption DEF TypeOK, RunnerTypes, DeliveryInv, SeqFollowsLog, Conns, NoSession
      <3>2. log[sessionId] \in Seq(1 .. MaxSeq)
        BY <3>1 DEF TypeOK
      <3> QED BY <3>1, <3>2
    <2>2. hs.kind = "resume" => sessionId # NoSession /\ hs.sid = sessionId /\ hs.seq = seq
      BY DEF DeliveryInv, HandshakeIsCurrent, ResumeIsPossible
    <2> QED BY <2>1, <2>2 DEF ResumePointIsCurrent
  <1> QED BY <1>1, TypeCorrect, DeliveryInvariant, KeptInvariant, HeartbeatStaysWithConnection, PTL
      DEF RunnerInv
=============================================================================
