-------------------------- MODULE GatewayGoProofs --------------------------
(***************************************************************************)
(* Proofs about GatewayGo: for any number of connections, events, faults   *)
(* and sessions, onDispatch sees every session's events once and in order. *)
(***************************************************************************)
EXTENDS GatewayGo, TLAPS

-----------------------------------------------------------------------------
(* Every update heartbeatLoop or the read loop makes yields a heartbeat    *)
(* state.                                                                  *)
LEMMA HeartbeatUpdates ==
    ASSUME NEW h \in HeartbeatStates
    PROVE  /\ [h EXCEPT !.cancelled = TRUE] \in HeartbeatStates
           /\ [h EXCEPT !.beat = (h.pc # "done")] \in HeartbeatStates
           /\ [h EXCEPT !.ack = (h.pc # "done")] \in HeartbeatStates
           /\ [h EXCEPT !.ack = FALSE, !.awaiting = FALSE, !.asked = FALSE] \in HeartbeatStates
           /\ [h EXCEPT !.beat = FALSE, !.pc = "send", !.asked = TRUE] \in HeartbeatStates
           /\ [h EXCEPT !.pc = "force"] \in HeartbeatStates
           /\ [h EXCEPT !.pc = "closing"] \in HeartbeatStates
           /\ [h EXCEPT !.pc = "send", !.asked = FALSE] \in HeartbeatStates
           /\ [h EXCEPT !.pc = "select", !.awaiting = TRUE] \in HeartbeatStates
           /\ [Idle EXCEPT !.pc = "select"] \in HeartbeatStates
           /\ Ended(h) \in HeartbeatStates
           /\ Idle \in HeartbeatStates
  BY DEF HeartbeatStates, Idle, Ended

(* The handshakes the client and the server put on the wire are typed.     *)
LEMMA HandshakeTypes ==
    ASSUME ClientTypes
    PROVE  NoHandshake \in Handshakes /\ sendIdentify \in Handshakes /\ sendResume \in Handshakes
  BY ConstantsAssumption
  DEF Handshakes, NoHandshake, sendIdentify, sendResume, NoSession, ClientTypes

(* What the end of a connection does to the types.                         *)
LEMMA ReturnKeepsTypes ==
    ASSUME TypeOK, NEW a \in Codes, runOnceReturns(a),
           closeReason' \in BOOLEAN, faults' \in 0 .. MaxFaults
    PROVE  TypeOK'
  <1>1. DropWire /\ stopHeartbeat /\ RunDecides(a)
        /\ UNCHANGED <<cancelled, gen, srvSeq, alive, ready, log>>
    BY DEF runOnceReturns, serverVars
  <1>2. ClientTypes /\ RunDecides(a) => resume' \in BOOLEAN /\ resumeURL' \in BOOLEAN
    BY Zenon DEF RunDecides, clearSession, canResume, ClientTypes
  <1>3. ClientTypes /\ RunDecides(a) => /\ pc' \in {"backoff", "stopped"}
                                        /\ sessionID' \in 0 .. MaxConns
                                        /\ seq' \in 0 .. MaxSeq
    BY SMT, ConstantsAssumption DEF RunDecides, clearSession, ClientTypes, NoSession
  <1>4. ClientTypes'
    BY <1>1, <1>2, <1>3 DEF DropWire, ClientTypes, TypeOK
  <1>5. WireTypes'
    <2>1. NoSession \in 0 .. MaxConns /\ 1 \in 1 .. MaxSeq + 1 /\ 0 \in Nat
      BY SMT, ConstantsAssumption DEF NoSession
    <2> QED BY Zenon, <1>1, <2>1, HandshakeTypes DEF DropWire, WireTypes, TypeOK, Controls
  <1>6. ServerTypes'
    BY <1>1 DEF ServerTypes, TypeOK
  <1>7. hb' \in [Conns -> HeartbeatStates]
    BY <1>1, HeartbeatUpdates DEF stopHeartbeat, TypeOK
  <1>8. pc' \notin {"hello", "read"}
    BY <1>1, <1>3 DEF TypeOK
  <1> QED BY <1>1, <1>4, <1>5, <1>6, <1>7, <1>8 DEF TypeOK

(* Every step keeps the types.                                             *)
LEMMA StepKeepsTypes ==
    ASSUME TypeOK, [Next]_vars
    PROVE  TypeOK'
  <1> USE ConstantsAssumption
  <1>1. CASE DialOK
    <2>1. ClientTypes'
      <3>1. gen' \in 0 .. MaxConns
        BY SMT, <1>1 DEF DialOK, TypeOK, ClientTypes
      <3> QED BY Zenon, <3>1, <1>1 DEF DialOK, TypeOK, ClientTypes
    <2>2. WireTypes'
      BY <1>1 DEF DialOK, clientVars, wireVars, serverVars, TypeOK, WireTypes
    <2>3. ServerTypes'
      BY <1>1 DEF DialOK, clientVars, wireVars, serverVars, TypeOK, ServerTypes
    <2>4. hb' \in [Conns -> HeartbeatStates]
      BY <1>1 DEF DialOK, clientVars, wireVars, serverVars, TypeOK
    <2>5. log' \in [Conns -> Seq(1 .. MaxSeq)]
      BY <1>1 DEF DialOK, clientVars, wireVars, serverVars, TypeOK
    <2>6. pc' \in {"hello", "read"} => gen' \in Conns
      BY <1>1 DEF DialOK, clientVars, wireVars, serverVars, TypeOK, ClientTypes, WireTypes, Conns
    <2> QED BY <2>1, <2>2, <2>3, <2>4, <2>5, <2>6 DEF TypeOK
  <1>2. CASE DialFails
    BY <1>2, ReturnKeepsTypes DEF DialFails, Codes, TypeOK, ClientTypes, ServerTypes, Fault
  <1>3. CASE DialCancelled
    BY <1>3, ReturnKeepsTypes DEF DialCancelled, Codes, TypeOK, ClientTypes, ServerTypes
  <1>4. CASE BackoffElapses
    <2>1. ClientTypes'
      BY <1>4 DEF BackoffElapses, TypeOK, ClientTypes
    <2>2. UNCHANGED <<gen, hb, wireVars, serverVars, faults, log>> /\ pc' \notin {"hello", "read"}
      BY <1>4 DEF BackoffElapses
    <2>3. WireTypes' /\ ServerTypes'
      BY <2>2 DEF wireVars, serverVars, TypeOK, WireTypes, ServerTypes
    <2> QED BY <2>1, <2>2, <2>3 DEF TypeOK
  <1>5. CASE BackoffCancelled
    <2>1. ClientTypes'
      BY <1>5 DEF BackoffCancelled, TypeOK, ClientTypes
    <2>2. UNCHANGED <<gen, hb, wireVars, serverVars, faults, log>> /\ pc' \notin {"hello", "read"}
      BY <1>5 DEF BackoffCancelled
    <2>3. WireTypes' /\ ServerTypes'
      BY <2>2 DEF wireVars, serverVars, TypeOK, WireTypes, ServerTypes
    <2> QED BY <2>1, <2>2, <2>3 DEF TypeOK
  <1>6. CASE ReadHello
    <2>1. ClientTypes'
      BY <1>6 DEF ReadHello, clientVars, wireVars, serverVars, TypeOK, ClientTypes
    <2>2. WireTypes'
      BY <1>6, HandshakeTypes DEF ReadHello, clientVars, wireVars, serverVars, TypeOK, WireTypes, Controls
    <2>3. ServerTypes'
      BY <1>6 DEF ReadHello, clientVars, wireVars, serverVars, TypeOK, ServerTypes
    <2>4. hb' \in [Conns -> HeartbeatStates]
      BY <1>6, HeartbeatUpdates DEF ReadHello, clientVars, wireVars, serverVars, TypeOK
    <2>5. log' \in [Conns -> Seq(1 .. MaxSeq)]
      BY <1>6 DEF ReadHello, clientVars, wireVars, serverVars, TypeOK
    <2>6. pc' \in {"hello", "read"} => gen' \in Conns
      BY <1>6 DEF ReadHello, clientVars, wireVars, serverVars, TypeOK, sendIdentify, sendResume
    <2> QED BY <2>1, <2>2, <2>3, <2>4, <2>5, <2>6 DEF TypeOK
  <1>7. CASE HelloFails
    BY <1>7, ReturnKeepsTypes DEF HelloFails, Codes, TypeOK, ClientTypes, ServerTypes
  <1>8. CASE ReadDispatch
    <2>1. ClientTypes'
      <3>1. connSid \in 0 .. MaxConns /\ wireNext \in 0 .. MaxSeq
        BY SMT, <1>8 DEF ReadDispatch, TypeOK, WireTypes, ServerTypes, Conns, NoSession
      <3> QED BY Zenon, <3>1, <1>8 DEF ReadDispatch, TypeOK, ClientTypes
    <2>2. WireTypes'
      BY <1>8 DEF ReadDispatch, clientVars, wireVars, serverVars, TypeOK, WireTypes, ServerTypes, Conns, NoSession
    <2>3. ServerTypes'
      BY <1>8 DEF ReadDispatch, clientVars, wireVars, serverVars, TypeOK, ServerTypes
    <2>4. hb' \in [Conns -> HeartbeatStates]
      BY <1>8 DEF ReadDispatch, clientVars, wireVars, serverVars, TypeOK
    <2>5. log' \in [Conns -> Seq(1 .. MaxSeq)]
      BY <1>8 DEF ReadDispatch, clientVars, wireVars, serverVars, TypeOK, WireTypes, ServerTypes, Conns, NoSession
    <2>6. pc' \in {"hello", "read"} => gen' \in Conns
      BY <1>8 DEF ReadDispatch, clientVars, wireVars, serverVars, TypeOK
    <2> QED BY <2>1, <2>2, <2>3, <2>4, <2>5, <2>6 DEF TypeOK
  <1>9. CASE ReadHeartbeatRequest
    BY <1>9, HeartbeatUpdates, HandshakeTypes DEF ReadHeartbeatRequest, TypeOK, ClientTypes, WireTypes, ServerTypes, clientVars, wireVars, serverVars, Conns, NoSession, Controls, Closes, Codes
  <1>10. CASE ReadAck
    <2>1. ClientTypes'
      BY <1>10 DEF ReadAck, clientVars, wireVars, serverVars, TypeOK, ClientTypes
    <2>2. WireTypes'
      BY <1>10 DEF ReadAck, clientVars, wireVars, serverVars, TypeOK, WireTypes
    <2>3. ServerTypes'
      BY <1>10 DEF ReadAck, clientVars, wireVars, serverVars, TypeOK, ServerTypes
    <2>4. hb' \in [Conns -> HeartbeatStates]
      BY <1>10, HeartbeatUpdates DEF ReadAck, clientVars, wireVars, serverVars, TypeOK
    <2>5. log' \in [Conns -> Seq(1 .. MaxSeq)]
      BY <1>10 DEF ReadAck, clientVars, wireVars, serverVars, TypeOK
    <2>6. pc' \in {"hello", "read"} => gen' \in Conns
      BY <1>10 DEF ReadAck, clientVars, wireVars, serverVars, TypeOK
    <2> QED BY <2>1, <2>2, <2>3, <2>4, <2>5, <2>6 DEF TypeOK
  <1>11. CASE ReadReconnect
    BY <1>11, ReturnKeepsTypes DEF ReadReconnect, Codes, TypeOK, ClientTypes, ServerTypes
  <1>12. CASE ReadInvalidSession
    BY <1>12, ReturnKeepsTypes DEF ReadInvalidSession, Codes, TypeOK, ClientTypes, ServerTypes, InvalidSessionAction
  <1>13. CASE ReadError
    BY <1>13, ReturnKeepsTypes DEF ReadError, Codes, TypeOK, ClientTypes, ServerTypes
  <1>14. CASE WatchCtx
    BY <1>14, HeartbeatUpdates, HandshakeTypes DEF WatchCtx, TypeOK, ClientTypes, WireTypes, ServerTypes, clientVars, wireVars, serverVars, Conns, NoSession, Controls, Closes, Codes
  <1>15. CASE Cancel
    <2>1. ClientTypes'
      BY <1>15 DEF Cancel, clientVars, wireVars, serverVars, TypeOK, ClientTypes
    <2>2. WireTypes'
      BY <1>15 DEF Cancel, clientVars, wireVars, serverVars, TypeOK, WireTypes
    <2>3. ServerTypes'
      BY <1>15 DEF Cancel, clientVars, wireVars, serverVars, TypeOK, ServerTypes
    <2>4. hb' \in [Conns -> HeartbeatStates]
      BY <1>15 DEF Cancel, clientVars, wireVars, serverVars, TypeOK
    <2>5. log' \in [Conns -> Seq(1 .. MaxSeq)]
      BY <1>15 DEF Cancel, clientVars, wireVars, serverVars, TypeOK
    <2>6. pc' \in {"hello", "read"} => gen' \in Conns
      BY <1>15 DEF Cancel, clientVars, wireVars, serverVars, TypeOK
    <2> QED BY <2>1, <2>2, <2>3, <2>4, <2>5, <2>6 DEF TypeOK
  <1>16. CASE SrvHello
    BY <1>16, HeartbeatUpdates, HandshakeTypes DEF SrvHello, TypeOK, ClientTypes, WireTypes, ServerTypes, clientVars, wireVars, serverVars, SrvUnchanged, Conns, NoSession, Controls, Closes, Codes
  <1>17. CASE SrvResume
    <2>1. ClientTypes'
      BY <1>17 DEF SrvResume, SrvUnchanged, clientVars, wireVars, serverVars, TypeOK, ClientTypes
    <2>2. WireTypes'
      <3>1. hs' \in Handshakes /\ connSid' \in 0 .. MaxConns
        BY <1>17, HandshakeTypes DEF SrvResume, TypeOK, WireTypes, Handshakes
      <3>2. wireNext' \in 1 .. MaxSeq + 1
        BY <1>17 DEF SrvResume, TypeOK, WireTypes, Handshakes
      <3>3. ctl' \in Controls
        BY <1>17 DEF SrvResume, TypeOK, WireTypes, Controls, Closes, Codes
      <3> QED BY <1>17, <3>1, <3>2, <3>3 DEF SrvResume, TypeOK, WireTypes
    <2>3. ServerTypes'
      BY <1>17 DEF SrvResume, SrvUnchanged, clientVars, wireVars, serverVars, TypeOK, ServerTypes
    <2>4. hb' \in [Conns -> HeartbeatStates]
      BY <1>17 DEF SrvResume, SrvUnchanged, clientVars, wireVars, serverVars, TypeOK
    <2>5. log' \in [Conns -> Seq(1 .. MaxSeq)]
      BY <1>17 DEF SrvResume, SrvUnchanged, clientVars, wireVars, serverVars, TypeOK
    <2>6. pc' \in {"hello", "read"} => gen' \in Conns
      BY <1>17 DEF SrvResume, SrvUnchanged, clientVars, wireVars, serverVars, TypeOK, NoHandshake
    <2> QED BY <2>1, <2>2, <2>3, <2>4, <2>5, <2>6 DEF TypeOK
  <1>18. CASE SrvAck
    <2>1. ClientTypes'
      BY <1>18 DEF SrvAck, SrvUnchanged, clientVars, wireVars, serverVars, TypeOK, ClientTypes
    <2>2. WireTypes'
      BY <1>18 DEF SrvAck, SrvUnchanged, clientVars, wireVars, serverVars, TypeOK, WireTypes
    <2>3. ServerTypes'
      BY <1>18 DEF SrvAck, SrvUnchanged, clientVars, wireVars, serverVars, TypeOK, ServerTypes
    <2>4. hb' \in [Conns -> HeartbeatStates]
      BY <1>18 DEF SrvAck, SrvUnchanged, clientVars, wireVars, serverVars, TypeOK
    <2>5. log' \in [Conns -> Seq(1 .. MaxSeq)]
      BY <1>18 DEF SrvAck, SrvUnchanged, clientVars, wireVars, serverVars, TypeOK
    <2>6. pc' \in {"hello", "read"} => gen' \in Conns
      BY <1>18 DEF SrvAck, SrvUnchanged, clientVars, wireVars, serverVars, TypeOK
    <2> QED BY <2>1, <2>2, <2>3, <2>4, <2>5, <2>6 DEF TypeOK
  <1>19. CASE SrvHeartbeatRequest
    <2>1. ClientTypes'
      BY <1>19 DEF SrvHeartbeatRequest, SrvUnchanged, clientVars, wireVars, serverVars, TypeOK, ClientTypes
    <2>2. WireTypes'
      BY <1>19 DEF SrvHeartbeatRequest, SrvUnchanged, clientVars, wireVars, serverVars, TypeOK, WireTypes, Controls
    <2>3. ServerTypes'
      BY <1>19 DEF SrvHeartbeatRequest, SrvUnchanged, clientVars, wireVars, serverVars, TypeOK, ServerTypes, Fault
    <2>4. hb' \in [Conns -> HeartbeatStates]
      BY <1>19 DEF SrvHeartbeatRequest, SrvUnchanged, clientVars, wireVars, serverVars, TypeOK
    <2>5. log' \in [Conns -> Seq(1 .. MaxSeq)]
      BY <1>19 DEF SrvHeartbeatRequest, SrvUnchanged, clientVars, wireVars, serverVars, TypeOK
    <2>6. pc' \in {"hello", "read"} => gen' \in Conns
      BY <1>19 DEF SrvHeartbeatRequest, SrvUnchanged, clientVars, wireVars, serverVars, TypeOK
    <2> QED BY <2>1, <2>2, <2>3, <2>4, <2>5, <2>6 DEF TypeOK
  <1>20. CASE SrvReconnect
    <2>1. ClientTypes'
      BY <1>20 DEF SrvReconnect, SrvUnchanged, clientVars, wireVars, serverVars, TypeOK, ClientTypes
    <2>2. WireTypes'
      BY <1>20 DEF SrvReconnect, SrvUnchanged, clientVars, wireVars, serverVars, TypeOK, WireTypes, Controls
    <2>3. ServerTypes'
      BY <1>20 DEF SrvReconnect, SrvUnchanged, clientVars, wireVars, serverVars, TypeOK, ServerTypes, Fault
    <2>4. hb' \in [Conns -> HeartbeatStates]
      BY <1>20 DEF SrvReconnect, SrvUnchanged, clientVars, wireVars, serverVars, TypeOK
    <2>5. log' \in [Conns -> Seq(1 .. MaxSeq)]
      BY <1>20 DEF SrvReconnect, SrvUnchanged, clientVars, wireVars, serverVars, TypeOK
    <2>6. pc' \in {"hello", "read"} => gen' \in Conns
      BY <1>20 DEF SrvReconnect, SrvUnchanged, clientVars, wireVars, serverVars, TypeOK
    <2> QED BY <2>1, <2>2, <2>3, <2>4, <2>5, <2>6 DEF TypeOK
  <1>21. CASE Mute
    <2>1. ClientTypes'
      BY <1>21 DEF Mute, SrvUnchanged, clientVars, wireVars, serverVars, TypeOK, ClientTypes
    <2>2. WireTypes'
      BY <1>21 DEF Mute, SrvUnchanged, clientVars, wireVars, serverVars, TypeOK, WireTypes
    <2>3. ServerTypes'
      BY <1>21 DEF Mute, SrvUnchanged, clientVars, wireVars, serverVars, TypeOK, ServerTypes, Fault
    <2>4. hb' \in [Conns -> HeartbeatStates]
      BY <1>21 DEF Mute, SrvUnchanged, clientVars, wireVars, serverVars, TypeOK
    <2>5. log' \in [Conns -> Seq(1 .. MaxSeq)]
      BY <1>21 DEF Mute, SrvUnchanged, clientVars, wireVars, serverVars, TypeOK
    <2>6. pc' \in {"hello", "read"} => gen' \in Conns
      BY <1>21 DEF Mute, SrvUnchanged, clientVars, wireVars, serverVars, TypeOK
    <2> QED BY <2>1, <2>2, <2>3, <2>4, <2>5, <2>6 DEF TypeOK
  <1>22. ASSUME NEW k \in ReadyKinds, SrvIdentify(k) PROVE TypeOK'
    <2>1. ClientTypes'
      BY <1>22 DEF SrvIdentify, SrvUnchanged, clientVars, wireVars, serverVars, TypeOK, ClientTypes
    <2>2. WireTypes'
      BY <1>22, HandshakeTypes DEF SrvIdentify, SrvUnchanged, clientVars, wireVars, serverVars, TypeOK, WireTypes, Conns
    <2>3. ServerTypes'
      BY <1>22 DEF SrvIdentify, SrvUnchanged, clientVars, wireVars, serverVars, TypeOK, ServerTypes
    <2>4. hb' \in [Conns -> HeartbeatStates]
      BY <1>22 DEF SrvIdentify, SrvUnchanged, clientVars, wireVars, serverVars, TypeOK
    <2>5. log' \in [Conns -> Seq(1 .. MaxSeq)]
      BY <1>22 DEF SrvIdentify, SrvUnchanged, clientVars, wireVars, serverVars, TypeOK
    <2>6. pc' \in {"hello", "read"} => gen' \in Conns
      BY <1>22 DEF SrvIdentify, SrvUnchanged, clientVars, wireVars, serverVars, TypeOK, NoHandshake
    <2> QED BY <2>1, <2>2, <2>3, <2>4, <2>5, <2>6 DEF TypeOK
  <1>23. ASSUME NEW r \in BOOLEAN, SrvInvalidSession(r) PROVE TypeOK'
    <2>1. ClientTypes'
      BY <1>23 DEF SrvInvalidSession, SrvUnchanged, clientVars, wireVars, serverVars, TypeOK, ClientTypes
    <2>2. WireTypes'
      BY <1>23 DEF SrvInvalidSession, SrvUnchanged, clientVars, wireVars, serverVars, TypeOK, WireTypes, Controls
    <2>3. ServerTypes'
      <3>1. faults' \in 0 .. MaxFaults
        BY <1>23 DEF SrvInvalidSession, TypeOK, ServerTypes, Fault
      <3>2. alive' \in [Conns -> BOOLEAN]
        BY Zenon, <1>23 DEF SrvInvalidSession, TypeOK, ServerTypes
      <3> QED BY <1>23, <3>1, <3>2 DEF SrvInvalidSession, TypeOK, ServerTypes
    <2>4. hb' \in [Conns -> HeartbeatStates]
      BY <1>23 DEF SrvInvalidSession, SrvUnchanged, clientVars, wireVars, serverVars, TypeOK
    <2>5. log' \in [Conns -> Seq(1 .. MaxSeq)]
      BY <1>23 DEF SrvInvalidSession, SrvUnchanged, clientVars, wireVars, serverVars, TypeOK
    <2>6. pc' \in {"hello", "read"} => gen' \in Conns
      BY <1>23 DEF SrvInvalidSession, SrvUnchanged, clientVars, wireVars, serverVars, TypeOK
    <2> QED BY <2>1, <2>2, <2>3, <2>4, <2>5, <2>6 DEF TypeOK
  <1>24. ASSUME NEW c \in Closes, SrvClose(c) PROVE TypeOK'
    BY <1>24, HandshakeTypes DEF SrvClose, TypeOK, ClientTypes, WireTypes, ServerTypes, clientVars, wireVars, serverVars, SrvUnchanged, Fault, Conns, NoSession, Controls, Closes, Codes
  <1>25. ASSUME NEW s \in Conns, SrvEmit(s) PROVE TypeOK'
    <2>1. ClientTypes'
      BY <1>25 DEF SrvEmit, SrvUnchanged, clientVars, wireVars, serverVars, TypeOK, ClientTypes
    <2>2. WireTypes'
      BY <1>25 DEF SrvEmit, SrvUnchanged, clientVars, wireVars, serverVars, TypeOK, WireTypes
    <2>3. ServerTypes'
      BY <1>25 DEF SrvEmit, SrvUnchanged, clientVars, wireVars, serverVars, TypeOK, ServerTypes
    <2>4. hb' \in [Conns -> HeartbeatStates]
      BY <1>25 DEF SrvEmit, SrvUnchanged, clientVars, wireVars, serverVars, TypeOK
    <2>5. log' \in [Conns -> Seq(1 .. MaxSeq)]
      BY <1>25 DEF SrvEmit, SrvUnchanged, clientVars, wireVars, serverVars, TypeOK
    <2>6. pc' \in {"hello", "read"} => gen' \in Conns
      BY <1>25 DEF SrvEmit, SrvUnchanged, clientVars, wireVars, serverVars, TypeOK
    <2> QED BY <2>1, <2>2, <2>3, <2>4, <2>5, <2>6 DEF TypeOK
  <1>26. ASSUME NEW s \in Conns, SrvExpire(s) PROVE TypeOK'
    BY <1>26, HandshakeTypes DEF SrvExpire, TypeOK, ClientTypes, WireTypes, ServerTypes, clientVars, wireVars, serverVars, SrvUnchanged, Fault, Conns, NoSession, Controls, Closes, Codes
  <1>27. ASSUME NEW g \in Conns, HbReturn(g) PROVE TypeOK'
    BY <1>27, HeartbeatUpdates DEF HbReturn, TypeOK, ClientTypes, WireTypes, ServerTypes, clientVars, wireVars, serverVars, Fault
  <1>28. ASSUME NEW g \in Conns, HbAck(g) PROVE TypeOK'
    <2>1. ServerTypes'
      BY <1>28 DEF HbAck, Overlooks, Fault, serverVars, TypeOK, ServerTypes
    <2>2. hb' \in [Conns -> HeartbeatStates]
      BY <1>28, HeartbeatUpdates DEF HbAck, TypeOK
    <2> QED BY <1>28, <2>1, <2>2 DEF HbAck, TypeOK, ClientTypes, WireTypes, clientVars, wireVars
  <1>29. ASSUME NEW g \in Conns, HbBeat(g) PROVE TypeOK'
    <2>1. ServerTypes'
      BY <1>29 DEF HbBeat, Overlooks, Fault, serverVars, TypeOK, ServerTypes
    <2>2. hb' \in [Conns -> HeartbeatStates]
      BY <1>29, HeartbeatUpdates DEF HbBeat, TypeOK
    <2> QED BY <1>29, <2>1, <2>2 DEF HbBeat, TypeOK, ClientTypes, WireTypes, clientVars, wireVars
  <1>30. ASSUME NEW g \in Conns, HbTick(g) PROVE TypeOK'
    <2>1. ClientTypes'
      BY <1>30 DEF HbTick, clientVars, wireVars, serverVars, TypeOK, ClientTypes
    <2>2. WireTypes'
      BY <1>30 DEF HbTick, clientVars, wireVars, serverVars, TypeOK, WireTypes
    <2>3. ServerTypes'
      BY <1>30 DEF HbTick, clientVars, wireVars, serverVars, TypeOK, ServerTypes, Fault, Overlooks
    <2>4. hb' \in [Conns -> HeartbeatStates]
      <3>1. \/ hb' = [hb EXCEPT ![g].pc = "force"]
            \/ hb' = [hb EXCEPT ![g].pc = "send", ![g].asked = FALSE]
        BY <1>30 DEF HbTick
      <3>2. hb[g] \in HeartbeatStates
        BY DEF TypeOK
      <3> QED BY <3>1, <3>2, HeartbeatUpdates DEF TypeOK
    <2>5. log' \in [Conns -> Seq(1 .. MaxSeq)]
      BY <1>30 DEF HbTick, clientVars, wireVars, serverVars, TypeOK
    <2>6. pc' \in {"hello", "read"} => gen' \in Conns
      BY <1>30 DEF HbTick, clientVars, wireVars, serverVars, TypeOK
    <2> QED BY <2>1, <2>2, <2>3, <2>4, <2>5, <2>6 DEF TypeOK
  <1>31. ASSUME NEW g \in Conns, HbSend(g) PROVE TypeOK'
    <2>1. ClientTypes'
      BY <1>31 DEF HbSend, clientVars, wireVars, serverVars, TypeOK, ClientTypes
    <2>2. WireTypes'
      BY <1>31 DEF HbSend, clientVars, wireVars, serverVars, TypeOK, WireTypes
    <2>3. ServerTypes'
      BY <1>31 DEF HbSend, clientVars, wireVars, serverVars, TypeOK, ServerTypes
    <2>4. hb' \in [Conns -> HeartbeatStates]
      <3>1. \/ hb' = [hb EXCEPT ![g].pc = "select", ![g].awaiting = TRUE]
            \/ hb' = [hb EXCEPT ![g] = Ended(@)]
        BY <1>31 DEF HbSend
      <3>2. hb[g] \in HeartbeatStates
        BY DEF TypeOK
      <3> QED BY <3>1, <3>2, HeartbeatUpdates DEF TypeOK
    <2>5. log' \in [Conns -> Seq(1 .. MaxSeq)]
      BY <1>31 DEF HbSend, clientVars, wireVars, serverVars, TypeOK
    <2>6. pc' \in {"hello", "read"} => gen' \in Conns
      BY <1>31 DEF HbSend, clientVars, wireVars, serverVars, TypeOK
    <2> QED BY <2>1, <2>2, <2>3, <2>4, <2>5, <2>6 DEF TypeOK
  <1>32. ASSUME NEW g \in Conns, HbForceReason(g) PROVE TypeOK'
    BY <1>32, HeartbeatUpdates DEF HbForceReason, TypeOK, ClientTypes, WireTypes, ServerTypes, clientVars, wireVars, serverVars, Fault
  <1>33. ASSUME NEW g \in Conns, HbForceClose(g) PROVE TypeOK'
    BY <1>33, HeartbeatUpdates DEF HbForceClose, TypeOK, ClientTypes, WireTypes, ServerTypes, clientVars, wireVars, serverVars, Fault
  <1>34. CASE UNCHANGED vars
    BY <1>34 DEF vars, TypeOK, ClientTypes, WireTypes, ServerTypes, clientVars, wireVars, serverVars
  <1> QED BY <1>1, <1>2, <1>3, <1>4, <1>5, <1>6, <1>7, <1>8, <1>9, <1>10, <1>11, <1>12, <1>13, <1>14, <1>15, <1>16, <1>17, <1>18, <1>19, <1>20, <1>21, <1>22, <1>23, <1>24, <1>25, <1>26, <1>27, <1>28, <1>29, <1>30, <1>31, <1>32, <1>33, <1>34 DEF Next, Run, Server, HeartbeatLoop, Stopped

(* Every variable of the client, its connections and its peer keeps its    *)
(* type in every reachable state, for all bounds.                          *)
THEOREM TypeCorrect == Spec => []TypeOK
  <1>1. Init => TypeOK
    <2> SUFFICES ASSUME Init PROVE TypeOK
      OBVIOUS
    <2>0. /\ NoSession \in 0 .. MaxConns /\ 0 \in 0 .. MaxConns /\ 0 \in 0 .. MaxSeq
          /\ 1 \in 1 .. MaxSeq + 1 /\ 0 \in Nat
      BY SMT, ConstantsAssumption DEF NoSession
    <2>1. ClientTypes
      BY Zenon, <2>0 DEF Init, ClientTypes
    <2>2. WireTypes
      BY Zenon, <2>0, <2>1, HandshakeTypes DEF Init, WireTypes, Controls
    <2>3. ServerTypes
      BY ConstantsAssumption DEF Init, ServerTypes
    <2>4. hb \in [Conns -> HeartbeatStates]
      BY DEF Init, HeartbeatStates, Idle
    <2>5. log \in [Conns -> Seq(1 .. MaxSeq)] /\ pc \notin {"hello", "read"}
      BY DEF Init
    <2> QED BY <2>1, <2>2, <2>3, <2>4, <2>5 DEF TypeOK
  <1>2. TypeOK /\ [Next]_vars => TypeOK'
    BY StepKeepsTypes
  <1> QED BY <1>1, <1>2, PTL DEF Spec

-----------------------------------------------------------------------------
(* Delivery.  The invariant ties four numbers together: what onDispatch    *)
(* was given, the stored seq, the seq a RESUME carries and the next number *)
(* on the wire.                                                            *)

(* Heartbeats, control frames, cancellation and the death of sessions      *)
(* leave those numbers alone.                                              *)
LEMMA QuietKeepsDelivery ==
    ASSUME DeliveryInv,
           UNCHANGED <<pc, resume, sessionID, resumeURL, seq, gen, connSid,
                       wireNext, hs, srvSeq, log>>,
           \A s \in Conns : alive'[s] => alive[s]
    PROVE  DeliveryInv'
  BY DEF DeliveryInv, LogsArePrefixes, WireFollowsLog, SeqFollowsLog, ResumeIsPossible, HandshakeIsCurrent, SessionsAreFresh, canResume, Connected

(* The end of a connection forgets the wire; what is stored still agrees   *)
(* with what was delivered, or is forgotten too.                           *)
LEMMA ReturnKeepsDelivery ==
    ASSUME TypeOK, DeliveryInv, NEW a \in Codes, runOnceReturns(a)
    PROVE  DeliveryInv'
  <1>1. /\ hs' = NoHandshake /\ connSid' = NoSession
        /\ RunDecides(a)
        /\ UNCHANGED <<gen, srvSeq, alive, log>>
    BY DEF runOnceReturns, DropWire, serverVars
  <1>2. LogsArePrefixes' /\ WireFollowsLog' /\ HandshakeIsCurrent'
    BY <1>1 DEF DeliveryInv, LogsArePrefixes, WireFollowsLog, HandshakeIsCurrent, NoHandshake
  <1>3. pc' \in {"backoff", "stopped"}
    BY <1>1 DEF RunDecides
  <1>4. SessionsAreFresh'
    BY <1>1, <1>3 DEF DeliveryInv, SessionsAreFresh, NoHandshake
  <1>5. SeqFollowsLog'
    BY <1>1 DEF DeliveryInv, SeqFollowsLog, RunDecides, clearSession, canResume
  <1>6. /\ resume' => canResume'
        /\ ~resume' => ~canResume' \/ pc' = "stopped"
    <2>1. CASE pc' = "stopped"
      <3>1. UNCHANGED <<resume, sessionID, resumeURL>>
        BY <1>1, <2>1 DEF RunDecides
      <3> QED BY <2>1, <3>1 DEF DeliveryInv, ResumeIsPossible, canResume
    <2>2. CASE a = "reidentify" /\ pc' = "backoff"
      BY <1>1, <2>2 DEF RunDecides, clearSession, canResume
    <2>3. CASE a = "resume" /\ pc' = "backoff"
      <3>1. resume' = canResume /\ canResume' = canResume
        BY <1>1, <2>3 DEF RunDecides, canResume
      <3> QED BY Zenon, <3>1
    <2> QED BY <1>1, <2>1, <2>2, <2>3 DEF RunDecides
  <1>7. ResumeIsPossible'
    BY <1>1, <1>6 DEF ResumeIsPossible
  <1> QED BY <1>2, <1>4, <1>5, <1>7 DEF DeliveryInv

(* A dispatch extends the log of the attached session by its successor.    *)
LEMMA DispatchKeepsDelivery ==
    ASSUME TypeOK, DeliveryInv, ReadDispatch
    PROVE  DeliveryInv'
  <1>0. /\ connSid \in Conns /\ wireNext = Len(log[connSid]) + 1
        /\ wireNext \in 1 .. MaxSeq /\ wireNext <= srvSeq[connSid]
        /\ log \in [Conns -> Seq(1 .. MaxSeq)]
        /\ pc' = pc /\ resume' = resume /\ gen' = gen /\ hs' = hs /\ connSid' = connSid
        /\ srvSeq' = srvSeq /\ alive' = alive /\ pc = "read" /\ connSid # NoSession
        /\ seq' = wireNext /\ wireNext' = wireNext + 1
        /\ log' = [log EXCEPT ![connSid] = Append(@, wireNext)]
    BY ConstantsAssumption
    DEF ReadDispatch, TypeOK, WireTypes, ServerTypes, DeliveryInv, WireFollowsLog, Conns, NoSession,
        serverVars
  <1>1. /\ Len(log'[connSid]) = wireNext /\ log'[connSid] # <<>>
        /\ log'[connSid] = [i \in 1 .. wireNext |-> i]
        /\ \A s \in Conns : s # connSid => log'[s] = log[s]
    <2>1. log[connSid] = [i \in 1 .. Len(log[connSid]) |-> i]
      BY <1>0 DEF DeliveryInv, LogsArePrefixes
    <2>2. log'[connSid] = Append(log[connSid], wireNext) /\ log[connSid] \in Seq(1 .. MaxSeq)
      BY <1>0
    <2> QED BY <2>1, <2>2, <1>0
  <1>2. LogsArePrefixes'
    BY <1>0, <1>1 DEF DeliveryInv, LogsArePrefixes
  <1>3. WireFollowsLog'
    BY <1>0, <1>1 DEF WireFollowsLog
  <1>4. HandshakeIsCurrent' /\ SessionsAreFresh'
    BY <1>0 DEF DeliveryInv, HandshakeIsCurrent, SessionsAreFresh
  <1>5. canResume' => sessionID' = connSid
    BY <1>0 DEF ReadDispatch, canResume, DeliveryInv, ResumeIsPossible
  <1>6. SeqFollowsLog'
    BY <1>0, <1>1, <1>5 DEF SeqFollowsLog
  <1>7. resume => canResume'
    <2>1. CASE wireNext = 1
      BY <1>0, <2>1 DEF DeliveryInv, ResumeIsPossible
    <2>2. CASE wireNext # 1
      BY <1>0, <2>2 DEF ReadDispatch, canResume, DeliveryInv, ResumeIsPossible
    <2> QED BY <2>1, <2>2
  <1>8. ResumeIsPossible'
    BY <1>0, <1>1, <1>5, <1>7 DEF DeliveryInv, ResumeIsPossible
  <1> QED BY <1>2, <1>3, <1>4, <1>6, <1>8 DEF DeliveryInv

(* Every step keeps the delivery invariant.                                *)
LEMMA StepKeepsDelivery ==
    ASSUME TypeOK, DeliveryInv, [Next]_vars
    PROVE  DeliveryInv'
  <1>1. CASE DialFails
    BY <1>1, ReturnKeepsDelivery DEF DialFails, Codes
  <1>2. CASE DialCancelled
    BY <1>2, ReturnKeepsDelivery DEF DialCancelled, Codes
  <1>3. CASE HelloFails
    BY <1>3, ReturnKeepsDelivery DEF HelloFails, Codes
  <1>4. CASE ReadReconnect
    BY <1>4, ReturnKeepsDelivery DEF ReadReconnect, Codes
  <1>5. CASE ReadInvalidSession
    BY <1>5, ReturnKeepsDelivery DEF ReadInvalidSession, Codes, InvalidSessionAction
  <1>6. CASE ReadError
    BY <1>6, ReturnKeepsDelivery DEF ReadError, Codes
  <1>7. CASE ReadHeartbeatRequest
    BY <1>7, QuietKeepsDelivery DEF ReadHeartbeatRequest, clientVars, wireVars, serverVars
  <1>8. CASE ReadAck
    BY <1>8, QuietKeepsDelivery DEF ReadAck, clientVars, wireVars, serverVars
  <1>9. CASE WatchCtx
    BY <1>9, QuietKeepsDelivery DEF WatchCtx, clientVars, wireVars, serverVars
  <1>10. CASE Cancel
    BY <1>10, QuietKeepsDelivery DEF Cancel, clientVars, wireVars, serverVars
  <1>11. CASE SrvHello
    BY <1>11, QuietKeepsDelivery DEF SrvHello, clientVars, wireVars, serverVars, SrvUnchanged
  <1>12. CASE SrvAck
    BY <1>12, QuietKeepsDelivery DEF SrvAck, clientVars, wireVars, serverVars, SrvUnchanged
  <1>13. CASE SrvHeartbeatRequest
    BY <1>13, QuietKeepsDelivery DEF SrvHeartbeatRequest, clientVars, wireVars, serverVars, SrvUnchanged
  <1>14. CASE SrvReconnect
    BY <1>14, QuietKeepsDelivery DEF SrvReconnect, clientVars, wireVars, serverVars, SrvUnchanged
  <1>15. CASE Mute
    BY <1>15, QuietKeepsDelivery DEF Mute, clientVars, wireVars, serverVars, SrvUnchanged
  <1>16. ASSUME NEW g \in Conns, HbReturn(g) PROVE DeliveryInv'
    BY <1>16, QuietKeepsDelivery DEF HbReturn, clientVars, wireVars, serverVars
  <1>17. ASSUME NEW g \in Conns, HbAck(g) PROVE DeliveryInv'
    BY <1>17, QuietKeepsDelivery DEF HbAck, clientVars, wireVars, serverVars
  <1>18. ASSUME NEW g \in Conns, HbBeat(g) PROVE DeliveryInv'
    BY <1>18, QuietKeepsDelivery DEF HbBeat, clientVars, wireVars, serverVars
  <1>19. ASSUME NEW g \in Conns, HbTick(g) PROVE DeliveryInv'
    BY <1>19, QuietKeepsDelivery DEF HbTick, clientVars, wireVars, serverVars
  <1>20. ASSUME NEW g \in Conns, HbSend(g) PROVE DeliveryInv'
    BY <1>20, QuietKeepsDelivery DEF HbSend, clientVars, wireVars, serverVars
  <1>21. ASSUME NEW g \in Conns, HbForceReason(g) PROVE DeliveryInv'
    BY <1>21, QuietKeepsDelivery DEF HbForceReason, clientVars, wireVars, serverVars
  <1>22. ASSUME NEW g \in Conns, HbForceClose(g) PROVE DeliveryInv'
    BY <1>22, QuietKeepsDelivery DEF HbForceClose, clientVars, wireVars, serverVars
  <1>23. ASSUME NEW r \in BOOLEAN, SrvInvalidSession(r) PROVE DeliveryInv'
    BY <1>23, QuietKeepsDelivery DEF SrvInvalidSession, SrvUnchanged, clientVars, wireVars, serverVars, TypeOK, ServerTypes
  <1>24. ASSUME NEW c \in Closes, SrvClose(c) PROVE DeliveryInv'
    BY <1>24, QuietKeepsDelivery DEF SrvClose, SrvUnchanged, clientVars, wireVars, serverVars, TypeOK, ServerTypes
  <1>25. ASSUME NEW s \in Conns, SrvExpire(s) PROVE DeliveryInv'
    BY <1>25, QuietKeepsDelivery DEF SrvExpire, SrvUnchanged, clientVars, wireVars, serverVars, TypeOK, ServerTypes
  <1>26. CASE UNCHANGED vars
    BY <1>26, QuietKeepsDelivery DEF vars
  <1>27. CASE Stopped
    BY <1>27, QuietKeepsDelivery DEF Stopped, vars
  <1>28. CASE ReadDispatch
    BY <1>28, DispatchKeepsDelivery
  <1>29. CASE BackoffElapses
    BY <1>29 DEF BackoffElapses, wireVars, serverVars, DeliveryInv, LogsArePrefixes, WireFollowsLog, SeqFollowsLog, ResumeIsPossible, HandshakeIsCurrent, SessionsAreFresh, canResume
  <1>30. CASE BackoffCancelled
    BY <1>30 DEF BackoffCancelled, wireVars, serverVars, DeliveryInv, LogsArePrefixes, WireFollowsLog, SeqFollowsLog, ResumeIsPossible, HandshakeIsCurrent, SessionsAreFresh, canResume
  <1>31. CASE DialOK
    BY <1>31, ConstantsAssumption DEF DialOK, wireVars, serverVars, DeliveryInv, LogsArePrefixes, WireFollowsLog, SeqFollowsLog, ResumeIsPossible, HandshakeIsCurrent, SessionsAreFresh, canResume, TypeOK, ClientTypes, Conns
  <1>32. CASE ReadHello
    <2>1. /\ pc' = "read" /\ pc = "hello" /\ hs' = (IF resume THEN sendResume ELSE sendIdentify)
          /\ connSid = NoSession
          /\ UNCHANGED <<resume, sessionID, resumeURL, seq, gen, connSid, wireNext, srvSeq, alive, log>>
      BY <1>32 DEF ReadHello, serverVars, DeliveryInv, WireFollowsLog
    <2>2. HandshakeIsCurrent'
      BY <2>1 DEF HandshakeIsCurrent, sendResume, sendIdentify
    <2> QED BY <2>1, <2>2 DEF DeliveryInv, LogsArePrefixes, WireFollowsLog, SeqFollowsLog, ResumeIsPossible, HandshakeIsCurrent, SessionsAreFresh, canResume
  <1>33. ASSUME NEW k \in ReadyKinds, SrvIdentify(k) PROVE DeliveryInv'
    <2>1. gen \in Conns /\ srvSeq[gen] = 0 /\ log[gen] = <<>> /\ ~resume /\ connSid = NoSession /\ pc = "read"
      BY <1>33 DEF SrvIdentify, TypeOK, ServerTypes, DeliveryInv, LogsArePrefixes, WireFollowsLog, SeqFollowsLog, ResumeIsPossible, HandshakeIsCurrent, SessionsAreFresh
    <2>2. /\ hs' = NoHandshake /\ connSid' = gen /\ wireNext' = 1
          /\ srvSeq' = [srvSeq EXCEPT ![gen] = 1] /\ alive' = [alive EXCEPT ![gen] = TRUE]
          /\ UNCHANGED <<pc, resume, sessionID, resumeURL, seq, gen, log>>
      BY <1>33 DEF SrvIdentify, SrvUnchanged, clientVars
    <2>3. ~canResume /\ ~canResume'
      BY <2>1, <2>2 DEF DeliveryInv, ResumeIsPossible, canResume
    <2>4. LogsArePrefixes' /\ SessionsAreFresh'
      <3>1. /\ srvSeq'[gen] = 1
            /\ \A s \in Conns : s # gen => srvSeq'[s] = srvSeq[s] /\ alive'[s] = alive[s]
        BY <2>1, <2>2 DEF TypeOK, ServerTypes
      <3>2. LogsArePrefixes'
        BY <2>1, <2>2, <3>1 DEF DeliveryInv, LogsArePrefixes
      <3>3. SessionsAreFresh'
        BY <2>1, <2>2, <3>1 DEF DeliveryInv, SessionsAreFresh, NoHandshake, TypeOK, ClientTypes, Conns
      <3> QED BY <3>2, <3>3
    <2>5. WireFollowsLog' /\ SeqFollowsLog' /\ ResumeIsPossible' /\ HandshakeIsCurrent'
      BY <2>1, <2>2, <2>3 DEF WireFollowsLog, SeqFollowsLog, ResumeIsPossible, HandshakeIsCurrent, NoHandshake
    <2> QED BY <2>4, <2>5 DEF DeliveryInv
  <1>34. CASE SrvResume
    <2>1. /\ resume /\ hs.sid = sessionID /\ hs.seq = seq /\ connSid = NoSession /\ pc = "read" /\ canResume
          /\ log[sessionID] # <<>> /\ seq = Len(log[sessionID])
          /\ sessionID \in Conns
      BY <1>34, ConstantsAssumption DEF SrvResume, TypeOK, ClientTypes, Conns, NoSession, canResume, DeliveryInv, HandshakeIsCurrent, ResumeIsPossible, SeqFollowsLog
    <2>2. /\ hs' = NoHandshake
          /\ UNCHANGED <<pc, resume, sessionID, resumeURL, seq, gen, log, srvSeq>>
      BY <1>34 DEF SrvResume, SrvUnchanged, clientVars
    <2>3. \/ connSid' = sessionID /\ wireNext' = seq + 1
          \/ UNCHANGED <<connSid, wireNext>>
      BY <1>34, <2>1 DEF SrvResume
    <2>4. \A s \in Conns : alive'[s] => alive[s]
      BY <1>34 DEF SrvResume, TypeOK, ServerTypes
    <2>5. LogsArePrefixes' /\ SessionsAreFresh' /\ SeqFollowsLog'
      BY <2>2, <2>4 DEF DeliveryInv, LogsArePrefixes, SessionsAreFresh, SeqFollowsLog, canResume, NoHandshake
    <2>6. WireFollowsLog' /\ ResumeIsPossible' /\ HandshakeIsCurrent'
      BY <2>1, <2>2, <2>3 DEF DeliveryInv, WireFollowsLog, ResumeIsPossible, HandshakeIsCurrent, canResume, NoHandshake
    <2> QED BY <2>5, <2>6 DEF DeliveryInv
  <1>35. ASSUME NEW s \in Conns, SrvEmit(s) PROVE DeliveryInv'
    <2>1. /\ srvSeq' = [srvSeq EXCEPT ![s] = @ + 1] /\ srvSeq[s] # 0
          /\ UNCHANGED <<pc, resume, sessionID, resumeURL, seq, gen, connSid, wireNext, hs, alive, log>>
      BY <1>35 DEF SrvEmit, SrvUnchanged, clientVars, wireVars, DeliveryInv, SessionsAreFresh
    <2>2. LogsArePrefixes' /\ SessionsAreFresh'
      BY <2>1 DEF DeliveryInv, LogsArePrefixes, SessionsAreFresh, TypeOK, ServerTypes
    <2> QED BY <2>1, <2>2 DEF DeliveryInv, WireFollowsLog, SeqFollowsLog, ResumeIsPossible, HandshakeIsCurrent, canResume
  <1> QED BY <1>1, <1>2, <1>3, <1>4, <1>5, <1>6, <1>7, <1>8, <1>9, <1>10, <1>11, <1>12, <1>13, <1>14, <1>15, <1>16, <1>17, <1>18, <1>19, <1>20, <1>21, <1>22, <1>23, <1>24, <1>25, <1>26, <1>27, <1>28, <1>29, <1>30, <1>31, <1>32, <1>33, <1>34, <1>35 DEF Next, Run, Server, HeartbeatLoop

(* onDispatch is given the events of every session once and in order, for  *)
(* any number of reconnects: RESUME always continues where it stopped.     *)
THEOREM DeliveryInvariant == Spec => []DeliveryInv
  <1>1. Init => DeliveryInv
    BY DEF Init, DeliveryInv, LogsArePrefixes, WireFollowsLog, SeqFollowsLog, ResumeIsPossible, HandshakeIsCurrent, SessionsAreFresh, canResume, NoHandshake, NoSession
  <1>2. TypeOK /\ DeliveryInv /\ [Next]_vars => DeliveryInv'
    BY StepKeepsDelivery
  <1> QED BY <1>1, <1>2, TypeCorrect, PTL DEF Spec

(* The property the handlers care about.                                   *)
THEOREM Delivery == Spec => []InOrderExactlyOnce
  <1>1. DeliveryInv => InOrderExactlyOnce
    BY DEF DeliveryInv, LogsArePrefixes, InOrderExactlyOnce
  <1> QED BY <1>1, DeliveryInvariant, PTL

-----------------------------------------------------------------------------
(* The client implements EventStream: every step either numbers an event,  *)
(* hands the next one over, or is invisible.                               *)
THEOREM Implements == Spec => ImplementsEventStream
  <1>1. Init => ES!Init
    BY DEF Init, ES!Init
  <1>2. ASSUME TypeOK, DeliveryInv, [Next]_vars
        PROVE  [ES!Next]_<<srvSeq, log>>
    <2>1. CASE ReadDispatch
      <3>1. connSid \in Conns /\ wireNext = Len(log[connSid]) + 1 /\ wireNext <= srvSeq[connSid]
        BY <1>2, <2>1, ConstantsAssumption
        DEF ReadDispatch, TypeOK, WireTypes, DeliveryInv, WireFollowsLog, Conns, NoSession
      <3>2. Len(log[connSid]) \in Nat
        BY <1>2, <3>1 DEF TypeOK
      <3>3. ES!Deliver(connSid)
        BY <1>2, <2>1, <3>1, <3>2 DEF ReadDispatch, serverVars, ES!Deliver, TypeOK, ServerTypes
      <3> QED BY <3>1, <3>3 DEF ES!Next
    <2>2. ASSUME NEW k \in ReadyKinds, SrvIdentify(k) PROVE [ES!Next]_<<srvSeq, log>>
      <3>1. gen \in Conns /\ srvSeq[gen] = 0
        BY <1>2, <2>2 DEF SrvIdentify, TypeOK, DeliveryInv, SessionsAreFresh
      <3>2. ES!Emit(gen)
        BY <2>2, <3>1, <1>2 DEF SrvIdentify, SrvUnchanged, ES!Emit, TypeOK, ServerTypes
      <3> QED BY <3>1, <3>2 DEF ES!Next
    <2>3. ASSUME NEW s \in Conns, SrvEmit(s) PROVE [ES!Next]_<<srvSeq, log>>
      BY <2>3 DEF SrvEmit, SrvUnchanged, ES!Emit, ES!Next
    <2>4. CASE UNCHANGED <<srvSeq, log>>
      BY <2>4
    <2>5. ASSUME NEW g \in Conns, HeartbeatLoop(g) PROVE UNCHANGED <<srvSeq, log>>
      BY <2>5 DEF HeartbeatLoop, HbReturn, HbAck, HbBeat, HbTick, HbSend, HbForceReason,
                  HbForceClose, serverVars
    <2>6. CASE DialOK \/ DialFails \/ DialCancelled \/ BackoffElapses \/ BackoffCancelled
               \/ ReadHello \/ HelloFails
      BY <2>6 DEF DialOK, DialFails, DialCancelled, BackoffElapses, BackoffCancelled, ReadHello,
                  HelloFails, runOnceReturns, serverVars
    <2>7. CASE ReadHeartbeatRequest \/ ReadAck \/ ReadReconnect \/ ReadInvalidSession \/ ReadError
               \/ WatchCtx \/ Cancel \/ Stopped
      BY <2>7 DEF ReadHeartbeatRequest, ReadAck, ReadReconnect, ReadInvalidSession, ReadError,
                  WatchCtx, Cancel, Stopped, runOnceReturns, serverVars, vars
    <2>8. CASE SrvHello \/ SrvResume \/ SrvAck \/ SrvHeartbeatRequest \/ SrvReconnect \/ Mute
               \/ (\E r \in BOOLEAN : SrvInvalidSession(r)) \/ (\E c \in Closes : SrvClose(c))
               \/ (\E s \in Conns : SrvExpire(s))
      BY <2>8 DEF SrvHello, SrvResume, SrvAck, SrvHeartbeatRequest, SrvReconnect, Mute,
                  SrvInvalidSession, SrvClose, SrvExpire, SrvUnchanged, serverVars
    <2> QED BY <1>2, <2>1, <2>2, <2>3, <2>4, <2>5, <2>6, <2>7, <2>8 DEF Next, Run, Server, vars
  <1>3. Spec => [][ES!Next]_<<srvSeq, log>>
    BY <1>2, TypeCorrect, DeliveryInvariant, PTL DEF Spec
  <1> QED BY <1>1, <1>3, PTL DEF Spec, ImplementsEventStream, ES!Spec, ES!vars

-----------------------------------------------------------------------------
(* Sessions.  A step that only takes sessions away, and leaves a client    *)
(* that forgets nothing, keeps KeptInv.                                    *)
LEMMA QuietKeepsSessions ==
    ASSUME KeptInv,
           UNCHANGED <<pc, sessionID, resumeURL, connSid, hs, ready, log>>,
           \A s \in Conns : alive'[s] => alive[s],
           ctl' \in {"op9false", "reidentify"} => ctl' = ctl
    PROVE  KeptInv'
  BY DEF KeptInv, canResume

(* When the client forgets its session the server has forgotten it before. *)
LEMMA ReturnKeepsSessions ==
    ASSUME TypeOK, DeliveryInv, KeptInv, NEW a \in Codes, runOnceReturns(a),
           a = "reidentify" => pc = "read" /\ ctl \in {"op9false", "reidentify"}
    PROVE  KeptInv'
  <1>1. /\ RunDecides(a) /\ pc' # "read"
        /\ UNCHANGED <<alive, ready, log>>
    BY DEF runOnceReturns, serverVars, RunDecides
  <1>2. CASE UNCHANGED <<sessionID, resumeURL>>
    BY <1>1, <1>2 DEF KeptInv
  <1>3. CASE a = "reidentify" /\ clearSession
    <2>1. ASSUME NEW s \in Conns, alive[s], log[s] # <<>>, ready[s] = "full" PROVE FALSE
      <3>1. sessionID = s /\ resumeURL
        BY <2>1 DEF KeptInv
      <3>2. canResume
        BY <3>1, ConstantsAssumption DEF canResume, Conns, NoSession
      <3> QED BY <1>3, <2>1, <3>1, <3>2 DEF KeptInv
    <2> QED BY <1>1, <2>1 DEF KeptInv
  <1> QED BY <1>1, <1>2, <1>3 DEF RunDecides

(* Every step keeps the session invariant.                                 *)
LEMMA StepKeepsSessions ==
    ASSUME TypeOK, DeliveryInv, KeptInv, [Next]_vars
    PROVE  KeptInv'
  <1>1. CASE DialFails
    BY <1>1, ReturnKeepsSessions DEF DialFails, Codes
  <1>2. CASE DialCancelled
    BY <1>2, ReturnKeepsSessions DEF DialCancelled, Codes
  <1>3. CASE HelloFails
    BY <1>3, ReturnKeepsSessions DEF HelloFails, Codes
  <1>4. CASE ReadReconnect
    BY <1>4, ReturnKeepsSessions DEF ReadReconnect, Codes
  <1>5. CASE ReadInvalidSession
    BY <1>5, ReturnKeepsSessions DEF ReadInvalidSession, InvalidSessionAction, Codes
  <1>6. CASE ReadError
    <2>1. PICK a \in Codes : runOnceReturns(a) /\ (a = "resume" \/ a = ctl)
      BY <1>6 DEF ReadError, Codes
    <2> QED BY <1>6, <2>1, ReturnKeepsSessions DEF ReadError
  <1>7. CASE ReadHeartbeatRequest
    BY <1>7, QuietKeepsSessions DEF ReadHeartbeatRequest, clientVars, wireVars, serverVars
  <1>8. CASE ReadAck
    BY <1>8, QuietKeepsSessions DEF ReadAck, clientVars, wireVars, serverVars
  <1>9. CASE WatchCtx
    BY <1>9, QuietKeepsSessions DEF WatchCtx, clientVars, wireVars, serverVars
  <1>10. CASE Cancel
    BY <1>10, QuietKeepsSessions DEF Cancel, clientVars, wireVars, serverVars
  <1>11. CASE SrvAck
    BY <1>11, QuietKeepsSessions DEF SrvAck, clientVars, wireVars, serverVars, SrvUnchanged
  <1>12. CASE SrvHeartbeatRequest
    BY <1>12, QuietKeepsSessions DEF SrvHeartbeatRequest, clientVars, wireVars, serverVars, SrvUnchanged
  <1>13. CASE SrvReconnect
    BY <1>13, QuietKeepsSessions DEF SrvReconnect, clientVars, wireVars, serverVars, SrvUnchanged
  <1>14. CASE Mute
    BY <1>14, QuietKeepsSessions DEF Mute, clientVars, wireVars, serverVars, SrvUnchanged
  <1>15. CASE SrvHello
    BY <1>15, QuietKeepsSessions DEF SrvHello, SrvUnchanged, clientVars, serverVars
  <1>16. ASSUME NEW g \in Conns, HbReturn(g) PROVE KeptInv'
    BY <1>16, QuietKeepsSessions DEF HbReturn, clientVars, wireVars, serverVars
  <1>17. ASSUME NEW g \in Conns, HbAck(g) PROVE KeptInv'
    BY <1>17, QuietKeepsSessions DEF HbAck, clientVars, wireVars, serverVars
  <1>18. ASSUME NEW g \in Conns, HbBeat(g) PROVE KeptInv'
    BY <1>18, QuietKeepsSessions DEF HbBeat, clientVars, wireVars, serverVars
  <1>19. ASSUME NEW g \in Conns, HbTick(g) PROVE KeptInv'
    BY <1>19, QuietKeepsSessions DEF HbTick, clientVars, wireVars, serverVars
  <1>20. ASSUME NEW g \in Conns, HbSend(g) PROVE KeptInv'
    BY <1>20, QuietKeepsSessions DEF HbSend, clientVars, wireVars, serverVars
  <1>21. ASSUME NEW g \in Conns, HbForceReason(g) PROVE KeptInv'
    BY <1>21, QuietKeepsSessions DEF HbForceReason, clientVars, wireVars, serverVars
  <1>22. ASSUME NEW g \in Conns, HbForceClose(g) PROVE KeptInv'
    BY <1>22, QuietKeepsSessions DEF HbForceClose, clientVars, wireVars, serverVars
  <1>23. ASSUME NEW s \in Conns, SrvExpire(s) PROVE KeptInv'
    BY <1>23, QuietKeepsSessions DEF SrvExpire, SrvUnchanged, clientVars, wireVars, TypeOK, ServerTypes
  <1>24. ASSUME NEW s \in Conns, SrvEmit(s) PROVE KeptInv'
    BY <1>24, QuietKeepsSessions DEF SrvEmit, SrvUnchanged, clientVars, wireVars
  <1>25. CASE UNCHANGED vars \/ Stopped
    BY <1>25, QuietKeepsSessions DEF Stopped, vars
  <1>26. CASE BackoffElapses
    BY <1>26 DEF BackoffElapses, wireVars, serverVars, KeptInv
  <1>27. CASE BackoffCancelled
    BY <1>27 DEF BackoffCancelled, wireVars, serverVars, KeptInv
  <1>28. CASE DialOK
    BY <1>28 DEF DialOK, wireVars, serverVars, KeptInv
  <1>29. CASE ReadHello
    <2>1. hs'.kind # "none" /\ ctl' = "none"
      BY <1>29 DEF ReadHello, sendResume, sendIdentify
    <2> QED BY <1>29, <2>1 DEF ReadHello, serverVars, KeptInv
  <1>30. CASE ReadDispatch
    <2>1. /\ connSid \in Conns /\ connSid # NoSession /\ wireNext = Len(log[connSid]) + 1
          /\ log[connSid] \in Seq(1 .. MaxSeq)
          /\ log' = [log EXCEPT ![connSid] = Append(@, wireNext)]
          /\ UNCHANGED <<pc, hs, connSid, ctl, alive, ready>>
      BY <1>30, ConstantsAssumption
      DEF ReadDispatch, TypeOK, WireTypes, DeliveryInv, WireFollowsLog, Conns, NoSession, serverVars
    <2>2. canResume => sessionID = connSid
      BY <2>1 DEF DeliveryInv, ResumeIsPossible
    <2>3. canResume' => sessionID' = connSid
      BY <1>30, <2>2 DEF ReadDispatch, canResume
    <2>4. ASSUME NEW s \in Conns, alive'[s], log'[s] # <<>>, ready'[s] = "full"
          PROVE  sessionID' = s /\ resumeURL'
      <3>1. CASE s = connSid /\ wireNext = 1
        BY <1>30, <2>1, <2>4, <3>1 DEF ReadDispatch
      <3>2. CASE s = connSid /\ wireNext # 1
        <4>1. log[s] # <<>>
          BY <2>1, <3>2
        <4> QED BY <1>30, <2>1, <2>4, <3>2, <4>1 DEF ReadDispatch, KeptInv
      <3>3. CASE s # connSid
        <4>1. sessionID = s /\ resumeURL
          BY <2>1, <2>4, <3>3 DEF KeptInv, TypeOK
        <4> QED BY <2>2, <3>3, <4>1, ConstantsAssumption DEF canResume, Conns, NoSession
      <3> QED BY <3>1, <3>2, <3>3
    <2> QED BY <2>1, <2>3, <2>4 DEF KeptInv
  <1>31. ASSUME NEW k \in ReadyKinds, SrvIdentify(k) PROVE KeptInv'
    <2>1. gen \in Conns /\ log[gen] = <<>> /\ connSid' = gen /\ gen # NoSession
      BY <1>31, ConstantsAssumption
      DEF SrvIdentify, TypeOK, ServerTypes, DeliveryInv, SessionsAreFresh, LogsArePrefixes, Conns, NoSession
    <2>2. /\ alive' = [alive EXCEPT ![gen] = TRUE] /\ ready' = [ready EXCEPT ![gen] = k]
          /\ UNCHANGED <<pc, sessionID, resumeURL, ctl, log>> /\ ctl \in {"none", "op1"}
      BY <1>31 DEF SrvIdentify, SrvUnchanged, clientVars
    <2> QED BY <2>1, <2>2 DEF KeptInv, TypeOK, ServerTypes
  <1>32. CASE SrvResume
    <2>1. /\ hs.sid = sessionID /\ hs.kind = "resume" /\ connSid = NoSession /\ ctl \in {"none", "op1"}
          /\ UNCHANGED <<pc, sessionID, resumeURL, ready, log>>
          /\ sessionID \in Conns /\ sessionID # NoSession
      BY <1>32, ConstantsAssumption
      DEF SrvResume, SrvUnchanged, clientVars, DeliveryInv, HandshakeIsCurrent, ResumeIsPossible,
          canResume, TypeOK, ClientTypes, Conns, NoSession
    <2>2. \A s \in Conns : alive'[s] => alive[s]
      BY <1>32 DEF SrvResume, TypeOK, ServerTypes
    <2>3. \/ connSid' = sessionID /\ UNCHANGED ctl
          \/ connSid' = NoSession /\ ~alive'[sessionID]
      BY <1>32, <2>1 DEF SrvResume, TypeOK, ServerTypes
    <2> QED BY <2>1, <2>2, <2>3 DEF KeptInv, canResume, Conns, NoSession
  <1>33. ASSUME NEW r \in BOOLEAN, SrvInvalidSession(r) PROVE KeptInv'
    <2>1. /\ UNCHANGED <<pc, sessionID, resumeURL, connSid, hs, ready, log>> /\ connSid # NoSession
          /\ ctl' = (IF r THEN "op9true" ELSE "op9false")
          /\ alive' = [alive EXCEPT ![connSid] = r /\ @]
      BY <1>33 DEF SrvInvalidSession, SrvUnchanged, clientVars
    <2>2. /\ \A s \in Conns : alive'[s] => alive[s]
          /\ ~r => \A s \in Conns : s = connSid => ~alive'[s]
      BY Zenon, <2>1 DEF TypeOK, ServerTypes
    <2>3. canResume => sessionID = connSid
      BY <2>1 DEF DeliveryInv, ResumeIsPossible
    <2> QED BY <2>1, <2>2, <2>3 DEF KeptInv, canResume
  <1>34. ASSUME NEW c \in Closes, SrvClose(c) PROVE KeptInv'
    <2>1. /\ UNCHANGED <<pc, sessionID, resumeURL, connSid, hs, ready, log>>
          /\ ctl' = c /\ c # "op9false"
          /\ alive' = [s \in Conns |-> alive[s] /\ ~(c = "reidentify" /\ s \in {connSid, hs.sid})]
      BY <1>34 DEF SrvClose, SrvUnchanged, clientVars, Closes, Codes
    <2>2. \A s \in Conns : alive'[s] => alive[s]
      BY Zenon, <2>1
    <2>3. CASE c # "reidentify"
      BY <2>1, <2>2, <2>3, QuietKeepsSessions
    <2>4. CASE c = "reidentify"
      <3>1. \A s \in Conns : s \in {connSid, hs.sid} => ~alive'[s]
        BY Zenon, <2>1, <2>4
      <3>2. pc = "read" /\ canResume /\ connSid # NoSession => sessionID = connSid
        BY DEF DeliveryInv, ResumeIsPossible
      <3>3. pc = "read" /\ canResume /\ connSid = NoSession /\ hs.kind # "none" => sessionID = hs.sid
        BY DEF DeliveryInv, ResumeIsPossible, HandshakeIsCurrent, TypeOK, WireTypes, Handshakes
      <3>4. pc = "read" => \A s \in Conns : (canResume /\ s = sessionID) \/ s = connSid => ~alive'[s]
        BY <2>2, <3>1, <3>2, <3>3 DEF KeptInv
      <3> QED BY <2>1, <2>2, <3>4 DEF KeptInv, canResume
    <2> QED BY <2>3, <2>4
  <1> QED BY <1>1, <1>2, <1>3, <1>4, <1>5, <1>6, <1>7, <1>8, <1>9, <1>10, <1>11, <1>12, <1>13, <1>14, <1>15, <1>16, <1>17, <1>18, <1>19, <1>20, <1>21, <1>22, <1>23, <1>24, <1>25, <1>26, <1>27, <1>28, <1>29, <1>30, <1>31, <1>32, <1>33, <1>34 DEF Next, Run, Server, HeartbeatLoop

(* What READY stored stays the session the server can resume: Run's        *)
(* clearSession forgets only sessions that are dead.                       *)
THEOREM KeptInvariant == Spec => []KeptInv
  <1>1. Init => KeptInv
    BY DEF Init, KeptInv
  <1> QED BY <1>1, StepKeepsSessions, TypeCorrect, DeliveryInvariant, PTL DEF Spec

(* IDENTIFY never throws away a session the client could have resumed.     *)
THEOREM SessionsKept == Spec => SessionKept
  <1>3. ASSUME DeliveryInv, KeptInv, [Next]_vars,
               pc = "hello", pc' = "read", hs'.kind = "identify",
               NEW s \in Conns, alive[s], log[s] # <<>>, ready[s] = "full"
        PROVE  FALSE
    <2>1. sessionID = s /\ resumeURL
      BY <1>3 DEF KeptInv
    <2>2. resume
      BY <1>3, <2>1, ConstantsAssumption
      DEF DeliveryInv, ResumeIsPossible, WireFollowsLog, canResume, Conns, NoSession
    <2>3. CASE ReadHello
      BY <1>3, <2>2, <2>3 DEF ReadHello, sendResume
    <2>4. pc' = pc \/ pc' \in {"dial", "hello", "backoff", "stopped"} \/ ReadHello
      BY <1>3 DEF Next, Run, Server, HeartbeatLoop, vars, DialOK, DialFails, DialCancelled,
         BackoffElapses, BackoffCancelled, HelloFails, ReadDispatch, ReadHeartbeatRequest, ReadAck,
         ReadReconnect, ReadInvalidSession, ReadError, runOnceReturns, RunDecides, WatchCtx, Cancel,
         Stopped, SrvHello, SrvResume, SrvAck, SrvHeartbeatRequest, SrvReconnect, Mute, SrvIdentify,
         SrvInvalidSession, SrvClose, SrvEmit, SrvExpire, SrvUnchanged, HbReturn, HbAck, HbBeat,
         HbTick, HbSend, HbForceReason, HbForceClose, clientVars
    <2> QED BY <1>3, <2>3, <2>4
  <1>4. DeliveryInv /\ KeptInv /\ [Next]_vars
        => [(pc = "hello" /\ pc' = "read" /\ hs'.kind = "identify")
            => \A s \in Conns : alive[s] => log[s] = <<>> \/ ready[s] # "full"]_vars
    BY <1>3
  <1> QED BY <1>4, KeptInvariant, DeliveryInvariant, PTL DEF Spec, SessionKept

-----------------------------------------------------------------------------
(* Heartbeat loops.                                                        *)

(* Leaving a connection stops its loop; no other loop was running.         *)
LEMMA ReturnStopsLoop ==
    ASSUME TypeOK, OneHeartbeatLoop, NEW a \in Codes, runOnceReturns(a)
    PROVE  OneHeartbeatLoop'
  <1>1. \A g \in Conns : /\ hb'[g].pc = hb[g].pc
                         /\ g = gen => hb'[g].cancelled
                         /\ g # gen => hb'[g] = hb[g]
    BY DEF runOnceReturns, stopHeartbeat, TypeOK, HeartbeatStates
  <1> QED BY <1>1 DEF OneHeartbeatLoop

(* Every step keeps it.                                                    *)
LEMMA StepKeepsOneLoop ==
    ASSUME TypeOK, OneHeartbeatLoop, [Next]_vars
    PROVE  OneHeartbeatLoop'
  <1>1. CASE DialFails
    BY <1>1, ReturnStopsLoop DEF DialFails, Codes
  <1>2. CASE DialCancelled
    BY <1>2, ReturnStopsLoop DEF DialCancelled, Codes
  <1>3. CASE HelloFails
    BY <1>3, ReturnStopsLoop DEF HelloFails, Codes
  <1>4. CASE ReadReconnect
    BY <1>4, ReturnStopsLoop DEF ReadReconnect, Codes
  <1>5. CASE ReadInvalidSession
    BY <1>5, ReturnStopsLoop DEF ReadInvalidSession, InvalidSessionAction, Codes
  <1>6. CASE ReadError
    BY <1>6, ReturnStopsLoop DEF ReadError, Codes
  <1>7. CASE DialOK
    BY <1>7 DEF DialOK, OneHeartbeatLoop
  <1>8. CASE BackoffElapses
    BY <1>8 DEF BackoffElapses, OneHeartbeatLoop
  <1>9. CASE BackoffCancelled
    BY <1>9 DEF BackoffCancelled, OneHeartbeatLoop
  <1>10. CASE ReadHello
    BY <1>10 DEF ReadHello, OneHeartbeatLoop, TypeOK
  <1>11. CASE ReadHeartbeatRequest
    BY <1>11 DEF ReadHeartbeatRequest, clientVars, OneHeartbeatLoop, TypeOK, HeartbeatStates
  <1>12. CASE ReadAck
    BY <1>12 DEF ReadAck, clientVars, OneHeartbeatLoop, TypeOK, HeartbeatStates
  <1>13. CASE ReadDispatch \/ WatchCtx \/ Cancel \/ UNCHANGED vars \/ Stopped
    BY <1>13 DEF ReadDispatch, WatchCtx, Cancel, Stopped, vars, clientVars, OneHeartbeatLoop
  <1>14. CASE Server
    <2>1. UNCHANGED <<pc, gen, hb>>
      BY <1>14 DEF Server, SrvHello, SrvResume, SrvAck, SrvHeartbeatRequest, SrvReconnect, Mute, SrvIdentify,
         SrvInvalidSession, SrvClose, SrvEmit, SrvExpire, SrvUnchanged, clientVars
    <2> QED BY <2>1 DEF OneHeartbeatLoop
  <1>15. ASSUME NEW g \in Conns, HbReturn(g) PROVE OneHeartbeatLoop'
    BY <1>15 DEF HbReturn, clientVars, OneHeartbeatLoop, TypeOK, HeartbeatStates, Ended, Idle
  <1>16. ASSUME NEW g \in Conns, HbAck(g) PROVE OneHeartbeatLoop'
    BY <1>16 DEF HbAck, clientVars, OneHeartbeatLoop, TypeOK, HeartbeatStates, Ended, Idle
  <1>17. ASSUME NEW g \in Conns, HbBeat(g) PROVE OneHeartbeatLoop'
    BY <1>17 DEF HbBeat, clientVars, OneHeartbeatLoop, TypeOK, HeartbeatStates, Ended, Idle
  <1>18. ASSUME NEW g \in Conns, HbTick(g) PROVE OneHeartbeatLoop'
    <2>1. /\ hb[g].pc \notin {"none", "done"} /\ UNCHANGED <<pc, gen>>
          /\ \/ hb' = [hb EXCEPT ![g].pc = "force"]
             \/ hb' = [hb EXCEPT ![g].pc = "send", ![g].asked = FALSE]
      BY <1>18 DEF HbTick, clientVars
    <2>2. /\ hb'[g].cancelled = hb[g].cancelled
          /\ \A h \in Conns : h # g => hb'[h] = hb[h]
      <3>1. hb[g] \in HeartbeatStates /\ hb \in [Conns -> HeartbeatStates]
        BY DEF TypeOK
      <3>2. CASE hb' = [hb EXCEPT ![g].pc = "force"]
        BY <3>1, <3>2 DEF HeartbeatStates
      <3>3. CASE hb' = [hb EXCEPT ![g].pc = "send", ![g].asked = FALSE]
        BY <3>1, <3>3 DEF HeartbeatStates, Ended, Idle
      <3> QED BY <2>1, <3>2, <3>3
    <2> QED BY <2>1, <2>2 DEF OneHeartbeatLoop
  <1>19. ASSUME NEW g \in Conns, HbSend(g) PROVE OneHeartbeatLoop'
    <2>1. /\ hb[g].pc \notin {"none", "done"} /\ UNCHANGED <<pc, gen>>
          /\ \/ hb' = [hb EXCEPT ![g].pc = "select", ![g].awaiting = TRUE]
             \/ hb' = [hb EXCEPT ![g] = Ended(@)]
      BY <1>19 DEF HbSend, clientVars
    <2>2. /\ hb'[g].cancelled = hb[g].cancelled
          /\ \A h \in Conns : h # g => hb'[h] = hb[h]
      <3>1. hb[g] \in HeartbeatStates /\ hb \in [Conns -> HeartbeatStates]
        BY DEF TypeOK
      <3>2. CASE hb' = [hb EXCEPT ![g].pc = "select", ![g].awaiting = TRUE]
        BY <3>1, <3>2 DEF HeartbeatStates
      <3>3. CASE hb' = [hb EXCEPT ![g] = Ended(@)]
        BY <3>1, <3>3 DEF HeartbeatStates, Ended, Idle
      <3> QED BY <2>1, <3>2, <3>3
    <2> QED BY <2>1, <2>2 DEF OneHeartbeatLoop
  <1>20. ASSUME NEW g \in Conns, HbForceReason(g) PROVE OneHeartbeatLoop'
    BY <1>20 DEF HbForceReason, clientVars, OneHeartbeatLoop, TypeOK, HeartbeatStates, Ended, Idle
  <1>21. ASSUME NEW g \in Conns, HbForceClose(g) PROVE OneHeartbeatLoop'
    BY <1>21 DEF HbForceClose, clientVars, OneHeartbeatLoop, TypeOK, HeartbeatStates, Ended, Idle
  <1> QED BY <1>1, <1>2, <1>3, <1>4, <1>5, <1>6, <1>7, <1>8, <1>9, <1>10, <1>11, <1>12, <1>13, <1>14, <1>15, <1>16, <1>17, <1>18, <1>19, <1>20, <1>21 DEF Next, Run, HeartbeatLoop

(* However often Run reconnects, only the connection it reads has a        *)
(* heartbeat loop that was not told to stop.                               *)
THEOREM OneLoop == Spec => []OneHeartbeatLoop
  <1>1. Init => OneHeartbeatLoop
    BY DEF Init, OneHeartbeatLoop, Idle
  <1> QED BY <1>1, StepKeepsOneLoop, TypeCorrect, PTL DEF Spec

(* The invariant that TLC checks, part by part, for every bound: types,    *)
(* the resume point, the sessions kept and the single heartbeat loop.      *)
THEOREM Invariance == Spec => []GatewayInv
  BY TypeCorrect, DeliveryInvariant, KeptInvariant, OneLoop, PTL DEF GatewayInv

(* The reason forceClose stores is there before the connection is closed   *)
(* and until the read loop has met the error; closeReason is cleared only  *)
(* by a dial and by the read loop itself, both without a connection that a *)
(* loop of ours has closed.                                                *)
THEOREM ReasonComesFirst == Spec => []ClosedWithReason
  <1>1. Init => ClosedWithReason
    BY DEF Init, ClosedWithReason, Connected, Idle
  <1>2. ASSUME TypeOK, ClosedWithReason, [Next]_vars PROVE ClosedWithReason'
    <2> USE <1>2 DEF Connected
    <2>1. hb \in [Conns -> HeartbeatStates] /\ gen \in Nat /\ (Connected => gen \in Conns)
      BY DEF TypeOK, ClientTypes, Conns
    <2>2. ASSUME NEW a \in Codes, runOnceReturns(a) PROVE ClosedWithReason'
      <3>1. ~localClosed' /\ ~Connected' /\ gen' = gen
        BY <2>2 DEF runOnceReturns, DropWire, RunDecides
      <3>2. \A g \in Conns : hb'[g].pc = hb[g].pc
        BY <2>1, <2>2 DEF runOnceReturns, stopHeartbeat, HeartbeatStates
      <3> QED BY <3>1, <3>2 DEF ClosedWithReason
    <2>3. CASE DialOK
      <3>1. ~localClosed' /\ gen' = gen + 1 /\ gen' \in Conns /\ hb' = hb
        BY <2>1, <2>3, ConstantsAssumption DEF DialOK, ClosedWithReason, Conns
      <3>2. \A g \in Conns : g >= gen' => hb'[g].pc = "none"
        BY <2>1, <3>1 DEF ClosedWithReason, Conns
      <3> QED BY <2>1, <3>1, <3>2 DEF ClosedWithReason, Conns
    <2>4. CASE DialFails \/ DialCancelled \/ HelloFails \/ ReadReconnect
      BY <2>2, <2>4 DEF DialFails, DialCancelled, HelloFails, ReadReconnect, Codes
    <2>5. CASE ReadInvalidSession
      BY <2>2, <2>5 DEF ReadInvalidSession, InvalidSessionAction, Codes
    <2>6. CASE ReadError
      BY <2>2, <2>6 DEF ReadError, Codes
    <2>7. CASE ReadHello
      BY <2>1, <2>7 DEF ReadHello, ClosedWithReason, Idle, Conns
    <2>8. CASE ReadHeartbeatRequest \/ ReadAck
      <3>1. UNCHANGED <<pc, gen, localClosed, cancelled, closeReason>>
        BY <2>8 DEF ReadHeartbeatRequest, ReadAck, clientVars
      <3>2. \A g \in Conns : hb'[g].pc = hb[g].pc
        BY <2>1, <2>8 DEF ReadHeartbeatRequest, ReadAck, HeartbeatStates
      <3> QED BY <2>1, <3>1, <3>2 DEF ClosedWithReason
    <2>9. CASE BackoffElapses \/ BackoffCancelled \/ ReadDispatch \/ WatchCtx \/ Cancel
               \/ UNCHANGED vars \/ Stopped
      BY <2>9 DEF BackoffElapses, BackoffCancelled, ReadDispatch, WatchCtx, Cancel, Stopped, vars,
         clientVars, ClosedWithReason
    <2>10. CASE Server
      <3>1. UNCHANGED <<pc, gen, hb, localClosed, cancelled, closeReason>>
        BY <2>10 DEF Server, SrvHello, SrvResume, SrvAck, SrvHeartbeatRequest, SrvReconnect, Mute, SrvIdentify,
           SrvInvalidSession, SrvClose, SrvEmit, SrvExpire, SrvUnchanged, clientVars
      <3> QED BY <3>1 DEF ClosedWithReason
    <2>11. ASSUME NEW g \in Conns, HeartbeatLoop(g) PROVE ClosedWithReason'
      <3>1. UNCHANGED <<pc, gen, cancelled>> /\ hb[g].pc # "none" /\ (closeReason => closeReason')
        BY <2>11 DEF HeartbeatLoop, HbReturn, HbAck, HbBeat, HbTick, HbSend, HbForceReason,
           HbForceClose, clientVars
      <3>2. ~(g > gen)
        BY <3>1 DEF ClosedWithReason
      <3>3. \A h \in Conns : h # g => hb'[h] = hb[h]
        BY <2>1, <2>11 DEF HeartbeatLoop, HbReturn, HbAck, HbBeat, HbTick, HbSend, HbForceReason,
           HbForceClose
      <3>4. hb'[g].pc = "closing" => closeReason'
        <4>1. CASE HbForceReason(g)
          BY <4>1 DEF HbForceReason
        <4>2. CASE HbAck(g) \/ HbBeat(g) \/ HbReturn(g)
          <5>1. hb[g].pc = "select" /\ hb[g] \in HeartbeatStates
            BY <2>1, <4>2 DEF HbAck, HbBeat, HbReturn
          <5>2. CASE HbAck(g)
            BY <2>1, <5>1, <5>2 DEF HbAck, HeartbeatStates
          <5>3. CASE HbBeat(g)
            BY <2>1, <5>1, <5>3 DEF HbBeat, HeartbeatStates
          <5>4. CASE HbReturn(g)
            BY <2>1, <5>1, <5>4 DEF HbReturn, Ended, Idle
          <5> QED BY <4>2, <5>2, <5>3, <5>4
        <4>3. CASE HbTick(g)
          BY <2>1, <4>3 DEF HbTick, HeartbeatStates
        <4>4. CASE HbSend(g) \/ HbForceClose(g)
          <5>1. Ended(hb[g]).pc = "done"
            BY DEF Ended, Idle
          <5>2. CASE hb' = [hb EXCEPT ![g] = Ended(hb[g])]
            BY <2>1, <5>1, <5>2
          <5>3. CASE hb' = [hb EXCEPT ![g].pc = "select", ![g].awaiting = TRUE]
            BY <2>1, <5>3 DEF HeartbeatStates
          <5> QED BY <4>4, <5>2, <5>3 DEF HbSend, HbForceClose
        <4> QED BY <2>11, <4>1, <4>2, <4>3, <4>4 DEF HeartbeatLoop
      <3>5. localClosed' => localClosed \/ (g = gen /\ Connected /\ hb[g].pc = "closing")
        BY <2>11 DEF HeartbeatLoop, HbReturn, HbAck, HbBeat, HbTick, HbSend, HbForceReason,
           HbForceClose
      <3>6. localClosed' => Connected' /\ (closeReason' \/ cancelled')
        BY <3>1, <3>5 DEF ClosedWithReason
      <3>7. Connected' /\ hb'[gen'].pc = "closing" => closeReason'
        BY <2>1, <3>1, <3>3, <3>4 DEF ClosedWithReason
      <3>8. \A h \in Conns : h > gen' => hb'[h].pc = "none"
        BY <3>1, <3>2, <3>3 DEF ClosedWithReason
      <3> QED BY <3>6, <3>7, <3>8 DEF ClosedWithReason
    <2> QED BY <2>3, <2>4, <2>5, <2>6, <2>7, <2>8, <2>9, <2>10, <2>11 DEF Next, Run
  <1> QED BY <1>1, <1>2, TypeCorrect, PTL DEF Spec
=============================================================================
