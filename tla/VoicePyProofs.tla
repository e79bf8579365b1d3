--------------------------- MODULE VoicePyProofs ---------------------------
(***************************************************************************)
(* Proofs about VoicePy for any set of migration tasks and any bounds: one *)
(* task at a time drives the connection and somebody always does           *)
(* (DrivenByOne), close() leaves nothing behind (ClosedIsQuiet), and the   *)
(* media of a connection at rest belong to one session                     *)
(* (MediaOfOneSession).                                                    *)
(***************************************************************************)
EXTENDS VoicePy, FiniteSetTheorems, TLAPS

-----------------------------------------------------------------------------
(* What the helpers do to the tasks.                                       *)

(* The application, the reader and the migrations are different tasks.     *)
LEMMA TaskNames ==
    /\ "app" \in Tasks /\ "reader" \in Tasks /\ Migs \subseteq Tasks
    /\ \A m \in Migs : m # "app" /\ m # "reader"
  BY VoiceAssumption DEF Tasks

(* One task moves to p, and no other moves.                                *)
PcSet(t, p) ==
    /\ pc' \in [Tasks -> Places] /\ pc'[t] = p
    /\ \A u \in Tasks : u # t => pc'[u] = pc[u]

(* Goto moves one task.                                                    *)
LEMMA GotoSets ==
    ASSUME TaskTypes, NEW t \in Tasks, NEW p \in Places, Goto(t, p)
    PROVE  PcSet(t, p)
  BY DEF TaskTypes, Goto, PcSet

(* An exception takes a task to where its caller catches it.               *)
Caught(t) ==
    /\ resume' \in [Tasks -> BOOLEAN] /\ \A u \in Tasks : resume'[u] => resume[u]
    /\ entry' \in BOOLEAN /\ broken' \in BOOLEAN /\ (broken => broken')
    /\ \/ t = "reader" /\ PcSet(t, "stopws") /\ ~resume'["reader"]
       \/ t = "reader" /\ PcSet(t, "backoff")
       \/ t # "reader" /\ PcSet(t, "raised") /\ broken'

(* Raises is such an exception.                                            *)
LEMMA RaisesSets ==
    ASSUME TypeOK, NEW t \in Tasks, Raises(t)
    PROVE  Caught(t)
  <1>0. entry \in BOOLEAN /\ broken \in BOOLEAN /\ TaskTypes /\ resume \in [Tasks -> BOOLEAN]
    BY DEF TypeOK, FlagTypes, TaskTypes
  <1>p. "stopws" \in Places /\ "backoff" \in Places /\ "raised" \in Places
    BY DEF Places, Working, Handshake
  <1>1. CASE t = "reader" /\ Goto(t, "stopws") /\ resume' = [resume EXCEPT ![t] = FALSE] /\ UNCHANGED <<entry, broken>>
    <2>1. PcSet(t, "stopws")
      BY <1>0, <1>1, <1>p, GotoSets
    <2>2. /\ resume' \in [Tasks -> BOOLEAN] /\ ~resume'[t]
          /\ \A u \in Tasks : u # t => resume'[u] = resume[u]
      BY Zenon, <1>0, <1>1
    <2> QED BY <1>0, <1>1, <2>1, <2>2 DEF Caught
  <1>2. CASE t = "reader" /\ Goto(t, "backoff") /\ UNCHANGED <<resume, entry, broken>>
    <2>1. PcSet(t, "backoff")
      BY <1>0, <1>2, <1>p, GotoSets
    <2> QED BY <1>0, <1>2, <2>1 DEF Caught
  <1>3. CASE t # "reader" /\ Goto(t, "raised") /\ broken' = TRUE /\ entry' = (entry /\ t # "app") /\ UNCHANGED resume
    <2>1. PcSet(t, "raised")
      BY <1>0, <1>3, <1>p, GotoSets
    <2>2. entry' \in BOOLEAN
      BY Zenon, <1>3
    <2> QED BY <1>0, <1>3, <2>1, <2>2 DEF Caught
  <1> QED BY <1>1, <1>2, <1>3 DEF Raises

(* A task that has finished its handshake is, or leaves behind, a reader.  *)
Finished(t) ==
    /\ readerSet' \in BOOLEAN /\ pc' \in [Tasks -> Places]
    /\ \A u \in Tasks : u \notin {t, "reader"} => pc'[u] = pc[u]
    /\ \/ t = "reader" /\ pc'[t] = "top" /\ readerSet' = readerSet
       \/ /\ t # "reader" /\ pc'[t] = "done" /\ readerSet'
          /\ readerSet => pc'["reader"] = pc["reader"]
          /\ ~readerSet => pc'["reader"] = "top"

(* Finish is such an end.                                                  *)
LEMMA FinishSets ==
    ASSUME TypeOK, NEW t \in Tasks, Finish(t)
    PROVE  Finished(t)
  <1>0. pc \in [Tasks -> Places] /\ readerSet \in BOOLEAN /\ TaskTypes
    BY DEF TypeOK, TaskTypes, FlagTypes
  <1>p. "top" \in Places /\ "done" \in Places
    BY DEF Places
  <1>1. CASE t = "reader" /\ Goto(t, "top") /\ UNCHANGED readerSet
    <2>1. PcSet(t, "top")
      BY <1>0, <1>1, <1>p, GotoSets
    <2> QED BY <1>0, <1>1, <2>1 DEF Finished, PcSet
  <1>2. CASE t # "reader" /\ _start_reader(t, "done")
    <2>1. pc' = [pc EXCEPT ![t] = "done", !["reader"] = IF readerSet THEN pc["reader"] ELSE "top"] /\ readerSet' = TRUE
      BY <1>2, <1>0 DEF _start_reader
    <2>2. (IF readerSet THEN pc["reader"] ELSE "top") \in Places
      BY <1>0, <1>p, TaskNames
    <2>3. /\ pc' \in [Tasks -> Places] /\ pc'[t] = "done"
          /\ pc'["reader"] = IF readerSet THEN pc["reader"] ELSE "top"
          /\ \A u \in Tasks : u \notin {t, "reader"} => pc'[u] = pc[u]
      BY <1>0, <1>2, <1>p, <2>1, <2>2, TaskNames
    <2> QED BY <1>2, <2>1, <2>3 DEF Finished
  <1> QED BY <1>1, <1>2 DEF Finish

(* The reader is cancelled.                                                *)
LEMMA StopSets ==
    ASSUME TypeOK, ReaderAlone, NEW t \in Tasks, NEW p \in Places, _stop_reader(t, p), t = "reader" => p = "off"
    PROVE  /\ pc' \in [Tasks -> Places] /\ readerSet' = FALSE /\ pc'["reader"] = "off"
           /\ t # "reader" => pc'[t] = p
           /\ \A u \in Tasks : u \notin {t, "reader"} => pc'[u] = pc[u]
  <1>0. pc \in [Tasks -> Places] /\ readerSet \in BOOLEAN
    BY DEF TypeOK, TaskTypes, FlagTypes
  <1>1. ~readerSet => pc["reader"] = "off"
    BY DEF ReaderAlone
  <1>2. "off" \in Places
    BY DEF Places
  <1>3. CASE readerSet
    <2>1. pc' = [pc EXCEPT ![t] = p, !["reader"] = "off"] /\ readerSet' = FALSE
      BY <1>3 DEF _stop_reader
    <2> QED BY <1>0, <1>2, <2>1, TaskNames
  <1>4. CASE ~readerSet
    <2>1. pc' = [pc EXCEPT ![t] = p, !["reader"] = pc["reader"]] /\ readerSet' = FALSE
      BY <1>4 DEF _stop_reader
    <2> QED BY <1>0, <1>1, <1>2, <1>4, <2>1, TaskNames
  <1> QED BY <1>3, <1>4

-----------------------------------------------------------------------------
(* What the steps do to the connection's websocket.                        *)

(* One websocket of the list is replaced.                                  *)
LEMMA ReplacedSocket ==
    ASSUME SocketTypes, NEW w \in 1 .. Len(ws), NEW s \in Sockets, ws' = [ws EXCEPT ![w] = s]
    PROVE  ws' \in Seq(Sockets) /\ Len(ws') = Len(ws) /\ ws'[w] = s
  BY DEF SocketTypes

CurShut(c) ==
    /\ ws' \in Seq(Sockets) /\ Len(ws') = Len(ws)
    /\ ~ws'[cur].open /\ ws'[cur].code = c
    /\ ws'[cur].sent = ws[cur].sent /\ ws'[cur].got = ws[cur].got

(* The current websocket is closed with a code.                            *)
LEMMA ShutsSocket ==
    ASSUME SocketTypes, cur # 0, NEW c, c \in CloseCodes \cup {0, 1000}, ws' = [ws EXCEPT ![cur] = Shut(@, c)]
    PROVE  CurShut(c)
  <1>0. ws \in Seq(Sockets) /\ cur \in 1 .. Len(ws)
    BY DEF SocketTypes
  <1>1. ws[cur] \in Sockets
    BY <1>0
  <1>3. Shut(ws[cur], c) \in Sockets
    BY <1>1 DEF Shut, Sockets
  <1>4. /\ Shut(ws[cur], c).open = FALSE /\ Shut(ws[cur], c).code = c
        /\ Shut(ws[cur], c).sent = ws[cur].sent /\ Shut(ws[cur], c).got = ws[cur].got
    BY <1>1 DEF Sockets, Shut
  <1>5. ws'[cur] = Shut(ws[cur], c) /\ Len(ws') = Len(ws) /\ ws' \in Seq(Sockets)
    BY <1>0, <1>3, ReplacedSocket
  <1> QED BY <1>4, <1>5 DEF CurShut

(* A websocket that is open is closed; one that is not stays.              *)
LEMMA ClosesSocket ==
    ASSUME SocketTypes, ws' = IF Open(cur) THEN Closed(cur) ELSE ws
    PROVE  /\ ws' \in Seq(Sockets) /\ Len(ws') = Len(ws)
           /\ Open(cur) => CurShut(1000)
           /\ ~Open(cur) => ws' = ws
  <1>1. CASE Open(cur)
    <2>1. PICK c \in CloseCodes \cup {0, 1000} : c = 1000
      OBVIOUS
    <2>2. cur # 0 /\ ws' = [ws EXCEPT ![cur] = Shut(@, c)]
      BY <1>1, <2>1 DEF Open, Closed
    <2>3. CurShut(c)
      BY <2>2, ShutsSocket
    <2> QED BY <1>1, <2>1, <2>3 DEF CurShut
  <1>2. CASE ~Open(cur)
    BY <1>2 DEF SocketTypes
  <1> QED BY <1>1, <1>2

SocketGot(w, m) ==
    /\ ws' \in Seq(Sockets) /\ Len(ws') = Len(ws)
    /\ ws'[w].open = ws[w].open /\ ws'[w].code = ws[w].code
    /\ ws'[w].sent = ws[w].sent /\ ws'[w].got = ws[w].got \cup {m}

(* A websocket delivers a payload.                                         *)
LEMMA GotSocket ==
    ASSUME SocketTypes, NEW w \in 1 .. Len(ws), NEW m \in Msgs, ws' = [ws EXCEPT ![w].got = @ \cup {m}]
    PROVE  SocketGot(w, m)
  <1>0. ws \in Seq(Sockets)
    BY DEF SocketTypes
  <1>1. ws[w] \in Sockets
    BY <1>0
  <1>2. ws' = [ws EXCEPT ![w] = [ws[w] EXCEPT !.got = ws[w].got \cup {m}]]
    BY <1>0
  <1>3. [ws[w] EXCEPT !.got = ws[w].got \cup {m}] \in Sockets
    BY <1>1 DEF Sockets
  <1>4. /\ [ws[w] EXCEPT !.got = ws[w].got \cup {m}].open = ws[w].open
        /\ [ws[w] EXCEPT !.got = ws[w].got \cup {m}].code = ws[w].code
        /\ [ws[w] EXCEPT !.got = ws[w].got \cup {m}].sent = ws[w].sent
        /\ [ws[w] EXCEPT !.got = ws[w].got \cup {m}].got = ws[w].got \cup {m}
    BY <1>1 DEF Sockets
  <1>5. ws'[w] = [ws[w] EXCEPT !.got = ws[w].got \cup {m}] /\ Len(ws') = Len(ws) /\ ws' \in Seq(Sockets)
    BY <1>2, <1>3, ReplacedSocket
  <1> QED BY <1>4, <1>5 DEF SocketGot

CurSent(m) ==
    /\ ws' \in Seq(Sockets) /\ Len(ws') = Len(ws)
    /\ ws'[cur].open = ws[cur].open /\ ws'[cur].code = ws[cur].code
    /\ ws'[cur].got = ws[cur].got /\ ws'[cur].sent = ws[cur].sent \cup {m}

(* A payload is sent on the current websocket.                             *)
LEMMA SentSocket ==
    ASSUME SocketTypes, cur # 0, NEW m \in Sent, ws' = [ws EXCEPT ![cur].sent = @ \cup {m}]
    PROVE  CurSent(m)
  <1>0. ws \in Seq(Sockets) /\ cur \in 1 .. Len(ws)
    BY DEF SocketTypes
  <1>1. ws[cur] \in Sockets
    BY <1>0
  <1>2. ws' = [ws EXCEPT ![cur] = [ws[cur] EXCEPT !.sent = ws[cur].sent \cup {m}]]
    BY <1>0
  <1>3. [ws[cur] EXCEPT !.sent = ws[cur].sent \cup {m}] \in Sockets
    BY <1>1 DEF Sockets
  <1>4. /\ [ws[cur] EXCEPT !.sent = ws[cur].sent \cup {m}].open = ws[cur].open
        /\ [ws[cur] EXCEPT !.sent = ws[cur].sent \cup {m}].code = ws[cur].code
        /\ [ws[cur] EXCEPT !.sent = ws[cur].sent \cup {m}].got = ws[cur].got
        /\ [ws[cur] EXCEPT !.sent = ws[cur].sent \cup {m}].sent = ws[cur].sent \cup {m}
    BY <1>1 DEF Sockets
  <1>5. ws'[cur] = [ws[cur] EXCEPT !.sent = ws[cur].sent \cup {m}] /\ Len(ws') = Len(ws) /\ ws' \in Seq(Sockets)
    BY <1>0, <1>2, <1>3, ReplacedSocket
  <1> QED BY <1>4, <1>5 DEF CurSent

(* A dial adds a websocket, which is the current one.                      *)
NewSocket(m) ==
    /\ ws' \in Seq(Sockets) /\ Len(ws') = Len(ws) + 1 /\ cur' = Len(ws')
    /\ ws'[cur'].open /\ ws'[cur'].sent = {m} /\ ws'[cur'].got = {}

(* Dialled makes that websocket.                                           *)
LEMMA DialledSocket ==
    ASSUME TypeOK, NEW t, NEW m \in Sent, Dialled(t, m)
    PROVE  NewSocket(m)
  <1>0. ws \in Seq(Sockets) /\ server \in Nat
    BY DEF TypeOK, SocketTypes, CountTypes
  <1>1. [open |-> TRUE, code |-> 0, srv |-> server, sent |-> {m}, got |-> {}] \in Sockets
    BY <1>0 DEF Sockets
  <1>2. /\ ws' = Append(ws, [open |-> TRUE, code |-> 0, srv |-> server, sent |-> {m}, got |-> {}])
        /\ cur' = Len(ws) + 1
    BY DEF Dialled
  <1>3. /\ ws' \in Seq(Sockets) /\ Len(ws') = Len(ws) + 1
        /\ ws'[Len(ws) + 1] = [open |-> TRUE, code |-> 0, srv |-> server, sent |-> {m}, got |-> {}]
    BY <1>0, <1>1, <1>2
  <1> QED BY <1>0, <1>2, <1>3 DEF NewSocket

-----------------------------------------------------------------------------
(* Types.                                                                  *)

PlaceNames == {"join", "dial", "stopws", "called", "ready", "udp", "discover", "desc", "resumed", "off", "read", "top",
            "backoff", "done", "raised"}
(* The places, listed.                                                     *)
LEMMA PlacesAre == Places = PlaceNames
  BY DEF Places, PlaceNames, Working, Handshake

(* The manager's steps keep the types.                                     *)
LEMMA ManagerTypes ==
    ASSUME TypeOK, Connect \/ VoiceStateUpdate \/ VoiceServerUpdate \/ HeartbeatEnds \/ Disconnect
    PROVE  TypeOK'
  <1>0. TaskTypes /\ SocketTypes /\ FlagTypes /\ CountTypes
    BY DEF TypeOK
  <1>1. CASE Connect
    <2>1. PcSet("app", "join")
      BY <1>0, <1>1, GotoSets, TaskNames, PlacesAre DEF Connect, Joins, PlaceNames
    <2>2. TaskTypes'
      BY <1>0, <1>1, <2>1 DEF TaskTypes, PcSet, Connect, conn
    <2>3. SocketTypes' /\ CountTypes'
      BY <1>0, <1>1 DEF Connect, conn, SocketTypes, CountTypes
    <2>4. FlagTypes'
      BY <1>0, <1>1 DEF Connect, Joins, conn, FlagTypes
    <2> QED BY <2>2, <2>3, <2>4 DEF TypeOK
  <1>2. CASE VoiceStateUpdate
    <2>1. TaskTypes' /\ SocketTypes' /\ CountTypes'
      BY <1>0, <1>2 DEF VoiceStateUpdate, conn, TaskTypes, SocketTypes, CountTypes
    <2>2. FlagTypes'
      BY <1>0, <1>2 DEF VoiceStateUpdate, conn, FlagTypes
    <2> QED BY <2>1, <2>2 DEF TypeOK
  <1>3. CASE VoiceServerUpdate
    <2>1. pc' \in [Tasks -> Places] /\ update' \in [Migs -> 0 .. servers']
      <3>0. pc \in [Tasks -> Places] /\ servers \in Nat /\ servers' = servers + 1 /\ update \in [Migs -> 0 .. servers]
        BY <1>0, <1>3 DEF TaskTypes, CountTypes, VoiceServerUpdate
      <3>1. update \in [Migs -> 0 .. servers']
        BY <3>0
      <3>2. CASE UNCHANGED <<pc, update>>
        BY <3>0, <3>1, <3>2
      <3>3. CASE \E m \in Migs : Goto(m, "called") /\ update' = [update EXCEPT ![m] = servers + 1]
        <4>1. PICK m \in Migs : Goto(m, "called") /\ update' = [update EXCEPT ![m] = servers + 1]
          BY <3>3
        <4>2. PcSet(m, "called")
          BY <1>0, <4>1, GotoSets, TaskNames, PlacesAre DEF PlaceNames
        <4> QED BY <3>0, <3>1, <4>1, <4>2 DEF PcSet
      <3> QED BY <1>3, <3>2, <3>3 DEF VoiceServerUpdate
    <2>2. TaskTypes' /\ SocketTypes'
      BY <1>0, <1>3, <2>1 DEF VoiceServerUpdate, conn, TaskTypes, SocketTypes
    <2>3. FlagTypes'
      BY <1>0, <1>3 DEF VoiceServerUpdate, conn, FlagTypes
    <2>4. CountTypes'
      BY <1>0, <1>3, <2>1, VoiceAssumption DEF VoiceServerUpdate, conn, CountTypes, Fault
    <2> QED BY <2>2, <2>3, <2>4 DEF TypeOK
  <1>4. CASE HeartbeatEnds
    <2>1. TaskTypes' /\ SocketTypes' /\ CountTypes'
      BY <1>0, <1>4 DEF HeartbeatEnds, mgr, TaskTypes, SocketTypes, CountTypes
    <2>2. FlagTypes'
      BY <1>0, <1>4 DEF HeartbeatEnds, mgr, FlagTypes
    <2> QED BY <2>1, <2>2 DEF TypeOK
  <1>5. CASE Disconnect
    <2>1. TaskTypes' /\ SocketTypes' /\ CountTypes'
      BY <1>0, <1>5 DEF Disconnect, conn, TaskTypes, SocketTypes, CountTypes
    <2>2. FlagTypes'
      BY <1>0, <1>5 DEF Disconnect, conn, FlagTypes
    <2> QED BY <2>1, <2>2 DEF TypeOK
  <1> QED BY <1>1, <1>2, <1>3, <1>4, <1>5

(* So do close() and the end of a websocket.                               *)
LEMMA ClosingTypes ==
    ASSUME TypeOK, ReaderAlone, CloseStarts \/ Close \/ \E c \in CloseCodes : WsCloses(c)
    PROVE  TypeOK'
  <1>0. TaskTypes /\ SocketTypes /\ FlagTypes /\ CountTypes
    BY DEF TypeOK
  <1>1. CASE CloseStarts
    <2>1. pc' \in [Tasks -> Places] /\ readerSet' = FALSE
      BY <1>1, StopSets, TaskNames, PlacesAre DEF CloseStarts, PlaceNames
    <2>2. TaskTypes' /\ SocketTypes' /\ CountTypes'
      BY <1>0, <1>1, <2>1 DEF CloseStarts, mgr, TaskTypes, SocketTypes, CountTypes
    <2>3. FlagTypes'
      BY <1>0, <1>1, <2>1 DEF CloseStarts, mgr, FlagTypes
    <2> QED BY <2>2, <2>3 DEF TypeOK
  <1>2. CASE CloseReleases
    <2>1. TaskTypes' /\ CountTypes'
      BY <1>0, <1>2 DEF CloseReleases, mgr, TaskTypes, CountTypes
    <2>2. SocketTypes'
      <3>1. UNCHANGED <<ws, cur, ready, desc>> /\ udp' = 0 /\ sockets' = sockets \ {udp}
        BY <1>2 DEF CloseReleases, udp_close
      <3>2. 0 \in 0 .. Len(ws)
        BY <1>0 DEF SocketTypes
      <3> QED BY <1>0, <3>1, <3>2 DEF SocketTypes
    <2>3. FlagTypes'
      <3>1. hb' = FALSE /\ closer' = "ws" /\ UNCHANGED <<resumed, closing, readerSet, entry, event, overlap, broken, joined, owed>>
        BY <1>2 DEF CloseReleases, mgr
      <3> QED BY <1>0, <3>1 DEF FlagTypes
    <2> QED BY <2>1, <2>2, <2>3 DEF TypeOK
  <1>3. CASE CloseEnds \/ \E c \in CloseCodes : WsCloses(c)
    <2>1. ws' \in Seq(Sockets) /\ Len(ws') = Len(ws)
      <3>1. CASE ws' = ws
        BY <1>0, <3>1 DEF SocketTypes
      <3>2. CASE cur # 0 /\ \E c \in CloseCodes \cup {0, 1000} : ws' = [ws EXCEPT ![cur] = Shut(ws[cur], c)]
        <4>1. PICK c \in CloseCodes \cup {0, 1000} : ws' = [ws EXCEPT ![cur] = Shut(@, c)]
          BY <3>2
        <4>2. SocketTypes /\ cur # 0
          BY <1>0, <3>2
        <4>3. CurShut(c)
          BY ZenonT(40), <4>1, <4>2, ShutsSocket
        <4> QED BY <4>3 DEF CurShut
      <3> QED BY <1>3, <3>1, <3>2 DEF CloseEnds, WsCloses, Open, Closed
    <2>2. TaskTypes' /\ CountTypes'
      BY <1>0, <1>3, <2>1, VoiceAssumption DEF CloseEnds, WsCloses, mgr, TaskTypes, CountTypes, Fault
    <2>3. SocketTypes'
      BY <1>0, <1>3, <2>1 DEF CloseEnds, WsCloses, SocketTypes
    <2>4. FlagTypes'
      BY <1>0, <1>3 DEF CloseEnds, WsCloses, mgr, FlagTypes
    <2> QED BY <2>2, <2>3, <2>4 DEF TypeOK
  <1> QED BY <1>1, <1>2, <1>3 DEF Close

(* So does every step of a task.                                           *)
LEMMA TaskStepTypes ==
    ASSUME TypeOK, ReaderAlone, NEW t \in Tasks, TaskStep(t) \/ Fails(t)
    PROVE  TypeOK'
  <1>0. /\ TaskTypes /\ SocketTypes /\ FlagTypes /\ CountTypes
        /\ ws \in Seq(Sockets) /\ Len(ws) \in Nat /\ on \in [Tasks -> 0 .. Len(ws)] /\ resume \in [Tasks -> BOOLEAN]
        /\ pc \in [Tasks -> Places]
    BY DEF TypeOK, SocketTypes, TaskTypes
  <1>1. CASE t \in {"app", "reader"} /\ request_join(t)
    <2>1. pc' \in [Tasks -> Places]
      <3>1. CASE Goto(t, "dial") \/ Goto(t, "stopws")
        BY <1>0, <3>1, GotoSets, PlacesAre DEF PlaceNames, PcSet
      <3> QED BY <1>0, <1>1, <3>1 DEF request_join
    <2>2. resume' \in [Tasks -> BOOLEAN]
      <3>1. CASE resume' = [resume EXCEPT ![t] = FALSE]
        BY Zenon, <1>0, <3>1
      <3> QED BY <1>0, <1>1, <3>1 DEF request_join
    <2>3. TaskTypes'
      BY <1>0, <1>1, <2>1, <2>2 DEF request_join, TaskTypes
    <2>4. SocketTypes'
      <3>1. UNCHANGED <<ws, cur, ready, desc>>
        BY <1>1 DEF request_join
      <3>2. UNCHANGED <<udp, sockets>> \/ (udp' = 0 /\ sockets' = sockets \ {udp})
        BY <1>1 DEF request_join, udp_close
      <3>3. 0 \in 0 .. Len(ws)
        BY <1>0
      <3> QED BY <1>0, <3>1, <3>2, <3>3 DEF SocketTypes
    <2>5. FlagTypes'
      BY <1>0, <1>1 DEF request_join, FlagTypes
    <2>6. CountTypes'
      BY <1>0, <1>1 DEF request_join, CountTypes
    <2> QED BY <2>3, <2>4, <2>5, <2>6 DEF TypeOK
  <1>2. CASE t \in Migs /\ migrate_to(t)
    <2>1. pc' \in [Tasks -> Places] /\ readerSet' = FALSE
      BY <1>2, StopSets, TaskNames, PlacesAre DEF migrate_to, PlaceNames
    <2>2. TaskTypes'
      BY <1>0, <1>2, <2>1 DEF migrate_to, TaskTypes
    <2>3. SocketTypes'
      <3>1. UNCHANGED <<ws, cur, ready, desc>> /\ udp' = 0 /\ sockets' = sockets \ {udp} /\ 0 \in 0 .. Len(ws)
        BY <1>0, <1>2 DEF migrate_to, udp_close
      <3> QED BY <1>0, <3>1 DEF SocketTypes
    <2>4. FlagTypes'
      BY <1>0, <1>2, <2>1 DEF migrate_to, FlagTypes, mgr
    <2>5. CountTypes'
      BY <1>0, <1>2 DEF migrate_to, CountTypes, mgr
    <2> QED BY <2>2, <2>3, <2>4, <2>5 DEF TypeOK
  <1>3. CASE StopsWs(t)
    <2>1. ws' \in Seq(Sockets) /\ Len(ws') = Len(ws)
      BY <1>0, <1>3, ClosesSocket DEF StopsWs
    <2>2. PcSet(t, "dial")
      BY <1>0, <1>3, GotoSets, PlacesAre DEF StopsWs, PlaceNames
    <2>3. TaskTypes'
      BY <1>0, <1>3, <2>1, <2>2 DEF StopsWs, TaskTypes, PcSet
    <2>4. SocketTypes' /\ CountTypes'
      BY <1>0, <1>3, <2>1 DEF StopsWs, SocketTypes, CountTypes, mgr
    <2>5. FlagTypes'
      BY <1>0, <1>3 DEF StopsWs, FlagTypes, mgr
    <2> QED BY <2>3, <2>4, <2>5 DEF TypeOK
  <1>4. CASE Dial(t)
    <2>1. PICK s \in {"identify", "resume"} : Dialled(t, s)
      BY <1>4 DEF Dial, Identifies, Resumes
    <2>2. /\ ws' \in Seq(Sockets) /\ Len(ws') = Len(ws) + 1 /\ cur' = Len(ws')
      BY <2>1, DialledSocket DEF Sent, NewSocket
    <2>3. pc' \in [Tasks -> Places] /\ readerSet' \in BOOLEAN
      <3>0. readerSet \in BOOLEAN
        BY <1>0 DEF FlagTypes
      <3>1. CASE Finish(t)
        BY <3>1, FinishSets DEF Finished
      <3>2. CASE (Goto(t, "ready") \/ Goto(t, "resumed")) /\ UNCHANGED readerSet
        BY <1>0, <3>0, <3>2, GotoSets, PlacesAre DEF PlaceNames, PcSet
      <3> QED BY <1>4, <3>1, <3>2 DEF Dial, Identifies, Resumes
    <2>4. on' \in [Tasks -> 0 .. Len(ws')]
      <3>1. Len(ws) + 1 \in 0 .. Len(ws') /\ on \in [Tasks -> 0 .. Len(ws')]
        BY <1>0, <2>2
      <3> QED BY <1>4, <3>1 DEF Dial, Identifies, Resumes
    <2>5. TaskTypes'
      BY <1>0, <1>4, <2>3, <2>4 DEF Dial, TaskTypes
    <2>6. SocketTypes'
      <3>1. {ready, desc, udp, 0, Len(ws')} \subseteq 0 .. Len(ws') /\ sockets \subseteq 1 .. Len(ws')
        BY <1>0, <2>2 DEF SocketTypes
      <3>2. ready' \in {ready, 0} /\ desc' \in {desc, 0} /\ udp' = udp /\ sockets' = sockets
        BY <1>4 DEF Dial, Identifies, Resumes
      <3> QED BY <2>2, <3>1, <3>2 DEF SocketTypes
    <2>7. FlagTypes'
      <3>1. resumed' \in BOOLEAN
        BY <1>0, <1>4 DEF Dial, Identifies, Resumes, FlagTypes
      <3> QED BY <1>0, <1>4, <2>3, <3>1 DEF Dial, FlagTypes, mgr
    <2>8. CountTypes'
      BY <1>0, <1>4 DEF Dial, CountTypes, mgr
    <2> QED BY <2>5, <2>6, <2>7, <2>8 DEF TypeOK
  <1>5. CASE ClosedInHandshake(t) \/ Fails(t)
    <2>1. Caught(t) /\ UNCHANGED on /\ UnchangedRaising
      BY <1>5, RaisesSets DEF ClosedInHandshake, Fails
    <2>2. pc' \in [Tasks -> Places]
      BY <2>1 DEF Caught, PcSet
    <2>3. TaskTypes' /\ SocketTypes'
      BY <1>0, <2>1, <2>2 DEF Caught, UnchangedRaising, conn, TaskTypes, SocketTypes
    <2>4. FlagTypes'
      BY <1>0, <2>1 DEF Caught, UnchangedRaising, conn, FlagTypes
    <2>5. CountTypes'
      BY <1>0, <1>5, <2>1, VoiceAssumption DEF UnchangedRaising, conn, CountTypes, Fault, ClosedInHandshake, Fails
    <2> QED BY <2>3, <2>4, <2>5 DEF TypeOK
  <1>6. CASE Receive(t)
    <2>1. PICK m \in Available(on[t]) :
            /\ _handle_ws_payload(m, on[t]) /\ ws' = [ws EXCEPT ![on[t]].got = @ \cup {m}]
            /\ Finish(t) \/ (UNCHANGED readerSet /\ (Goto(t, "udp") \/ UNCHANGED pc))
      BY <1>6 DEF Receive
    <2>2. m \in Msgs /\ on[t] \in 1 .. Len(ws)
      BY <1>0, <1>6 DEF Available, Receive, Open
    <2>3. ws' \in Seq(Sockets) /\ Len(ws') = Len(ws)
      <3>1. SocketGot(on[t], m)
        BY <1>0, <2>1, <2>2, GotSocket
      <3> QED BY <3>1 DEF SocketGot
    <2>4. pc' \in [Tasks -> Places] /\ readerSet' \in BOOLEAN
      <3>0. readerSet \in BOOLEAN
        BY <1>0 DEF FlagTypes
      <3>1. CASE Finish(t)
        BY <3>1, FinishSets DEF Finished
      <3>2. CASE (Goto(t, "udp") \/ UNCHANGED pc) /\ UNCHANGED readerSet
        BY <1>0, <3>0, <3>2, GotoSets, PlacesAre DEF PlaceNames, PcSet
      <3> QED BY <2>1, <3>1, <3>2
    <2>5. TaskTypes'
      BY <1>0, <1>6, <2>3, <2>4 DEF Receive, TaskTypes
    <2>6. SocketTypes'
      <3>1. {ready', desc', udp'} \subseteq {ready, desc, udp, on[t]} /\ cur' = cur /\ sockets' = sockets
        BY <1>6, <2>1 DEF _handle_ws_payload, Receive
      <3> QED BY <1>0, <2>2, <2>3, <3>1 DEF SocketTypes
    <2>7. FlagTypes'
      <3>1. hb' \in BOOLEAN /\ resumed' \in BOOLEAN
        BY Zenon, <2>1 DEF _handle_ws_payload
      <3> QED BY <1>0, <1>6, <2>4, <3>1 DEF Receive, FlagTypes, mgr
    <2>8. CountTypes'
      BY <1>0, <1>6 DEF Receive, CountTypes, mgr
    <2> QED BY <2>5, <2>6, <2>7, <2>8 DEF TypeOK
  <1>7. CASE UdpConnects(t)
    <2>1. /\ pc' \in [Tasks -> Places] /\ resume' \in [Tasks -> BOOLEAN]
          /\ entry' \in BOOLEAN /\ broken' \in BOOLEAN
      <3>0. entry \in BOOLEAN /\ broken \in BOOLEAN
        BY <1>0 DEF FlagTypes
      <3>1. CASE Raises(t)
        BY <3>1, RaisesSets DEF Caught, PcSet
      <3>2. CASE Goto(t, "discover") /\ UNCHANGED <<resume, entry, broken>>
        BY <1>0, <3>0, <3>2, GotoSets, PlacesAre DEF PlaceNames, PcSet
      <3> QED BY <1>7, <3>1, <3>2 DEF UdpConnects
    <2>2. TaskTypes'
      BY <1>0, <1>7, <2>1 DEF UdpConnects, TaskTypes
    <2>3. SocketTypes'
      <3>1. UNCHANGED <<ws, cur, ready, desc>>
        BY <1>7 DEF UdpConnects
      <3>2. CASE UNCHANGED <<udp, sockets>>
        BY <1>0, <3>1, <3>2 DEF SocketTypes
      <3>3. CASE ready # 0 /\ udp' = (IF udp = 0 THEN ready ELSE udp) /\ sockets' = sockets \cup {udp'}
        <4>1. udp' \in 1 .. Len(ws)
          BY <1>0, <3>3 DEF SocketTypes
        <4> QED BY <1>0, <3>1, <3>3, <4>1 DEF SocketTypes
      <3> QED BY <1>7, <3>2, <3>3 DEF UdpConnects
    <2>4. FlagTypes'
      BY <1>0, <1>7, <2>1 DEF UdpConnects, FlagTypes
    <2>5. CountTypes'
      BY <1>0, <1>7 DEF UdpConnects, CountTypes
    <2> QED BY <2>2, <2>3, <2>4, <2>5 DEF TypeOK
  <1>8. CASE SelectsProtocol(t)
    <2>0. entry \in BOOLEAN /\ broken \in BOOLEAN /\ readerSet \in BOOLEAN
      BY <1>0 DEF FlagTypes
    <2>1. ws' \in Seq(Sockets) /\ Len(ws') = Len(ws) /\ sockets' \subseteq 1 .. Len(ws)
      <3>1. CASE ws' = ws /\ sockets' = sockets
        BY <1>0, <3>1 DEF SocketTypes
      <3>2. CASE /\ cur # 0 /\ udp # 0 /\ ws' = [ws EXCEPT ![cur].sent = @ \cup {"select"}]
                 /\ sockets' = sockets \cup {udp}
        <4>1. CurSent("select")
          BY <1>0, <3>2, SentSocket DEF Sent
        <4> QED BY <1>0, <3>2, <4>1 DEF CurSent, SocketTypes
      <3> QED BY <1>8, <3>1, <3>2 DEF SelectsProtocol, Open
    <2>2. /\ pc' \in [Tasks -> Places] /\ resume' \in [Tasks -> BOOLEAN]
          /\ entry' \in BOOLEAN /\ broken' \in BOOLEAN /\ readerSet' \in BOOLEAN
      <3>1. CASE Raises(t) /\ UNCHANGED readerSet
        BY <2>0, <3>1, RaisesSets DEF Caught, PcSet
      <3>2. CASE Finish(t) /\ UNCHANGED <<resume, entry, broken>>
        BY <1>0, <2>0, <3>2, FinishSets DEF Finished
      <3>3. CASE Goto(t, "desc") /\ UNCHANGED <<resume, entry, broken, readerSet>>
        BY <1>0, <2>0, <3>3, GotoSets, PlacesAre DEF PlaceNames, PcSet
      <3> QED BY <1>8, <3>1, <3>2, <3>3 DEF SelectsProtocol, ReceivesFrom
    <2>3. on' \in [Tasks -> 0 .. Len(ws)]
      <3>1. cur \in 0 .. Len(ws)
        BY <1>0 DEF SocketTypes
      <3>2. UNCHANGED on \/ on' = [on EXCEPT ![t] = cur]
        BY <1>8 DEF SelectsProtocol, ReceivesFrom
      <3> QED BY <1>0, <3>1, <3>2
    <2>4. TaskTypes'
      BY <1>0, <1>8, <2>1, <2>2, <2>3 DEF TaskTypes
    <2>5. SocketTypes'
      BY <1>0, <1>8, <2>1 DEF SelectsProtocol, SocketTypes
    <2>6. FlagTypes'
      BY <1>0, <1>8, <2>2 DEF SelectsProtocol, FlagTypes
    <2>7. CountTypes'
      BY <1>0, <1>8 DEF SelectsProtocol, CountTypes
    <2> QED BY <2>4, <2>5, <2>6, <2>7 DEF TypeOK
  <1>9. CASE ReaderLoops \/ ReaderSeesClose \/ BackoffEnds
    <2>0. readerSet \in BOOLEAN /\ "reader" \in Tasks /\ cur \in 0 .. Len(ws)
      BY <1>0, TaskNames DEF FlagTypes, SocketTypes
    <2>1. PICK p \in Places : Goto("reader", p)
      BY <1>9, PlacesAre DEF ReaderLoops, ReaderSeesClose, BackoffEnds, Joins, PlaceNames
    <2>2. pc' \in [Tasks -> Places]
      BY <1>0, <2>0, <2>1, GotoSets DEF PcSet
    <2>3. resume' \in [Tasks -> BOOLEAN]
      <3>1. PICK b \in BOOLEAN : UNCHANGED resume \/ resume' = [resume EXCEPT !["reader"] = b]
        BY <1>9 DEF ReaderLoops, ReaderSeesClose, BackoffEnds
      <3> QED BY Zenon, <1>0, <3>1
    <2>4. on' \in [Tasks -> 0 .. Len(ws)] /\ readerSet' \in BOOLEAN
      <3>1. (UNCHANGED on \/ on' = [on EXCEPT !["reader"] = cur]) /\ readerSet' \in {readerSet, FALSE}
        BY <1>9 DEF ReaderLoops, ReaderSeesClose, BackoffEnds
      <3> QED BY <1>0, <2>0, <3>1
    <2>5. TaskTypes'
      BY <1>0, <1>9, <2>2, <2>3, <2>4 DEF TaskTypes, ReaderLoops, ReaderSeesClose, BackoffEnds, conn
    <2>6. SocketTypes' /\ CountTypes'
      BY <1>0, <1>9 DEF ReaderLoops, ReaderSeesClose, BackoffEnds, conn, mgr, SocketTypes, CountTypes
    <2>7. FlagTypes'
      <3>1. CASE ReaderLoops \/ BackoffEnds
        BY <1>0, <2>4, <3>1 DEF ReaderLoops, BackoffEnds, conn, mgr, FlagTypes
      <3>2. CASE ReaderSeesClose
        <4>1. closing' \in {closing, TRUE} /\ event' \in {event, FALSE}
          BY <3>2 DEF ReaderSeesClose, Joins
        <4>2. joined' \in {joined, {}} /\ owed' \in {owed, {"state", "server"}}
          BY <3>2 DEF ReaderSeesClose, Joins
        <4> QED BY <1>0, <2>4, <3>2, <4>1, <4>2 DEF ReaderSeesClose, FlagTypes
      <3> QED BY <1>9, <3>1, <3>2
    <2> QED BY <2>5, <2>6, <2>7 DEF TypeOK
  <1> QED BY <1>1, <1>2, <1>3, <1>4, <1>5, <1>6, <1>7, <1>8, <1>9 DEF TaskStep

(* And so every step.                                                      *)
LEMMA StepTypes ==
    ASSUME TypeOK, ReaderAlone, [Next]_vars
    PROVE  TypeOK'
  <1>1. CASE UNCHANGED vars
    <2>1. TaskTypes' /\ SocketTypes' /\ CountTypes'
      BY <1>1 DEF vars, conn, mgr, TypeOK, TaskTypes, SocketTypes, CountTypes
    <2>2. FlagTypes'
      BY <1>1 DEF vars, conn, mgr, TypeOK, FlagTypes
    <2> QED BY <2>1, <2>2 DEF TypeOK
  <1>2. CASE Next
    <2>1. CASE Connect \/ VoiceStateUpdate \/ VoiceServerUpdate \/ HeartbeatEnds \/ Disconnect
      BY <2>1, ManagerTypes
    <2>2. CASE CloseStarts \/ Close \/ \E c \in CloseCodes : WsCloses(c)
      BY <2>2, ClosingTypes
    <2>3. CASE \E t \in Tasks : TaskStep(t) \/ Fails(t)
      BY <2>3, TaskStepTypes
    <2> QED BY <1>2, <2>1, <2>2, <2>3 DEF Next
  <1> QED BY <1>1, <1>2

-----------------------------------------------------------------------------
(* One task drives the connection, and somebody does.                      *)

DriveInv == DriverInv /\ SomeoneDrives

(* Where the sole driver is, no other task is at work.                     *)
LEMMA SoleDriver ==
    ASSUME TypeOK, DriverInv, ~overlap, NEW t \in Tasks, Active(t)
    PROVE  /\ \A u \in Tasks : u # t => pc[u] \in {"off", "called", "done", "raised"}
           /\ t # "reader" => pc["reader"] = "off" /\ ~readerSet
  <1>1. \A u \in Tasks : u # t => pc[u] \in {"off", "called", "done", "raised"}
    BY DEF TypeOK, TaskTypes, DriverInv, OneActive, Active, Driving, Places
  <1> QED BY <1>1, TaskNames DEF DriverInv, ReaderAlone

(* A driver that moves on, as a driver or with an exception, keeps it so.  *)
LEMMA MoveDrives ==
    ASSUME TypeOK, DriveInv, NEW t \in Tasks, Active(t), NEW p, PcSet(t, p), p \notin {"off", "called", "done"},
           t = "reader" => p # "raised", t # "reader" => p \notin {"read", "top", "backoff"},
           readerSet' = readerSet, overlap => overlap', p = "raised" => broken'
    PROVE  DriveInv'
  <1>0. p \in Places /\ (p \in Driving \/ p = "raised") /\ pc["app"] # "off"
    <2>1. p \in Places /\ (p \in Driving \/ p = "raised")
      BY DEF PcSet, Driving, Places
    <2>2. pc[t] # "off"
      BY DEF Active, Driving, Working, Handshake
    <2> QED BY <2>1, <2>2 DEF DriveInv, DriverInv, BeforeConnect
  <1>1. pc'["app"] # "off"
    BY <1>0, TaskNames DEF PcSet
  <1>2. OneActive'
    BY DEF DriveInv, DriverInv, OneActive, Active, PcSet
  <1>3. ReaderAlone'
    <2>1. pc'["reader"] \notin {"called", "done", "raised"}
      BY TaskNames DEF DriveInv, DriverInv, ReaderAlone, PcSet
    <2>2. pc'["reader"] = "off" <=> pc["reader"] = "off"
      BY TaskNames DEF PcSet, Active, Driving, Working, Handshake
    <2>3. \A u \in Tasks \ {"reader"} : pc'[u] \notin {"read", "top", "backoff"}
      BY DEF DriveInv, DriverInv, ReaderAlone, PcSet
    <2>4. readerSet' <=> pc'["reader"] # "off"
      BY <2>2 DEF DriveInv, DriverInv, ReaderAlone
    <2>5. pc'["app"] # "called"
      BY TaskNames DEF DriveInv, DriverInv, ReaderAlone, PcSet
    <2> QED BY <2>1, <2>3, <2>4, <2>5 DEF ReaderAlone
  <1>4. SomeoneDrives'
    BY <1>0 DEF SomeoneDrives, Drivers, PcSet
  <1> QED BY <1>1, <1>2, <1>3, <1>4 DEF DriveInv, DriverInv, BeforeConnect

(* An exception keeps it so.                                               *)
LEMMA RaiseDrives ==
    ASSUME TypeOK, DriveInv, NEW t \in Tasks, Active(t), Raises(t), readerSet' = readerSet, overlap' = overlap
    PROVE  DriveInv'
  <1>1. Caught(t)
    BY RaisesSets
  <1>2. CASE t = "reader" /\ PcSet(t, "stopws")
    BY <1>2, MoveDrives
  <1>3. CASE t = "reader" /\ PcSet(t, "backoff")
    BY <1>3, MoveDrives
  <1>4. CASE t # "reader" /\ PcSet(t, "raised") /\ broken'
    BY <1>4, MoveDrives
  <1> QED BY <1>1, <1>2, <1>3, <1>4 DEF Caught

(* So does the end of a handshake, which makes or is the reader.           *)
LEMMA FinishDrives ==
    ASSUME TypeOK, DriveInv, NEW t \in Tasks, Active(t), Finish(t), overlap => overlap'
    PROVE  DriveInv'
  <1>0. Finished(t) /\ pc["app"] # "off"
    BY FinishSets DEF DriveInv, DriverInv, BeforeConnect, Active, Driving, Working, Handshake
  <1>1. CASE t = "reader"
    <2>1. PcSet(t, "top") /\ readerSet' = readerSet
      BY <1>0, <1>1 DEF Finished, PcSet
    <2> QED BY <1>1, <2>1, MoveDrives
  <1>2. CASE t # "reader"
    <2>0. /\ pc' \in [Tasks -> Places] /\ pc'[t] = "done" /\ readerSet'
          /\ \A u \in Tasks : u \notin {t, "reader"} => pc'[u] = pc[u]
          /\ pc'["reader"] = pc["reader"] \/ pc'["reader"] = "top"
          /\ pc["reader"] = "off" => pc'["reader"] = "top"
      BY <1>0, <1>2 DEF Finished, DriveInv, DriverInv, ReaderAlone
    <2>1. pc'["app"] # "off"
      BY <1>0, <1>2, <2>0, TaskNames
    <2>2. pc'["reader"] \notin {"off", "called", "done", "raised"}
      BY <2>0 DEF DriveInv, DriverInv, ReaderAlone
    <2>3. ReaderAlone'
      <3>1. pc'["app"] # "called"
        BY <1>2, <2>0, TaskNames DEF DriveInv, DriverInv, ReaderAlone
      <3> QED BY <2>0, <2>2, <3>1 DEF DriveInv, DriverInv, ReaderAlone
    <2>4. OneActive'
      <3>1. SUFFICES ASSUME ~overlap, NEW u \in Tasks, NEW v \in Tasks, Active(u)', Active(v)' PROVE u = v
        BY DEF OneActive
      <3>2. \A w \in Tasks : w # t => pc[w] \in {"off", "called", "done", "raised"}
        BY <3>1, SoleDriver DEF DriveInv
      <3>3. \A w \in Tasks : w # "reader" => pc'[w] \in {"off", "called", "done", "raised"}
        BY <2>0, <3>2
      <3> QED BY <3>1, <3>3 DEF Active, Driving, Working, Handshake
    <2>5. SomeoneDrives'
      <3>1. pc'["reader"] \in Driving
        BY <2>0, <2>2, TaskNames DEF Driving, Places
      <3> QED BY <3>1, TaskNames DEF SomeoneDrives, Drivers
    <2> QED BY <2>1, <2>3, <2>4, <2>5 DEF DriveInv, DriverInv, BeforeConnect
  <1> QED BY <1>1, <1>2

(* A step that moves no task, and touches neither entry nor owed before    *)
(* the application has connected.                                          *)
LEMMA StillDrives ==
    ASSUME DriveInv, pc' = pc, readerSet' = readerSet, overlap' = overlap, cur' = cur,
           closing' = closing, broken' = broken,
           pc["app"] # "off" \/ (entry' = entry /\ closer' = closer /\ owed' = owed)
    PROVE  DriveInv'
  <1>1. BeforeConnect'
    BY DEF DriveInv, DriverInv, BeforeConnect
  <1>2. OneActive' /\ ReaderAlone'
    BY DEF DriveInv, DriverInv, OneActive, ReaderAlone, Active
  <1>3. SomeoneDrives'
    BY DEF DriveInv, SomeoneDrives, Drivers
  <1> QED BY <1>1, <1>2, <1>3 DEF DriveInv, DriverInv

(* The reader ends when the connection is closing.                         *)
LEMMA ReaderEnds ==
    ASSUME TypeOK, DriveInv, pc["app"] # "off", pc' \in [Tasks -> Places], pc'["reader"] = "off",
           \A u \in Tasks : u # "reader" => pc'[u] = pc[u], readerSet' = FALSE, closing' = TRUE, overlap => overlap'
    PROVE  DriveInv'
  <1>1. pc'["app"] # "off"
    BY TaskNames
  <1>2. OneActive'
    BY DEF DriveInv, DriverInv, OneActive, Active, Driving, Working, Handshake
  <1>3. ReaderAlone'
    BY TaskNames DEF DriveInv, DriverInv, ReaderAlone
  <1>4. SomeoneDrives'
    BY DEF SomeoneDrives
  <1> QED BY <1>1, <1>2, <1>3, <1>4 DEF DriveInv, DriverInv, BeforeConnect

(* The manager, close() and the websocket start no second driver.          *)
LEMMA ManagerDrives ==
    ASSUME TypeOK, DriveInv,
           \/ Connect \/ VoiceStateUpdate \/ VoiceServerUpdate \/ HeartbeatEnds \/ Disconnect
           \/ CloseStarts \/ Close \/ \E c \in CloseCodes : WsCloses(c)
    PROVE  DriveInv'
  <1>0. TaskTypes
    BY DEF TypeOK
  <1>1. CASE Connect
    <2>1. PcSet("app", "join") /\ readerSet' = readerSet
      BY <1>0, <1>1, GotoSets, TaskNames, PlacesAre DEF Connect, Joins, PlaceNames
    <2>2. \A t \in Tasks : pc[t] = "off"
      BY <1>1 DEF Connect, DriveInv, DriverInv, BeforeConnect
    <2>3. \A t \in Tasks : t # "app" => pc'[t] = "off"
      BY <2>1, <2>2 DEF PcSet
    <2>4. BeforeConnect'
      BY <2>1 DEF BeforeConnect, PcSet
    <2>5. OneActive'
      BY <2>3 DEF OneActive, Active, Driving, Working, Handshake
    <2>6. ReaderAlone'
      <3>1. ~readerSet
        BY <2>2, TaskNames DEF DriveInv, DriverInv, ReaderAlone
      <3>2. pc'["reader"] = "off" /\ ~readerSet'
        BY <2>1, <2>3, <3>1, TaskNames
      <3>3. \A t \in Tasks \ {"reader"} : pc'[t] \in {"off", "join"}
        BY <2>1, <2>3 DEF PcSet
      <3> QED BY <3>2, <3>3, TaskNames DEF ReaderAlone
    <2>7. SomeoneDrives'
      BY <2>1, TaskNames DEF SomeoneDrives, Drivers, Driving, Working, PcSet
    <2> QED BY <2>4, <2>5, <2>6, <2>7 DEF DriveInv, DriverInv
  <1>2. CASE VoiceStateUpdate
    <2>1. pc["app"] # "off"
      BY <1>2 DEF VoiceStateUpdate, DriveInv, DriverInv, BeforeConnect
    <2> QED BY <1>2, <2>1, StillDrives DEF VoiceStateUpdate, conn
  <1>3. CASE VoiceServerUpdate
    <2>1. pc["app"] # "off"
      BY <1>3 DEF VoiceServerUpdate, DriveInv, DriverInv, BeforeConnect
    <2>2. /\ readerSet' = readerSet /\ overlap' = overlap /\ cur' = cur /\ closing' = closing /\ broken' = broken
      BY <1>3 DEF VoiceServerUpdate, conn
    <2>3. CASE pc' = pc
      BY <2>1, <2>2, <2>3, StillDrives
    <2>4. CASE \E m \in Migs : pc[m] = "off" /\ Goto(m, "called")
      <3>1. PICK m \in Migs : pc[m] = "off" /\ Goto(m, "called")
        BY <2>4
      <3>2. PcSet(m, "called") /\ m \in Tasks /\ m # "reader" /\ m # "app"
        BY <1>0, <3>1, GotoSets, TaskNames, PlacesAre DEF PlaceNames
      <3>3. pc'["app"] = pc["app"] /\ pc'["reader"] = pc["reader"]
        BY <3>2, TaskNames DEF PcSet
      <3>4. OneActive'
        BY <2>2, <3>2 DEF OneActive, Active, PcSet, DriveInv, DriverInv
      <3>5. ReaderAlone'
        <4>1. \A t \in Tasks \ {"reader"} : pc'[t] \notin {"read", "top", "backoff"}
          BY <3>2 DEF DriveInv, DriverInv, ReaderAlone, PcSet
        <4> QED BY <2>2, <3>3, <4>1 DEF DriveInv, DriverInv, ReaderAlone
      <3>6. SomeoneDrives'
        BY <3>2 DEF SomeoneDrives, Drivers, Driving, Working, PcSet
      <3> QED BY <2>1, <3>3, <3>4, <3>5, <3>6 DEF DriveInv, DriverInv, BeforeConnect
    <2> QED BY <1>3, <2>3, <2>4 DEF VoiceServerUpdate
  <1>4. CASE HeartbeatEnds
    BY <1>4, StillDrives DEF HeartbeatEnds, mgr
  <1>5. CASE Disconnect
    <2>1. pc["app"] # "off"
      BY <1>5 DEF Disconnect, DriveInv, DriverInv, BeforeConnect
    <2> QED BY <1>5, <2>1, StillDrives DEF Disconnect, conn
  <1>6. CASE CloseStarts
    <2>1. pc["app"] # "off"
      BY <1>6 DEF CloseStarts, DriveInv, DriverInv, BeforeConnect
    <2>2. ReaderAlone
      BY DEF DriveInv, DriverInv
    <2>3. /\ pc' \in [Tasks -> Places] /\ readerSet' = FALSE /\ pc'["reader"] = "off"
          /\ \A u \in Tasks : u # "reader" => pc'[u] = pc[u]
      BY <1>6, <2>2, StopSets, TaskNames, PlacesAre DEF CloseStarts, PlaceNames
    <2>4. (overlap => overlap') /\ closing' = TRUE
      BY <1>6 DEF CloseStarts
    <2> QED BY <2>1, <2>3, <2>4, ReaderEnds
  <1>7. CASE Close
    <2>1. pc["app"] # "off"
      BY <1>7 DEF Close, CloseReleases, CloseEnds, DriveInv, DriverInv, BeforeConnect
    <2> QED BY <1>7, <2>1, StillDrives DEF Close, CloseReleases, CloseEnds, mgr
  <1>8. CASE \E c \in CloseCodes : WsCloses(c)
    BY <1>8, StillDrives DEF WsCloses, mgr
  <1> QED BY <1>1, <1>2, <1>3, <1>4, <1>5, <1>6, <1>7, <1>8

(* Nor does a step of a task; a migration takes over from the reader.      *)
LEMMA TaskDrives ==
    ASSUME TypeOK, DriveInv, NEW t \in Tasks, TaskStep(t) \/ Fails(t)
    PROVE  DriveInv'
  <1>0. TaskTypes /\ ReaderAlone /\ DriverInv
    BY DEF TypeOK, DriveInv, DriverInv
  <1>d. \A p \in Receiving \cup Handshake \cup {"join", "top", "backoff", "read"} : p \in Driving \ {"called"}
    BY DEF Receiving, Handshake, Driving, Working
  <1>1. CASE t \in {"app", "reader"} /\ request_join(t)
    <2>0. Active(t) /\ readerSet' = readerSet /\ overlap' = overlap
      BY <1>1, <1>d DEF Active, request_join
    <2>1. CASE joined # {"state", "server"} /\ UNCHANGED <<pc, closing>>
      <3>1. cur' = cur /\ broken' = broken /\ pc["app"] # "off"
        BY <1>0, <1>1 DEF request_join, DriverInv, BeforeConnect
      <3> QED BY <2>0, <2>1, <3>1, StillDrives
    <2>2. CASE Goto(t, "dial") \/ Goto(t, "stopws")
      <3>1. PcSet(t, "dial") \/ PcSet(t, "stopws")
        BY <1>0, <2>2, GotoSets, PlacesAre DEF PlaceNames
      <3> QED BY <2>0, <3>1, MoveDrives
    <2> QED BY <1>1, <2>1, <2>2 DEF request_join
  <1>2. CASE t \in Migs /\ migrate_to(t)
    <2>0. t # "app" /\ t # "reader" /\ pc[t] = "called"
      BY <1>2, TaskNames DEF migrate_to
    <2>1. /\ pc' \in [Tasks -> Places] /\ readerSet' = FALSE /\ pc'["reader"] = "off" /\ pc'[t] = "stopws"
          /\ \A u \in Tasks : u \notin {t, "reader"} => pc'[u] = pc[u]
      BY <1>0, <1>2, <2>0, StopSets, PlacesAre DEF migrate_to, PlaceNames
    <2>2. pc'["app"] # "off"
      <3>1. pc["app"] # "off"
        BY <1>0, <2>0 DEF DriverInv, BeforeConnect
      <3> QED BY <2>0, <2>1, <3>1, TaskNames
    <2>3. ReaderAlone'
      BY <1>0, <2>0, <2>1, TaskNames DEF ReaderAlone
    <2>4. OneActive'
      <3>1. SUFFICES ASSUME ~overlap', NEW u \in Tasks, NEW v \in Tasks, Active(u)', Active(v)' PROVE u = v
        BY DEF OneActive
      <3>2. \A w \in Tasks : w \notin {t, "reader"} => pc[w] \notin Working
        BY <1>2, <3>1 DEF migrate_to
      <3>3. \A w \in Tasks : w # t => pc'[w] \notin Driving
        BY <1>0, <2>1, <3>2 DEF ReaderAlone, Driving, Working, Handshake
      <3> QED BY <3>1, <3>3 DEF Active
    <2>5. SomeoneDrives'
      BY <2>1 DEF SomeoneDrives, Drivers, Driving, Working, Handshake
    <2> QED BY <2>2, <2>3, <2>4, <2>5 DEF DriveInv, DriverInv, BeforeConnect
  <1>3. CASE StopsWs(t)
    <2>1. PcSet(t, "dial") /\ Active(t) /\ readerSet' = readerSet /\ overlap' = overlap
      BY <1>0, <1>3, <1>d, GotoSets, PlacesAre DEF StopsWs, PlaceNames, Active, Handshake
    <2> QED BY <2>1, MoveDrives
  <1>4. CASE Dial(t)
    <2>0. Active(t) /\ (overlap => overlap')
      BY <1>4, <1>d DEF Dial, Active, Handshake
    <2>1. CASE Finish(t)
      BY <2>0, <2>1, FinishDrives
    <2>2. CASE (Goto(t, "ready") \/ Goto(t, "resumed")) /\ UNCHANGED readerSet
      <3>1. PcSet(t, "ready") \/ PcSet(t, "resumed")
        BY <1>0, <2>2, GotoSets, PlacesAre DEF PlaceNames
      <3> QED BY <2>0, <2>2, <3>1, MoveDrives
    <2> QED BY <1>4, <2>1, <2>2 DEF Dial, Identifies, Resumes
  <1>5. CASE ClosedInHandshake(t) \/ Fails(t)
    <2>1. Active(t) /\ Raises(t) /\ readerSet' = readerSet /\ overlap' = overlap
      BY <1>5, <1>d DEF ClosedInHandshake, Fails, UnchangedRaising, Active, Handshake
    <2> QED BY <2>1, RaiseDrives
  <1>6. CASE Receive(t)
    <2>0. Active(t) /\ overlap' = overlap /\ cur' = cur /\ broken' = broken /\ closing' = closing /\ pc["app"] # "off"
      <3>1. pc[t] \in Receiving /\ overlap' = overlap /\ cur' = cur /\ broken' = broken /\ closing' = closing
        BY <1>6 DEF Receive
      <3>2. Active(t)
        BY <1>d, <3>1 DEF Active
      <3> QED BY <1>0, <3>1, <3>2 DEF Receiving, DriverInv, BeforeConnect
    <2>1. CASE Finish(t)
      BY <2>0, <2>1, FinishDrives
    <2>2. CASE Goto(t, "udp") /\ UNCHANGED readerSet
      <3>1. PcSet(t, "udp")
        BY <1>0, <2>2, GotoSets, PlacesAre DEF PlaceNames
      <3> QED BY <2>0, <2>2, <3>1, MoveDrives
    <2>3. CASE UNCHANGED <<pc, readerSet>>
      BY <2>0, <2>3, StillDrives
    <2> QED BY <1>6, <2>1, <2>2, <2>3 DEF Receive
  <1>7. CASE UdpConnects(t)
    <2>0. Active(t) /\ readerSet' = readerSet /\ overlap' = overlap
      BY <1>7, <1>d DEF UdpConnects, Active, Handshake
    <2>1. CASE Raises(t)
      BY <2>0, <2>1, RaiseDrives
    <2>2. CASE Goto(t, "discover")
      <3>1. PcSet(t, "discover")
        BY <1>0, <2>2, GotoSets, PlacesAre DEF PlaceNames
      <3> QED BY <2>0, <3>1, MoveDrives
    <2> QED BY <1>7, <2>1, <2>2 DEF UdpConnects
  <1>8. CASE SelectsProtocol(t)
    <2>0. Active(t) /\ overlap' = overlap
      BY <1>8, <1>d DEF SelectsProtocol, Active, Handshake
    <2>1. CASE Raises(t) /\ UNCHANGED readerSet
      BY <2>0, <2>1, RaiseDrives
    <2>2. CASE Finish(t)
      BY <2>0, <2>2, FinishDrives
    <2>3. CASE Goto(t, "desc") /\ UNCHANGED readerSet
      <3>1. PcSet(t, "desc")
        BY <1>0, <2>3, GotoSets, PlacesAre DEF PlaceNames
      <3> QED BY <2>0, <2>3, <3>1, MoveDrives
    <2> QED BY <1>8, <2>1, <2>2, <2>3 DEF SelectsProtocol, ReceivesFrom
  <1>9. CASE t = "reader" /\ (ReaderLoops \/ ReaderSeesClose \/ BackoffEnds)
    <2>0. Active(t) /\ overlap' = overlap /\ pc["app"] # "off"
      <3>1. pc[t] \in {"top", "read", "backoff"} /\ overlap' = overlap
        BY <1>9 DEF ReaderLoops, ReaderSeesClose, BackoffEnds
      <3>2. Active(t)
        BY <1>d, <3>1 DEF Active
      <3> QED BY <1>0, <3>1, <3>2 DEF DriverInv, BeforeConnect
    <2>1. CASE /\ Goto(t, "top") \/ Goto(t, "read") \/ Goto(t, "stopws") \/ Goto(t, "join")
               /\ UNCHANGED readerSet
      <3>1. PcSet(t, "top") \/ PcSet(t, "read") \/ PcSet(t, "stopws") \/ PcSet(t, "join")
        BY <1>0, <2>1, GotoSets, PlacesAre DEF PlaceNames
      <3> QED BY <1>9, <2>0, <2>1, <3>1, MoveDrives
    <2>2. CASE Goto(t, "off") /\ readerSet' = FALSE /\ closing' = TRUE
      <3>1. PcSet(t, "off")
        BY <1>0, <2>2, GotoSets, PlacesAre DEF PlaceNames
      <3>2. /\ pc' \in [Tasks -> Places] /\ pc'["reader"] = "off"
            /\ \A u \in Tasks : u # "reader" => pc'[u] = pc[u]
        BY <1>9, <3>1 DEF PcSet
      <3> QED BY <2>0, <2>2, <3>2, ReaderEnds
    <2>3. closing \in BOOLEAN
      BY DEF TypeOK, FlagTypes
    <2> QED BY <1>9, <2>1, <2>2, <2>3 DEF ReaderLoops, ReaderSeesClose, BackoffEnds, Joins, conn
  <1> QED BY <1>1, <1>2, <1>3, <1>4, <1>5, <1>6, <1>7, <1>8, <1>9 DEF TaskStep

(* And so every step keeps one driver.                                     *)
LEMMA StepDrives ==
    ASSUME TypeOK, DriveInv, [Next]_vars
    PROVE  DriveInv'
  <1>1. CASE UNCHANGED vars
    BY <1>1, StillDrives DEF vars, conn, mgr
  <1>2. CASE \E t \in Tasks : TaskStep(t) \/ Fails(t)
    BY <1>2, TaskDrives
  <1>3. CASE \/ Connect \/ VoiceStateUpdate \/ VoiceServerUpdate \/ HeartbeatEnds \/ Disconnect
             \/ CloseStarts \/ Close \/ \E c \in CloseCodes : WsCloses(c)
    BY <1>3, ManagerDrives
  <1> QED BY <1>1, <1>2, <1>3 DEF Next

(* At most one driver, counted.                                            *)
LEMMA OneDriverCounts ==
    ASSUME TypeOK, DriverInv
    PROVE  OneDriver
  <1>1. SUFFICES ASSUME ~overlap
                 PROVE  Cardinality(Drivers \ {m \in Migs : pc[m] = "called"}) <= 1
    BY DEF OneDriver
  <1> DEFINE S == Drivers \ {m \in Migs : pc[m] = "called"}
  <1>2. \A t \in S : t \in Tasks /\ Active(t)
    <2>1. SUFFICES ASSUME NEW t \in S PROVE pc[t] # "called"
      BY DEF Drivers, Active
    <2>2. CASE t \in Migs
      BY <2>2
    <2>3. CASE t = "reader"
      BY <2>3 DEF DriverInv, ReaderAlone
    <2>4. CASE t = "app"
      BY <2>4 DEF DriverInv, ReaderAlone
    <2> QED BY <2>2, <2>3, <2>4 DEF Drivers, Tasks
  <1>3. \A t, u \in S : t = u
    BY <1>1, <1>2 DEF DriverInv, OneActive
  <1>4. CASE S = {}
    BY <1>4, FS_EmptySet
  <1>5. CASE S # {}
    <2>1. PICK t : t \in S
      BY <1>5
    <2>2. S = {t}
      BY <1>3, <2>1
    <2>3. Cardinality(S) = 1
      BY <2>2, FS_Singleton
    <2> QED BY <2>3
  <1> QED BY <1>4, <1>5

-----------------------------------------------------------------------------
(* close() leaves nothing behind.                                          *)

(* While a task drives, close() has not begun to cancel.                   *)
LEMMA DrivenIsOpen ==
    ASSUME QuietInv, ~overlap, NEW t \in Tasks, pc[t] \in Driving
    PROVE  closer \notin {"reader", "ws", "closed"}
  BY DEF QuietInv, Drivers

(* A task that takes a step is one close() has not stopped.                *)
LEMMA TaskQuiet ==
    ASSUME QuietInv, NEW t \in Tasks, TaskStep(t) \/ Fails(t)
    PROVE  QuietInv'
  <1>1. pc[t] \in Driving
    <2>1. pc[t] \in {"join", "called", "stopws", "dial", "ready", "udp", "discover", "desc", "resumed", "read", "top", "backoff"}
      BY DEF TaskStep, Fails, request_join, migrate_to, StopsWs, Dial, ClosedInHandshake, Receive, Receiving,
             UdpConnects, SelectsProtocol, ReaderLoops, ReaderSeesClose, BackoffEnds
    <2> QED BY <2>1 DEF Driving, Working, Handshake
  <1>2. closer' = closer /\ (overlap => overlap')
    <2>1. CASE request_join(t) \/ StopsWs(t) \/ Receive(t) \/ UdpConnects(t) \/ SelectsProtocol(t)
      BY <2>1 DEF request_join, StopsWs, Receive, UdpConnects, SelectsProtocol
    <2>2. CASE migrate_to(t) \/ Dial(t)
      BY <2>2 DEF migrate_to, Dial
    <2>3. CASE ClosedInHandshake(t) \/ Fails(t)
      BY <2>3 DEF ClosedInHandshake, Fails, UnchangedRaising
    <2>4. CASE ReaderLoops \/ ReaderSeesClose \/ BackoffEnds
      BY <2>4 DEF ReaderLoops, ReaderSeesClose, BackoffEnds
    <2> QED BY <2>1, <2>2, <2>3, <2>4 DEF TaskStep
  <1>3. ~overlap' => closer' \notin {"reader", "ws", "closed"}
    BY <1>1, <1>2, DrivenIsOpen
  <1> QED BY <1>3 DEF QuietInv

(* Every step keeps what close() has released.                             *)
LEMMA StepQuiet ==
    ASSUME TypeOK, DriveInv, QuietInv, [Next]_vars
    PROVE  QuietInv'
  <1>1. CASE \E t \in Tasks : TaskStep(t) \/ Fails(t)
    BY <1>1, TaskQuiet
  <1>2. CASE Connect
    <2>1. closer' = "off"
      BY <1>2 DEF Connect, DriveInv, DriverInv, BeforeConnect
    <2> QED BY <2>1 DEF QuietInv
  <1>3. CASE VoiceStateUpdate \/ HeartbeatEnds \/ UNCHANGED vars
    <2>1. /\ UNCHANGED <<pc, ws, cur, udp, closing, closer, overlap>> /\ (hb' = hb \/ ~hb')
      BY <1>3 DEF VoiceStateUpdate, HeartbeatEnds, vars, conn, mgr
    <2> QED BY <2>1 DEF QuietInv, Drivers, Open
  <1>4. CASE VoiceServerUpdate
    <2>1. UNCHANGED <<ws, cur, udp, hb, closing, closer, overlap>> /\ (UNCHANGED pc \/ ~closing)
      BY <1>4 DEF VoiceServerUpdate, conn, is_connected
    <2> QED BY <2>1 DEF QuietInv, Drivers, Open
  <1>5. CASE Disconnect
    BY <1>5 DEF Disconnect, QuietInv
  <1>6. CASE CloseStarts
    <2>1. SUFFICES ASSUME ~overlap' PROVE Drivers' = {} /\ closing'
      BY <1>6 DEF QuietInv, CloseStarts
    <2>2. ReaderAlone
      BY DEF DriveInv, DriverInv
    <2>3. /\ pc'["reader"] = "off"
          /\ \A u \in Tasks : u # "reader" => pc'[u] = pc[u]
      BY <1>6, <2>2, StopSets, TaskNames, PlacesAre DEF CloseStarts, PlaceNames
    <2>4. \A u \in Tasks : pc'[u] \notin Driving
      BY <1>6, <2>1, <2>2, <2>3 DEF CloseStarts, ReaderAlone, Driving, Working, Handshake
    <2> QED BY <1>6, <2>4 DEF CloseStarts, Drivers
  <1>7. CASE CloseReleases
    BY <1>7 DEF CloseReleases, QuietInv, Drivers, udp_close
  <1>8. CASE CloseEnds
    <2>1. ~Open(cur)'
      <3>1. SocketTypes
        BY DEF TypeOK
      <3>2. (Open(cur) => CurShut(1000)) /\ (~Open(cur) => ws' = ws) /\ cur' = cur
        BY <1>8, <3>1, ClosesSocket DEF CloseEnds
      <3> QED BY <3>2 DEF CurShut, Open
    <2> QED BY <1>8, <2>1 DEF CloseEnds, QuietInv, Drivers
  <1>9. CASE \E c \in CloseCodes : WsCloses(c)
    BY <1>9 DEF WsCloses, QuietInv, Drivers
  <1> QED BY <1>1, <1>2, <1>3, <1>4, <1>5, <1>6, <1>7, <1>8, <1>9 DEF Next, Close

-----------------------------------------------------------------------------
(* The media belong to one session.                                        *)

StateInv == TypeOK /\ DriveInv /\ QuietInv

(* No task begins or leaves a handshake.                                   *)
NoneStarts ==
    \A u \in Tasks :
        \/ pc'[u] = pc[u]
        \/ u # "reader" /\ pc[u] \notin {"stopws", "dial"} /\ pc'[u] \in {"called", "join"}
        \/ u = "reader" /\ pc'[u] \in {"off", "top"} /\ (pc'[u] = "top" => pc[u] # "off")

(* Such a step, with the connection as it was, keeps the session.          *)
LEMMA SameSession ==
    ASSUME SessionInv, NoneStarts, overlap => overlap', closer \in {"ws", "closed"} => closer' \in {"ws", "closed"},
           UNCHANGED <<on, resume, ws, cur, ready, desc, udp, sockets, broken>>
    PROVE  SessionInv'
  <1>1. SUFFICES ASSUME ~overlap' PROVE (OnCurrent /\ Stages /\ Renewals /\ Fresh /\ Replaced)'
    BY DEF SessionInv
  <1>2. OnCurrent /\ Stages /\ Renewals /\ Fresh /\ Replaced
    BY <1>1 DEF SessionInv
  <1>3. OnCurrent'
    BY <1>2, TaskNames DEF OnCurrent, NoneStarts, Receiving
  <1>4. Stages'
    BY <1>2 DEF Stages, NoneStarts
  <1>5. Renewals'
    BY <1>2, TaskNames DEF Renewals, NoneStarts, Lost, Open
  <1>6. Fresh'
    BY <1>2 DEF Fresh
  <1>7. Replaced'
    <2>1. \A m \in Migs : pc[m] \in {"stopws", "dial"} => pc'[m] = pc[m]
      BY TaskNames DEF NoneStarts
    <2> QED BY <1>2, <2>1 DEF Replaced, Whole, OneSession, Lost
  <1> QED BY <1>3, <1>4, <1>5, <1>6, <1>7

(* The sole task at work is where its websocket and its handshake say.     *)
TaskPlaced(t) ==
    /\ \A u \in Tasks : u # t => pc'[u] \in {"off", "called", "done", "raised", "top"}
    /\ pc'[t] \in Receiving => on'[t] = cur'
    /\ pc'[t] \in Receiving \cup {"udp", "discover"} => cur' # 0
    /\ pc'["reader"] # "off" => cur' # 0
    /\ pc'[t] \in {"ready", "udp", "discover", "desc"} => "identify" \in ws'[cur'].sent
    /\ pc'[t] = "ready" => "READY" \notin ws'[cur'].got
    /\ pc'[t] \in {"udp", "discover", "desc"} => ready' = cur' /\ udp' = cur'

(* Then every task is on the current websocket, where its stage says.      *)
LEMMA TaskSession ==
    ASSUME NEW t \in Tasks, TaskPlaced(t)
    PROVE  OnCurrent' /\ Stages'
  BY DEF TaskPlaced, OnCurrent, Stages, Receiving

(* What holds while t alone is at work.                                    *)
AtWork(t) ==
    /\ OnCurrent /\ Stages /\ Renewals /\ Fresh /\ Replaced
    /\ \A u \in Tasks : u # t => pc[u] \in {"off", "called", "done", "raised"}
    /\ t # "reader" => pc["reader"] = "off" /\ ~readerSet
    /\ ~broken => Whole \/ Lost \/ (t \in Migs /\ pc[t] \in {"stopws", "dial"})

(* A task at work without an overlap is alone.                             *)
LEMMA WorkAlone ==
    ASSUME StateInv, SessionInv, ~overlap, NEW t \in Tasks, Active(t)
    PROVE  AtWork(t)
  <1>1. OnCurrent /\ Stages /\ Renewals /\ Fresh /\ Replaced
    BY DEF SessionInv
  <1>2. /\ \A u \in Tasks : u # t => pc[u] \in {"off", "called", "done", "raised"}
        /\ t # "reader" => pc["reader"] = "off" /\ ~readerSet
    BY SoleDriver DEF StateInv, DriveInv
  <1>3. closer \notin {"reader", "ws", "closed"}
    BY DrivenIsOpen DEF StateInv, Active
  <1>4. \A m \in Migs : pc[m] \in {"stopws", "dial"} => m = t
    BY <1>2, TaskNames
  <1> QED BY <1>1, <1>2, <1>3, <1>4 DEF AtWork, Replaced

(* An exception of the reader is a new attempt; of another task, the end.  *)
LEMMA RaiseSession ==
    ASSUME StateInv, SessionInv, NEW t \in Tasks, Active(t), Raises(t),
           UNCHANGED <<ws, cur, ready, desc, udp, sockets, overlap>>
    PROVE  SessionInv'
  <1>1. SUFFICES ASSUME ~overlap PROVE (OnCurrent /\ Stages /\ Renewals /\ Fresh /\ Replaced)'
    BY DEF SessionInv
  <1>2. AtWork(t) /\ Caught(t)
    BY <1>1, WorkAlone, RaisesSets DEF StateInv
  <1>3. /\ pc'[t] \in {"stopws", "backoff", "raised"} /\ (pc'[t] = "raised" => broken' /\ t # "reader")
        /\ t # "reader" => pc'[t] = "raised"
        /\ pc'[t] = "stopws" => ~resume'["reader"]
        /\ \A u \in Tasks : u # t => pc'[u] = pc[u]
        /\ (broken => broken') /\ \A u \in Tasks : resume'[u] => resume[u]
    BY <1>2 DEF Caught, PcSet
  <1>4. pc["reader"] = "off" => t # "reader"
    BY DEF Active, Driving, Working, Handshake
  <1>5. TaskPlaced(t)
    BY <1>2, <1>3, <1>4, TaskNames DEF AtWork, TaskPlaced, OnCurrent, Receiving
  <1>6. OnCurrent' /\ Stages'
    BY <1>5, TaskSession
  <1>7. Renewals'
    <2>1. \A u \in Tasks \ {"reader"} : ~resume'[u]
      BY <1>2, <1>3 DEF AtWork, Renewals
    <2>2. pc'["reader"] \notin {"dial", "join"} /\ (pc'["reader"] = "stopws" => ~resume'["reader"])
      BY <1>2, <1>3, TaskNames DEF AtWork
    <2> QED BY <2>1, <2>2 DEF Renewals
  <1>8. Fresh'
    BY <1>2 DEF AtWork, Fresh
  <1>9. Replaced'
    <2>1. SUFFICES ASSUME ~broken' PROVE Whole' \/ Lost'
      BY DEF Replaced
    <2>2. t = "reader" /\ ~broken
      BY <1>3, <2>1
    <2>3. Whole \/ Lost
      BY <1>2, <2>2, TaskNames DEF AtWork
    <2> QED BY <2>3 DEF Whole, OneSession, Lost
  <1> QED BY <1>6, <1>7, <1>8, <1>9

(* Where a task is that has finished its handshake.                        *)
LEMMA FinishPlaced ==
    ASSUME StateInv, NEW t \in Tasks, AtWork(t), Finish(t), cur' # 0
    PROVE  /\ TaskPlaced(t) /\ pc'["reader"] \in {"top", "off"}
           /\ \A u \in Tasks : pc'[u] \notin {"stopws", "dial"}
  <1>1. Finished(t)
    BY FinishSets DEF StateInv
  <1>2. pc'[t] \in {"top", "done"} /\ \A u \in Tasks : u # t => pc'[u] \in {"off", "called", "done", "raised", "top"}
    BY <1>1 DEF Finished, AtWork
  <1>3. pc'["reader"] \in {"top", "off"}
    BY <1>1, TaskNames DEF Finished, AtWork
  <1> QED BY <1>2, <1>3 DEF TaskPlaced, Receiving

(* What only the websocket's state can tell of a rejoin.                   *)
LEMMA Classified ==
    ASSUME NEW c
    PROVE  /\ classify_voice_close_code(c) = "rejoin" => c \in REJOIN_VOICE_CLOSE_CODES
           /\ classify_voice_close_code(c) = "resume" => c \notin REJOIN_VOICE_CLOSE_CODES
  BY DEF classify_voice_close_code, FATAL_VOICE_CLOSE_CODES, REJOIN_VOICE_CLOSE_CODES

(* connect() has no session yet; a rejoin comes after a lost one.          *)
LEMMA JoinSession ==
    ASSUME StateInv, SessionInv, NEW t \in {"app", "reader"}, request_join(t)
    PROVE  SessionInv'
  <1>0. t \in Tasks /\ Active(t) /\ overlap' = overlap /\ UNCHANGED <<on, ws, cur, ready, desc, broken, closer>>
    BY TaskNames DEF request_join, Active, Driving, Working
  <1>1. CASE joined # {"state", "server"} /\ UNCHANGED <<pc, udp, sockets, resume>>
    <2>1. NoneStarts
      BY <1>1 DEF NoneStarts
    <2> QED BY <1>0, <1>1, <2>1, SameSession
  <1>2. CASE joined = {"state", "server"} /\ ~UNCHANGED pc
    <2>1. SUFFICES ASSUME ~overlap PROVE (OnCurrent /\ Stages /\ Renewals /\ Fresh /\ Replaced)'
      BY <1>0 DEF SessionInv
    <2>2. AtWork(t)
      BY <1>0, <2>1, WorkAlone
    <2>3. /\ PcSet(t, IF t = "app" THEN "dial" ELSE "stopws")
          /\ resume' = [resume EXCEPT ![t] = FALSE]
          /\ \/ t = "app" /\ UNCHANGED <<udp, sockets>>
             \/ t = "reader" /\ udp_close
      <3>1. TaskTypes
        BY DEF StateInv, TypeOK
      <3> QED BY <1>0, <1>2, <3>1, GotoSets, PlacesAre DEF request_join, PlaceNames
    <2>4. TaskPlaced(t)
      <3>1. pc'[t] \in {"dial", "stopws"} /\ \A u \in Tasks : u # t => pc'[u] = pc[u]
        BY <2>3 DEF PcSet
      <3>2. t = "reader" => pc["reader"] = "join"
        BY DEF request_join
      <3> QED BY <1>0, <2>2, <3>1, <3>2, TaskNames DEF AtWork, TaskPlaced, OnCurrent, Receiving
    <2>5. OnCurrent' /\ Stages'
      BY <1>0, <2>4, TaskSession
    <2>6. ~resume'[t] /\ \A u \in Tasks : u # t => resume'[u] = resume[u]
      <3>1. resume \in [Tasks -> BOOLEAN]
        BY DEF StateInv, TypeOK, TaskTypes
      <3> QED BY Zenon, <1>0, <2>3, <3>1
    <2>7. Renewals'
      <3>1. \A u \in Tasks \ {"reader"} : ~resume'[u]
        BY <2>2, <2>6 DEF AtWork, Renewals
      <3>2. pc'["reader"] \in {"off", "stopws", "called", "done", "raised"} /\ (pc'["reader"] = "stopws" => ~resume'["reader"])
        BY <2>2, <2>3, <2>6, TaskNames DEF AtWork, PcSet
      <3> QED BY <3>1, <3>2 DEF Renewals
    <2>8. Fresh'
      BY <1>0, <2>2 DEF AtWork, Fresh
    <2>9. Replaced'
      <3>1. CASE t = "app"
        <4>1. \A m \in Migs : pc[m] \notin {"stopws", "dial"}
          BY <2>2, <3>1, TaskNames DEF AtWork
        <4> QED BY <1>0, <2>2, <2>3, <3>1, <4>1, TaskNames DEF AtWork, Replaced, Whole, OneSession, Lost
      <3>2. CASE t = "reader"
        <4>1. Lost
          BY <2>2, <3>2 DEF AtWork, Renewals, request_join
        <4> QED BY <1>0, <4>1 DEF Replaced, Lost
      <3> QED BY <3>1, <3>2
    <2> QED BY <2>5, <2>7, <2>8, <2>9
  <1>3. joined = {"state", "server"} => ~UNCHANGED pc
    <2>1. SUFFICES ASSUME joined = {"state", "server"} PROVE pc' # pc
      OBVIOUS
    <2>2. TaskTypes
      BY DEF StateInv, TypeOK
    <2>3. PcSet(t, IF t = "app" THEN "dial" ELSE "stopws")
      BY <1>0, <2>1, <2>2, GotoSets, PlacesAre DEF request_join, PlaceNames
    <2> QED BY <2>3 DEF PcSet, request_join
  <1> QED BY <1>1, <1>2, <1>3 DEF request_join

(* A migration begins when no other handshake runs.                        *)
LEMMA MigrateSession ==
    ASSUME StateInv, SessionInv, NEW t \in Migs, migrate_to(t)
    PROVE  SessionInv'
  <1>1. SUFFICES ASSUME ~overlap' PROVE (OnCurrent /\ Stages /\ Renewals /\ Fresh /\ Replaced)'
    BY DEF SessionInv
  <1>2. /\ ~overlap /\ OnCurrent /\ Stages /\ Renewals /\ Fresh
        /\ UNCHANGED <<on, resume, ws, cur, ready, desc>>
    BY <1>1 DEF SessionInv, migrate_to
  <1>3. t \in Tasks /\ t # "reader" /\ ReaderAlone
    BY TaskNames DEF StateInv, DriveInv, DriverInv
  <1>4. /\ pc'["reader"] = "off" /\ pc'[t] = "stopws"
        /\ \A u \in Tasks : u \notin {t, "reader"} => pc'[u] = pc[u]
    BY <1>3, StopSets, PlacesAre DEF migrate_to, PlaceNames, StateInv
  <1>5. \A u \in Tasks : u # t => pc'[u] \in {"off", "called", "done", "raised", "top"}
    <2>1. SUFFICES ASSUME NEW u \in Tasks, u \notin {t, "reader"}
                   PROVE  pc[u] \in {"off", "called", "done", "raised"}
      BY <1>4
    <2>2. pc[u] \in Places /\ pc[u] \notin Working /\ pc[u] \notin {"read", "top", "backoff"}
      BY <1>1, <1>3, <2>1 DEF migrate_to, ReaderAlone, StateInv, TypeOK, TaskTypes
    <2> QED BY <2>2 DEF Places
  <1>6. OnCurrent' /\ Stages'
    <2>1. TaskPlaced(t)
      BY <1>4, <1>5 DEF TaskPlaced, Receiving
    <2> QED BY <1>3, <2>1, TaskSession
  <1>7. Renewals' /\ Fresh'
    BY <1>2, <1>4 DEF Renewals, Fresh
  <1>8. Replaced'
    BY <1>4 DEF Replaced
  <1> QED BY <1>6, <1>7, <1>8

(* Closing the old websocket leaves the session as it was.                 *)
LEMMA StopsWsSession ==
    ASSUME StateInv, SessionInv, NEW t \in Tasks, StopsWs(t)
    PROVE  SessionInv'
  <1>0. /\ Active(t) /\ pc[t] = "stopws"
        /\ UNCHANGED <<on, resume, cur, ready, desc, udp, sockets, overlap, broken>>
    BY DEF StopsWs, Active, Driving, Working, Handshake
  <1>1. SUFFICES ASSUME ~overlap PROVE (OnCurrent /\ Stages /\ Renewals /\ Fresh /\ Replaced)'
    BY <1>0 DEF SessionInv
  <1>2. AtWork(t) /\ TaskTypes /\ SocketTypes
    BY <1>0, <1>1, WorkAlone DEF StateInv, TypeOK
  <1>3. PcSet(t, "dial")
    BY <1>2, GotoSets, PlacesAre DEF StopsWs, PlaceNames
  <1>4. (Open(cur) => CurShut(1000)) /\ (~Open(cur) => ws' = ws)
    BY <1>2, ClosesSocket DEF StopsWs
  <1>5. cur # 0 => ws'[cur].sent = ws[cur].sent /\ ws'[cur].got = ws[cur].got
    BY <1>4 DEF CurShut
  <1>6. OnCurrent' /\ Stages'
    <2>1. TaskPlaced(t)
      BY <1>0, <1>2, <1>3, TaskNames DEF AtWork, TaskPlaced, OnCurrent, PcSet, Receiving
    <2> QED BY <2>1, TaskSession
  <1>7. Renewals'
    <2>1. \A u \in Tasks \ {"reader"} : ~resume'[u]
      BY <1>0, <1>2 DEF AtWork, Renewals
    <2>2. pc'["reader"] # "off" => t = "reader" \/ pc'["reader"] \in {"called", "done", "raised"}
      BY <1>2, <1>3, TaskNames DEF AtWork, PcSet
    <2>3. CASE t = "reader"
      BY <1>0, <1>2, <1>3, <1>4, <2>1, <2>3 DEF AtWork, Renewals, PcSet, Lost, Open
    <2> QED BY <2>1, <2>2, <2>3 DEF Renewals
  <1>8. Fresh'
    BY <1>0, <1>2, <1>5 DEF AtWork, Fresh
  <1>9. Replaced'
    <2>1. SUFFICES ASSUME ~broken PROVE Whole' \/ Lost' \/ \E m \in Migs : pc'[m] \in {"stopws", "dial"}
      BY <1>0 DEF Replaced
    <2>2. CASE Whole
      BY <1>0, <1>5, <2>2 DEF Whole, OneSession
    <2>3. CASE Lost
      BY <1>0, <1>4, <2>3 DEF Lost, Open
    <2>4. CASE t \in Migs
      BY <1>3, <2>4 DEF PcSet
    <2> QED BY <1>2, <2>1, <2>2, <2>3, <2>4 DEF AtWork
  <1> QED BY <1>6, <1>7, <1>8, <1>9

(* An identify forgets the session; a resume keeps one that is whole.      *)
LEMMA DialSession ==
    ASSUME StateInv, SessionInv, NEW t \in Tasks, Dial(t)
    PROVE  SessionInv'
  <1>0. /\ Active(t) /\ pc[t] = "dial" /\ UNCHANGED <<resume, udp, sockets, broken>> /\ (overlap => overlap')
    BY DEF Dial, Active, Driving, Working, Handshake
  <1>1. SUFFICES ASSUME ~overlap PROVE (OnCurrent /\ Stages /\ Renewals /\ Fresh /\ Replaced)'
    BY <1>0 DEF SessionInv
  <1>2. AtWork(t) /\ TaskTypes /\ TypeOK
    BY <1>0, <1>1, WorkAlone DEF StateInv, TypeOK
  <1>n. Len(ws) \in Nat /\ Len(ws) + 1 # 0
    BY <1>2 DEF TypeOK, SocketTypes
  <1>3. CASE Identifies(t)
    <2>1. NewSocket("identify")
      BY <1>2, <1>3, DialledSocket DEF Identifies, Sent
    <2>2. /\ cur' # 0 /\ cur' = Len(ws) + 1 /\ ws'[cur'].sent = {"identify"} /\ ws'[cur'].got = {}
          /\ ready' = 0 /\ desc' = 0
      BY <1>3, <1>n, <2>1 DEF Identifies, Dialled, NewSocket
    <2>3. PcSet(t, "ready") /\ on'[t] = cur'
      <3>1. on \in [Tasks -> 0 .. Len(ws)]
        BY <1>2 DEF TaskTypes
      <3> QED BY <1>2, <1>3, <2>2, <3>1, GotoSets, PlacesAre DEF Identifies, PlaceNames
    <2>4. OnCurrent' /\ Stages'
      <3>1. TaskPlaced(t)
        BY <1>2, <2>2, <2>3 DEF AtWork, TaskPlaced, PcSet
      <3> QED BY <3>1, TaskSession
    <2>5. Renewals'
      <3>1. pc'["reader"] \notin {"stopws", "dial", "join"}
        BY <1>2, <2>3, TaskNames DEF AtWork, PcSet
      <3> QED BY <1>0, <1>2, <3>1 DEF AtWork, Renewals
    <2>6. Fresh'
      BY <2>2 DEF Fresh
    <2>7. Replaced'
      BY <2>2 DEF Replaced, Whole, OneSession
    <2> QED BY <2>4, <2>5, <2>6, <2>7
  <1>4. CASE Resumes(t)
    <2>0. t = "reader" /\ ~Lost
      BY <1>0, <1>2, <1>4 DEF AtWork, Renewals, Resumes
    <2>1. NewSocket("resume")
      BY <1>2, <1>4, DialledSocket DEF Resumes, Sent
    <2>2. /\ cur' # 0 /\ cur' = Len(ws) + 1 /\ ws'[cur'].sent = {"resume"}
          /\ ready' = ready /\ desc' = desc
      BY <1>4, <1>n, <2>1 DEF Resumes, Dialled, NewSocket
    <2>3. TaskPlaced(t) /\ pc'["reader"] \notin {"stopws", "dial", "join"}
      <3>1. CASE Finish(t)
        BY <1>2, <2>2, <3>1, FinishPlaced
      <3>2. CASE Goto(t, "resumed") /\ on' = [on EXCEPT ![t] = Len(ws) + 1]
        <4>1. on \in [Tasks -> 0 .. Len(ws)]
          BY <1>2 DEF TaskTypes
        <4>2. PcSet(t, "resumed") /\ on'[t] = cur'
          BY <1>2, <2>2, <3>2, <4>1, GotoSets, PlacesAre DEF PlaceNames
        <4> QED BY <1>2, <2>0, <2>2, <4>2 DEF AtWork, TaskPlaced, PcSet
      <3> QED BY <1>4, <3>1, <3>2 DEF Resumes
    <2>4. OnCurrent' /\ Stages'
      BY <2>3, TaskSession
    <2>5. Renewals'
      BY <1>0, <1>2, <2>3 DEF AtWork, Renewals
    <2>6. Fresh'
      BY <2>2 DEF Fresh
    <2>7. Replaced'
      <3>1. ~broken => Whole
        BY <1>2, <2>0, TaskNames DEF AtWork
      <3>2. Whole => Whole'
        BY <1>0, <2>2 DEF Whole, OneSession
      <3> QED BY <1>0, <3>1, <3>2 DEF Replaced
    <2> QED BY <2>4, <2>5, <2>6, <2>7
  <1> QED BY <1>3, <1>4 DEF Dial

(* A payload is handled by the one task that receives.                     *)
LEMMA ReceiveSession ==
    ASSUME StateInv, SessionInv, NEW t \in Tasks, Receive(t)
    PROVE  SessionInv'
  <1>0. /\ Active(t) /\ pc[t] \in Receiving /\ UNCHANGED <<on, resume, cur, sockets, overlap, broken>>
    BY DEF Receive, Receiving, Active, Driving, Working, Handshake
  <1>1. SUFFICES ASSUME ~overlap PROVE (OnCurrent /\ Stages /\ Renewals /\ Fresh /\ Replaced)'
    BY <1>0 DEF SessionInv
  <1>2. AtWork(t) /\ TaskTypes /\ SocketTypes
    BY <1>0, <1>1, WorkAlone DEF StateInv, TypeOK
  <1>3. on[t] = cur /\ cur # 0 /\ ws[cur].open /\ cur \in 1 .. Len(ws)
    BY <1>0, <1>2 DEF AtWork, OnCurrent, Receive, Open, SocketTypes
  <1>4. PICK m \in Available(cur) :
          /\ _handle_ws_payload(m, cur) /\ ws' = [ws EXCEPT ![cur].got = @ \cup {m}]
          /\ \/ pc[t] = "ready" /\ ready' # 0 /\ Goto(t, "udp")
             \/ Finish(t)
             \/ UNCHANGED <<pc, readerSet>> /\ (pc[t] = "ready" => ready' = 0)
    <2>1. PICK m \in Available(on[t]) :
            /\ _handle_ws_payload(m, on[t]) /\ ws' = [ws EXCEPT ![on[t]].got = @ \cup {m}]
            /\ \/ pc[t] = "ready" /\ ready' # 0 /\ Goto(t, "udp")
               \/ Finish(t)
               \/ UNCHANGED <<pc, readerSet>> /\ (pc[t] = "ready" => ready' = 0)
      BY DEF Receive
    <2> QED BY <1>3, <2>1
  <1>5. m \in Msgs /\ SocketGot(cur, m)
    <2>1. m \in Msgs
      BY DEF Available
    <2> QED BY <1>2, <1>3, <1>4, <2>1, GotSocket
  <1>6. /\ ws'[cur].sent = ws[cur].sent /\ ws'[cur].got = ws[cur].got \cup {m} /\ ws'[cur].open
        /\ m \notin ws[cur].got
        /\ m = "READY" => "identify" \in ws[cur].sent /\ ready' = cur /\ udp' = cur /\ desc' = desc
        /\ m = "SESSION_DESCRIPTION" => /\ "READY" \in ws[cur].got /\ "select" \in ws[cur].sent
                                        /\ desc' = cur /\ ready' = ready /\ udp' = udp
        /\ m \notin {"READY", "SESSION_DESCRIPTION"} => desc' = desc /\ ready' = ready /\ udp' = udp
    <2>1. /\ ws'[cur].sent = ws[cur].sent /\ ws'[cur].got = ws[cur].got \cup {m} /\ ws'[cur].open
      BY <1>3, <1>5 DEF SocketGot
    <2>2. /\ m \notin ws[cur].got
          /\ m = "READY" => "identify" \in ws[cur].sent
          /\ m = "SESSION_DESCRIPTION" => "READY" \in ws[cur].got /\ "select" \in ws[cur].sent
      BY <1>4 DEF Available
    <2>3. /\ m = "READY" => ready' = cur /\ udp' = cur /\ desc' = desc
          /\ m = "SESSION_DESCRIPTION" => desc' = cur /\ ready' = ready /\ udp' = udp
          /\ m \notin {"READY", "SESSION_DESCRIPTION"} => desc' = desc /\ ready' = ready /\ udp' = udp
      BY <1>4 DEF _handle_ws_payload
    <2> QED BY <2>1, <2>2, <2>3
  <1>7. m = "READY" => ready = 0 /\ desc = 0
    BY <1>2, <1>3, <1>6 DEF AtWork, Fresh
  <1>8. TaskPlaced(t) /\ pc'["reader"] \notin {"stopws", "dial", "join"}
    <2>1. CASE Finish(t)
      BY <1>0, <1>2, <1>3, <2>1, FinishPlaced
    <2>2. CASE pc[t] = "ready" /\ ready' # 0 /\ Goto(t, "udp")
      <3>1. PcSet(t, "udp")
        BY <1>2, <2>2, GotoSets, PlacesAre DEF PlaceNames
      <3>2. m = "READY"
        <4>1. "identify" \in ws[cur].sent /\ "READY" \notin ws[cur].got
          BY <1>2, <2>2 DEF AtWork, Stages
        <4>2. ready = 0
          BY <1>2, <1>3, <4>1 DEF AtWork, Fresh
        <4> QED BY <1>6, <2>2, <4>1, <4>2
      <3> QED BY <1>0, <1>2, <1>3, <1>6, <3>1, <3>2, TaskNames DEF AtWork, TaskPlaced, PcSet
    <2>3. CASE UNCHANGED <<pc, readerSet>> /\ (pc[t] = "ready" => ready' = 0)
      <3>1. /\ pc'[t] \in {"ready", "desc"} => "identify" \in ws'[cur].sent
            /\ pc'[t] = "ready" => "READY" \notin ws'[cur].got
        <4>1. pc[t] = "ready" => m # "READY"
          BY <1>3, <1>6, <2>3
        <4> QED BY <1>2, <1>6, <2>3, <4>1 DEF AtWork, Stages
      <3>2. pc'[t] = "desc" => ready' = cur /\ udp' = cur
        BY <1>2, <1>6, <2>3 DEF AtWork, Stages, Msgs
      <3>3. pc'[t] \in {"ready", "desc", "resumed", "read"} /\ pc'["reader"] \notin {"stopws", "dial", "join"}
        BY <1>0, <1>2, <2>3, TaskNames DEF AtWork, Receiving
      <3> QED BY <1>0, <1>2, <1>3, <2>3, <3>1, <3>2, <3>3 DEF AtWork, TaskPlaced
    <2> QED BY <1>4, <2>1, <2>2, <2>3
  <1>9. OnCurrent' /\ Stages'
    BY <1>8, TaskSession
  <1>10. Renewals'
    BY <1>0, <1>2, <1>8 DEF AtWork, Renewals
  <1>11. Fresh'
    BY <1>0, <1>2, <1>6, <1>7 DEF AtWork, Fresh, Msgs
  <1>12. Replaced'
    <2>1. SUFFICES ASSUME ~broken PROVE Whole'
      BY <1>0 DEF Replaced
    <2>2. Whole
      <3>1. ~Lost /\ pc[t] \notin {"stopws", "dial"}
        BY <1>0, <1>3 DEF Lost, Receiving
      <3> QED BY <1>2, <2>1, <3>1 DEF AtWork
    <2>3. CASE m = "READY"
      <3>1. "select" \notin ws[cur].sent
        BY <1>3, <1>7, <2>2, <2>3 DEF Whole
      <3> QED BY <1>0, <1>6, <1>7, <2>3, <3>1 DEF Whole, OneSession
    <2>4. CASE m = "SESSION_DESCRIPTION"
      BY <1>0, <1>3, <1>6, <2>2, <2>4 DEF Whole, OneSession
    <2>5. CASE m \notin {"READY", "SESSION_DESCRIPTION"}
      BY <1>0, <1>6, <2>2, <2>5 DEF Whole, OneSession
    <2> QED BY <2>3, <2>4, <2>5
  <1> QED BY <1>9, <1>10, <1>11, <1>12

(* UDP connects for the READY of this websocket.                           *)
LEMMA UdpSession ==
    ASSUME StateInv, SessionInv, NEW t \in Tasks, UdpConnects(t)
    PROVE  SessionInv'
  <1>0. Active(t) /\ pc[t] = "udp" /\ UNCHANGED <<on, ws, cur, ready, desc, overlap>>
    BY DEF UdpConnects, Active, Driving, Working, Handshake
  <1>1. CASE Raises(t) /\ UNCHANGED <<udp, sockets>>
    BY <1>0, <1>1, RaiseSession
  <1>2. CASE /\ udp' = (IF udp = 0 THEN ready ELSE udp) /\ sockets' = sockets \cup {udp'}
             /\ Goto(t, "discover") /\ UNCHANGED <<resume, broken>>
    <2>1. SUFFICES ASSUME ~overlap PROVE (OnCurrent /\ Stages /\ Renewals /\ Fresh /\ Replaced)'
      BY <1>0 DEF SessionInv
    <2>2. AtWork(t) /\ TaskTypes
      BY <1>0, <2>1, WorkAlone DEF StateInv, TypeOK
    <2>3. ready = cur /\ udp = cur /\ cur # 0 /\ "identify" \in ws[cur].sent /\ udp' = udp
      BY <1>0, <1>2, <2>2 DEF AtWork, Stages, OnCurrent
    <2>4. PcSet(t, "discover")
      BY <1>2, <2>2, GotoSets, PlacesAre DEF PlaceNames
    <2>5. OnCurrent' /\ Stages'
      <3>1. TaskPlaced(t)
        BY <1>0, <2>2, <2>3, <2>4 DEF AtWork, TaskPlaced, PcSet, Receiving
      <3> QED BY <3>1, TaskSession
    <2>6. Renewals'
      <3>1. pc'["reader"] \notin {"stopws", "dial", "join"}
        BY <2>2, <2>4, TaskNames DEF AtWork, PcSet
      <3> QED BY <1>2, <2>2, <3>1 DEF AtWork, Renewals
    <2>7. Fresh'
      BY <1>0, <2>2 DEF AtWork, Fresh
    <2>8. Replaced'
      <3>1. ~broken => Whole \/ Lost
        BY <1>0, <2>2 DEF AtWork
      <3>2. Whole => Whole'
        BY <1>0, <1>2, <2>3 DEF Whole, OneSession
      <3>3. Lost => Lost'
        BY <1>0 DEF Lost
      <3> QED BY <1>2, <3>1, <3>2, <3>3 DEF Replaced
    <2> QED BY <2>5, <2>6, <2>7, <2>8
  <1> QED BY <1>1, <1>2 DEF UdpConnects

(* A protocol is selected with that READY and that UDP client.             *)
LEMMA SelectSession ==
    ASSUME StateInv, SessionInv, NEW t \in Tasks, SelectsProtocol(t)
    PROVE  SessionInv'
  <1>0. Active(t) /\ pc[t] = "discover" /\ UNCHANGED <<cur, ready, desc, udp, overlap>>
    BY DEF SelectsProtocol, Active, Driving, Working, Handshake
  <1>1. CASE Raises(t) /\ UNCHANGED <<ws, sockets>>
    BY <1>0, <1>1, RaiseSession
  <1>2. CASE /\ Open(cur) /\ ws' = [ws EXCEPT ![cur].sent = @ \cup {"select"}] /\ sockets' = sockets \cup {udp}
             /\ \/ Finish(t) /\ UNCHANGED <<on, resume, entry, broken>>
                \/ ReceivesFrom(t, cur, "desc")
    <2>1. SUFFICES ASSUME ~overlap PROVE (OnCurrent /\ Stages /\ Renewals /\ Fresh /\ Replaced)'
      BY <1>0 DEF SessionInv
    <2>2. AtWork(t) /\ TaskTypes /\ SocketTypes
      BY <1>0, <2>1, WorkAlone DEF StateInv, TypeOK
    <2>3. ready = cur /\ udp = cur /\ cur # 0 /\ "identify" \in ws[cur].sent
      BY <1>0, <2>2 DEF AtWork, Stages, OnCurrent
    <2>4. /\ ws'[cur].open = ws[cur].open /\ ws'[cur].got = ws[cur].got
          /\ ws'[cur].sent = ws[cur].sent \cup {"select"}
      <3>1. CurSent("select")
        BY <1>2, <2>2, <2>3, SentSocket DEF Sent
      <3> QED BY <3>1 DEF CurSent
    <2>5. ~Busy(t, cur)
      BY <2>2 DEF AtWork, Busy, Receiving
    <2>6. /\ TaskPlaced(t) /\ pc'["reader"] \notin {"stopws", "dial", "join"}
          /\ UNCHANGED <<resume, broken>>
      <3>1. CASE Finish(t) /\ UNCHANGED <<resume, broken>>
        BY <1>0, <2>2, <2>3, <3>1, FinishPlaced
      <3>2. CASE Goto(t, "desc") /\ on' = [on EXCEPT ![t] = cur] /\ UNCHANGED <<resume, broken>>
        <4>1. PcSet(t, "desc") /\ on'[t] = cur
          BY <2>2, <3>2, GotoSets, PlacesAre DEF PlaceNames, TaskTypes
        <4> QED BY <1>0, <2>2, <2>3, <2>4, <3>2, <4>1, TaskNames DEF AtWork, TaskPlaced, PcSet
      <3> QED BY <1>2, <2>5, <3>1, <3>2 DEF ReceivesFrom
    <2>7. OnCurrent' /\ Stages'
      BY <2>6, TaskSession
    <2>8. Renewals'
      BY <2>2, <2>6 DEF AtWork, Renewals
    <2>9. Fresh'
      BY <1>0, <2>2, <2>4 DEF AtWork, Fresh
    <2>10. Replaced'
      <3>1. ~broken => Whole
        BY <1>0, <1>2, <2>2 DEF AtWork, Lost, Open
      <3>2. Whole => Whole'
        BY <1>0, <1>2, <2>3 DEF Whole, OneSession
      <3> QED BY <2>6, <3>1, <3>2 DEF Replaced
    <2> QED BY <2>7, <2>8, <2>9, <2>10
  <1> QED BY <1>1, <1>2 DEF SelectsProtocol

(* The reader: what a lost websocket leads to.                             *)
LEMMA ReaderSession ==
    ASSUME StateInv, SessionInv, ReaderLoops \/ ReaderSeesClose \/ BackoffEnds
    PROVE  SessionInv'
  <1>0. /\ Active("reader") /\ pc["reader"] # "off" /\ "reader" \in Tasks /\ TaskTypes
        /\ UNCHANGED <<ws, cur, ready, desc, udp, sockets, overlap, broken, closer>>
    BY TaskNames DEF ReaderLoops, ReaderSeesClose, BackoffEnds, conn, Active, Driving, StateInv, TypeOK
  <1>1. CASE (Goto("reader", "off") \/ Goto("reader", "top")) /\ UNCHANGED <<on, resume>>
    <2>1. PcSet("reader", "off") \/ PcSet("reader", "top")
      BY <1>0, <1>1, GotoSets, PlacesAre DEF PlaceNames
    <2>2. NoneStarts
      BY <1>0, <2>1 DEF NoneStarts, PcSet
    <2> QED BY <1>0, <1>1, <2>2, SameSession
  <1>2. CASE ~((Goto("reader", "off") \/ Goto("reader", "top")) /\ UNCHANGED <<on, resume>>)
    <2>1. SUFFICES ASSUME ~overlap PROVE (OnCurrent /\ Stages /\ Renewals /\ Fresh /\ Replaced)'
      BY <1>0 DEF SessionInv
    <2>2. AtWork("reader")
      BY <1>0, <2>1, WorkAlone
    <2>3. cur # 0
      BY <1>0, <2>2 DEF AtWork, OnCurrent
    <2>4. Fresh'
      BY <1>0, <2>2 DEF AtWork, Fresh
    <2>5. Replaced'
      <3>1. ~broken => Whole \/ Lost
        BY <2>2, TaskNames DEF AtWork
      <3> QED BY <1>0, <3>1 DEF Replaced, Whole, OneSession, Lost
    <2>6. \A u \in Tasks \ {"reader"} : ~resume[u]
      BY <2>2 DEF AtWork, Renewals
    <2>7. CASE Goto("reader", "read") /\ on' = [on EXCEPT !["reader"] = cur] /\ UNCHANGED resume
      <3>1. PcSet("reader", "read") /\ on'["reader"] = cur
        BY <1>0, <2>7, GotoSets, PlacesAre DEF PlaceNames, TaskTypes
      <3>2. TaskPlaced("reader")
        BY <1>0, <2>2, <2>3, <3>1 DEF AtWork, TaskPlaced, PcSet
      <3>3. OnCurrent' /\ Stages'
        BY <1>0, <3>2, TaskSession
      <3>4. Renewals'
        BY <2>6, <2>7, <3>1 DEF Renewals, PcSet
      <3> QED BY <2>4, <2>5, <3>3, <3>4
    <2>8. CASE ReaderSeesClose /\ (Goto("reader", "join") \/ Goto("reader", "stopws"))
      <3>1. PcSet("reader", "join") \/ PcSet("reader", "stopws")
        BY <1>0, <2>8, GotoSets, PlacesAre DEF PlaceNames
      <3>2. TaskPlaced("reader")
        BY <1>0, <2>2, <2>3, <3>1 DEF AtWork, TaskPlaced, PcSet, Receiving
      <3>3. OnCurrent' /\ Stages'
        BY <1>0, <3>2, TaskSession
      <3>4. on["reader"] = cur /\ ~ws[cur].open
        BY <1>0, <2>2, <2>3, <2>8 DEF AtWork, OnCurrent, ReaderSeesClose, Receiving, Open
      <3>5. \A u \in Tasks \ {"reader"} : ~resume'[u]
        <4>1. resume \in [Tasks -> BOOLEAN]
          BY <1>0 DEF TaskTypes
        <4>2. PICK b \in BOOLEAN : resume' = resume \/ resume' = [resume EXCEPT !["reader"] = b]
          BY <2>8 DEF ReaderSeesClose
        <4> QED BY Zenon, <2>6, <4>1, <4>2
      <3>6. pc'["reader"] = "join" => Lost
        <4>1. pc'["reader"] = "join" => classify_voice_close_code(ws[on["reader"]].code) = "rejoin"
          BY <1>0, <2>8 DEF ReaderSeesClose, Joins, Goto, TaskTypes
        <4> QED BY <2>3, <3>4, <4>1, Classified DEF Lost
      <3>7. pc'["reader"] = "stopws" => ~Lost
        <4>1. pc'["reader"] = "stopws" => classify_voice_close_code(ws[on["reader"]].code) = "resume"
          BY <1>0, <2>8 DEF ReaderSeesClose, Joins, Goto, TaskTypes
        <4> QED BY <2>3, <3>4, <4>1, Classified DEF Lost
      <3>8. Renewals'
        <4>1. pc'["reader"] \in {"join", "stopws"}
          BY <3>1 DEF PcSet
        <4> QED BY <1>0, <3>4, <3>5, <3>6, <3>7, <4>1 DEF Renewals, Lost, Open
      <3> QED BY <2>4, <2>5, <3>3, <3>8
    <2>9. ~Busy("reader", cur)
      BY <2>2 DEF AtWork, Busy, Receiving
    <2> QED BY <1>2, <2>7, <2>8, <2>9 DEF ReaderLoops, ReaderSeesClose, BackoffEnds, Joins
  <1> QED BY <1>1, <1>2

(* The manager and close().                                                *)
LEMMA ManagerSession ==
    ASSUME StateInv, SessionInv,
           \/ Connect \/ VoiceStateUpdate \/ VoiceServerUpdate \/ HeartbeatEnds \/ Disconnect
           \/ CloseStarts \/ Close \/ UNCHANGED vars \/ \E c \in CloseCodes : WsCloses(c)
    PROVE  SessionInv'
  <1>0. TaskTypes /\ SocketTypes /\ ReaderAlone /\ QuietInv /\ TypeOK
    BY DEF StateInv, TypeOK, DriveInv, DriverInv
  <1>1. CASE Connect
    <2>1. PcSet("app", "join") /\ pc["app"] = "off"
      BY <1>0, <1>1, GotoSets, TaskNames, PlacesAre DEF Connect, Joins, PlaceNames
    <2>2. NoneStarts
      BY <2>1, TaskNames DEF NoneStarts, PcSet
    <2> QED BY <1>1, <2>2, SameSession DEF Connect, conn
  <1>2. CASE VoiceStateUpdate \/ HeartbeatEnds \/ Disconnect \/ UNCHANGED vars
    <2>1. /\ UNCHANGED <<pc, on, resume, ws, cur, ready, desc, udp, sockets, overlap, broken>>
          /\ closer \in {"ws", "closed"} => closer' \in {"ws", "closed"}
      BY <1>2 DEF VoiceStateUpdate, HeartbeatEnds, Disconnect, vars, conn, mgr
    <2>2. NoneStarts
      BY <2>1 DEF NoneStarts
    <2> QED BY <2>1, <2>2, SameSession
  <1>3. CASE VoiceServerUpdate
    <2>1. UNCHANGED <<on, resume, ws, cur, ready, desc, udp, sockets, overlap, broken, closer>>
      BY <1>3 DEF VoiceServerUpdate, conn
    <2>2. NoneStarts
      <3>1. CASE UNCHANGED pc
        BY <3>1 DEF NoneStarts
      <3>2. CASE \E m \in Migs : pc[m] = "off" /\ Goto(m, "called")
        <4>1. PICK m \in Migs : pc[m] = "off" /\ Goto(m, "called")
          BY <3>2
        <4>2. PcSet(m, "called") /\ m # "reader"
          BY <1>0, <4>1, GotoSets, TaskNames, PlacesAre DEF PlaceNames
        <4> QED BY <4>1, <4>2 DEF NoneStarts, PcSet
      <3> QED BY <1>3, <3>1, <3>2 DEF VoiceServerUpdate
    <2> QED BY <2>1, <2>2, SameSession
  <1>4. CASE CloseStarts
    <2>1. /\ pc'["reader"] = "off" /\ \A u \in Tasks : u # "reader" => pc'[u] = pc[u]
      BY <1>0, <1>4, StopSets, TaskNames, PlacesAre DEF CloseStarts, PlaceNames
    <2>2. NoneStarts
      BY <2>1 DEF NoneStarts
    <2>3. /\ UNCHANGED <<on, resume, ws, cur, ready, desc, udp, sockets, broken>> /\ (overlap => overlap')
          /\ closer \notin {"ws", "closed"}
      BY <1>4 DEF CloseStarts
    <2> QED BY <2>2, <2>3, SameSession
  <1>5. CASE Close
    <2>0. UNCHANGED <<pc, on, resume, cur, ready, desc, overlap>> /\ closer' \in {"ws", "closed"}
      BY <1>5 DEF Close, CloseReleases, CloseEnds
    <2>1. SUFFICES ASSUME ~overlap PROVE (OnCurrent /\ Stages /\ Renewals /\ Fresh /\ Replaced)'
      BY <2>0 DEF SessionInv
    <2>2. OnCurrent /\ Renewals /\ Fresh
      BY <2>1 DEF SessionInv
    <2>3. \A u \in Tasks : pc[u] \notin Driving
      BY <1>0, <1>5, <2>1 DEF QuietInv, Close, CloseReleases, CloseEnds, Drivers
    <2>4. \A u \in Tasks : pc[u] \in {"off", "done", "raised"}
      BY <1>0, <2>3 DEF TaskTypes, Places, Driving
    <2>5. OnCurrent' /\ Stages'
      BY <2>0, <2>2, <2>4 DEF OnCurrent, Stages, Receiving
    <2>6. Renewals'
      BY <2>0, <2>2, <2>4, TaskNames DEF Renewals
    <2>7. Fresh'
      <3>1. CASE ws' = ws
        BY <2>0, <2>2, <3>1 DEF Fresh
      <3>2. CASE CurShut(1000)
        BY <2>0, <2>2, <3>2 DEF Fresh, CurShut
      <3>3. ws' = ws \/ CurShut(1000)
        <4>1. CASE CloseReleases
          BY <4>1 DEF CloseReleases
        <4>2. CASE CloseEnds
          BY <1>0, <4>2, ClosesSocket DEF CloseEnds
        <4> QED BY <1>5, <4>1, <4>2 DEF Close
      <3> QED BY <3>1, <3>2, <3>3
    <2>8. Replaced'
      BY <2>0 DEF Replaced
    <2> QED BY <2>5, <2>6, <2>7, <2>8
  <1>6. CASE \E c \in CloseCodes : WsCloses(c)
    <2>1. PICK c \in CloseCodes : WsCloses(c)
      BY <1>6
    <2>2. /\ cur # 0 /\ ws[cur].open
          /\ UNCHANGED <<pc, on, resume, cur, ready, desc, udp, sockets, overlap, broken, closer>>
      BY <2>1 DEF WsCloses, Open
    <2>3. ws'[cur].sent = ws[cur].sent /\ ws'[cur].got = ws[cur].got
      <3>1. c \in CloseCodes \cup {0, 1000} /\ ws' = [ws EXCEPT ![cur] = Shut(@, c)]
        BY <2>1 DEF WsCloses
      <3>2. CurShut(c)
        BY <1>0, <2>2, <3>1, ShutsSocket
      <3> QED BY <3>2 DEF CurShut
    <2>4. SUFFICES ASSUME ~overlap PROVE (OnCurrent /\ Stages /\ Renewals /\ Fresh /\ Replaced)'
      BY <2>2 DEF SessionInv
    <2>5. OnCurrent /\ Stages /\ Renewals /\ Fresh /\ Replaced
      BY <2>4 DEF SessionInv
    <2>6. OnCurrent' /\ Stages'
      BY <2>2, <2>3, <2>5 DEF OnCurrent, Stages
    <2>7. Renewals'
      BY <2>2, <2>5 DEF Renewals, Lost, Open
    <2>8. Fresh'
      BY <2>2, <2>3, <2>5 DEF Fresh
    <2>9. Replaced'
      BY <2>2, <2>3, <2>5 DEF Replaced, Whole, OneSession, Lost
    <2> QED BY <2>6, <2>7, <2>8, <2>9
  <1> QED BY <1>1, <1>2, <1>3, <1>4, <1>5, <1>6

(* Every step keeps the session.                                           *)
LEMMA StepSession ==
    ASSUME StateInv, SessionInv, [Next]_vars
    PROVE  SessionInv'
  <1>1. ASSUME NEW t \in Tasks, TaskStep(t) \/ Fails(t)
        PROVE  SessionInv'
    <2>1. CASE t \in {"app", "reader"} /\ request_join(t)
      BY <2>1, JoinSession
    <2>2. CASE t \in Migs /\ migrate_to(t)
      BY <2>2, MigrateSession
    <2>3. CASE ClosedInHandshake(t) \/ Fails(t)
      <3>1. /\ Active(t) /\ Raises(t) /\ UNCHANGED <<ws, cur, ready, desc, udp, sockets, overlap>>
        BY <2>3 DEF ClosedInHandshake, Fails, UnchangedRaising, conn, Active, Driving, Working, Handshake, Receiving
      <3> QED BY <3>1, RaiseSession
    <2>4. CASE StopsWs(t)
      BY <2>4, StopsWsSession
    <2>5. CASE Dial(t)
      BY <2>5, DialSession
    <2>6. CASE Receive(t)
      BY <2>6, ReceiveSession
    <2>7. CASE UdpConnects(t)
      BY <2>7, UdpSession
    <2>8. CASE SelectsProtocol(t)
      BY <2>8, SelectSession
    <2>9. CASE ReaderLoops \/ ReaderSeesClose \/ BackoffEnds
      BY <2>9, ReaderSession
    <2> QED BY <1>1, <2>1, <2>2, <2>3, <2>4, <2>5, <2>6, <2>7, <2>8, <2>9 DEF TaskStep
  <1>2. CASE \/ Connect \/ VoiceStateUpdate \/ VoiceServerUpdate \/ HeartbeatEnds \/ Disconnect
             \/ CloseStarts \/ Close \/ UNCHANGED vars \/ \E c \in CloseCodes : WsCloses(c)
    BY <1>2, ManagerSession
  <1> QED BY <1>1, <1>2 DEF Next

-----------------------------------------------------------------------------
(* The theorems.                                                           *)

(* It all holds before the first connect.                                  *)
LEMMA InitInv ==
    ASSUME Init
    PROVE  StateInv /\ SessionInv
  <1>1. TypeOK
    <2>1. \A t \in Tasks : pc[t] = "off" /\ on[t] = 0 /\ ~resume[t]
      BY DEF Init
    <2>2. TaskTypes
      <3>1. "off" \in Places /\ Len(ws) = 0 /\ 0 \in 0 .. 0
        BY DEF Places, Init
      <3>2. pc \in [Tasks -> Places] /\ on \in [Tasks -> 0 .. Len(ws)]
        BY <3>1 DEF Init
      <3>3. resume \in [Tasks -> BOOLEAN]
        BY Zenon DEF Init
      <3> QED BY <3>2, <3>3 DEF TaskTypes
    <2>3. SocketTypes
      BY DEF Init, SocketTypes
    <2>4. FlagTypes
      BY DEF Init, FlagTypes
    <2>5. CountTypes
      BY VoiceAssumption DEF Init, CountTypes
    <2> QED BY <2>2, <2>3, <2>4, <2>5 DEF TypeOK
  <1>2. \A t \in Tasks : pc[t] = "off" /\ ~resume[t]
    BY DEF Init
  <1>3. \A t \in Tasks : pc[t] \notin Driving
    BY <1>2 DEF Driving, Working, Handshake
  <1>4. DriveInv
    BY <1>2, <1>3, TaskNames DEF Init, DriveInv, DriverInv, BeforeConnect, OneActive, Active, ReaderAlone, SomeoneDrives
  <1>5. QuietInv
    BY DEF Init, QuietInv
  <1>6. SessionInv
    BY <1>2, TaskNames DEF Init, SessionInv, OnCurrent, Receiving, Stages, Renewals, Fresh, Replaced, Whole, OneSession
  <1> QED BY <1>1, <1>4, <1>5, <1>6 DEF StateInv

(* The inductive invariant of the connection: the tasks' places, what      *)
(* close() has released, and the session.                                  *)
THEOREM VoiceInvariant == Spec => [](StateInv /\ SessionInv)
  <1>1. Init => StateInv /\ SessionInv
    BY InitInv
  <1>2. StateInv /\ SessionInv /\ [Next]_vars => (StateInv /\ SessionInv)'
    <2>1. SUFFICES ASSUME StateInv, SessionInv, [Next]_vars PROVE (StateInv /\ SessionInv)'
      OBVIOUS
    <2>2. TypeOK /\ DriveInv /\ ReaderAlone /\ QuietInv
      BY <2>1 DEF StateInv, DriveInv, DriverInv
    <2>3. TypeOK'
      BY <2>1, <2>2, StepTypes
    <2>4. DriveInv'
      BY <2>1, <2>2, StepDrives
    <2>5. QuietInv'
      BY <2>1, <2>2, StepQuiet
    <2>6. SessionInv'
      BY <2>1, StepSession
    <2> QED BY <2>3, <2>4, <2>5, <2>6 DEF StateInv
  <1> QED BY <1>1, <1>2, PTL DEF Spec

(* For any number of migrations: one task at a time works on the           *)
(* connection, unless an update or a close overtook a handshake, and a     *)
(* connection that was made and not closed has one (connection.py,         *)
(* _start_reader, _stop_reader, migrate_to, _read_loop).                   *)
THEOREM Driven == Spec => []DrivenByOne
  <1>1. StateInv => DrivenByOne
    BY OneDriverCounts DEF StateInv, DriveInv, DrivenByOne
  <1> QED BY <1>1, VoiceInvariant, PTL

(* After close() no task, heartbeat, UDP client or websocket of the        *)
(* connection is left, unless it overtook a connect or a migration.        *)
THEOREM Quiet == Spec => []ClosedIsQuiet
  <1>1. StateInv => ClosedIsQuiet
    BY DEF StateInv, QuietInv, ClosedIsQuiet
  <1> QED BY <1>1, VoiceInvariant, PTL

(* A connection at rest has the key, SSRC and UDP socket of one session,   *)
(* after any sequence of resumes, identifies, rejoins and migrations.      *)
THEOREM OneSessionAtRest == Spec => []MediaOfOneSession
  <1>1. StateInv /\ SessionInv => MediaOfOneSession
    <2>1. SUFFICES ASSUME StateInv, SessionInv, AtRest PROVE OneSession
      BY DEF MediaOfOneSession
    <2>2. Open(cur) /\ ~closing /\ ~overlap /\ ~broken /\ pc["reader"] = "read"
      BY <2>1 DEF AtRest, is_connected
    <2>3. Active("reader") /\ "reader" \in Tasks
      BY <2>2, TaskNames DEF Active, Driving, Working, Handshake
    <2>4. AtWork("reader")
      BY <2>1, <2>2, <2>3, WorkAlone
    <2>5. Whole
      BY <2>2, <2>4, TaskNames DEF AtWork, Lost, Open
    <2> QED BY <2>5 DEF Whole
  <1> QED BY <1>1, VoiceInvariant, PTL
=============================================================================
