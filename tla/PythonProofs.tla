---------------------------- MODULE PythonProofs ----------------------------
(***************************************************************************)
(* Proofs about three modules of the Python SDK that share no variable,    *)
(* for any value of their constants:                                       *)
(*                                                                         *)
(*   GatewayPy      the lifecycle of the bot is safe (LifecycleIsSafe);    *)
(*   FsmStoragePy   a storage holds what was asked of it                   *)
(*                  (StorageHoldsWhatWasAsked), a transition keeps the     *)
(*                  data (TransitionLosesNothing), and a snapshot is not   *)
(*                  changed by later calls (SnapshotIsKept);               *)
(*   PermissionsPy  allow and deny never meet (Disjoint), the effective    *)
(*                  permissions are the documented hierarchy (Layered),    *)
(*                  and a new role takes nothing away (RolesOnlyAdd).      *)
(***************************************************************************)
EXTENDS GatewayPy, FsmStoragePy, PermissionsPy, TLAPS

-----------------------------------------------------------------------------
(***************************************************************************)
(* The bot: GatewayPy.                                                     *)
(***************************************************************************)

(* The part of LifecycleInv that is inductive: the rest follows.           *)
GatewayIInv == TypeOK /\ StartsInTurn /\ WebsocketsHaveReaders /\ ConnectionsCounted

LEMMA GatewayTasks ==
    /\ User \in Tasks /\ User \notin Starts /\ Starts \subseteq Tasks /\ Starts \subseteq Nat
    /\ MaxStarts \in Starts /\ \A i \in Starts : i > 0 /\ i <= MaxStarts
    /\ \A t \in Tasks : t = User \/ t \in Starts
  BY ConstantsAssumption DEF User, Tasks, Starts

(* A task is in one await.                                                 *)
LEMMA Moved ==
    ASSUME TypeOK, NEW t \in Tasks, NEW p \in Awaits, Goto(t, p)
    PROVE  /\ pc' \in [Tasks -> Awaits] /\ pc'[t] = p
           /\ \A u \in Tasks : u # t => pc'[u] = pc[u]
  BY DEF TypeOK, Goto

(* A start() that is under way is the last one.                            *)
LEMMA LastStart ==
    ASSUME TypeOK, StartsInTurn, NEW i \in Starts, pc[i] # "returned"
    PROVE  /\ \A j \in Starts : j > i => pc[j] = "none"
           /\ pc[i] # "none" => \A j \in Starts : j # i => Idle(j) /\ ~Active(j) /\ ~Reading(j) /\ ~Connecting(j)
                                                           /\ pc[j] \notin {"close", "stopws", "stopsess"}
  <1>1. \A j \in Starts : j > i => pc[j] = "none"
    BY GatewayTasks DEF StartsInTurn
  <1>2. \A j \in Starts : j < i /\ pc[i] # "none" => pc[j] = "returned"
    BY DEF StartsInTurn
  <1> QED BY <1>1, <1>2, GatewayTasks DEF Idle, Active, Reading, Connecting

(* Sessions: how many more there can be.                                   *)
Usable == IF SessionUsable THEN 0 ELSE 1

LEMMA SmallCounts ==
    /\ \A i \in Starts : Dials(i) \in 0 .. 2 /\ Ended(i) \in 0 .. 2
    /\ StopsLeft \in 0 .. 2 /\ Usable \in 0 .. 1
    /\ SessionsDue = nsess + Usable + StopsLeft
    /\ TypeOK => SessionsDue \in Nat
  <1>1. /\ \A i \in Starts : Dials(i) \in 0 .. 2 /\ Ended(i) \in 0 .. 2
        /\ StopsLeft \in 0 .. 2 /\ Usable \in 0 .. 1
    BY DEF Dials, Ended, StopsLeft, Usable
  <1>2. SessionsDue = nsess + Usable + StopsLeft
    BY DEF SessionsDue, Usable
  <1>3. TypeOK => nsess \in Nat
    BY DEF TypeOK
  <1> QED BY <1>1, <1>2, <1>3

LEMMA SessionsBounded ==
    ASSUME TypeOK, ConnectionsCounted
    PROVE  nsess + Usable <= MaxSessions /\ nconns <= MaxConns
  <1>1. \A j \in Starts : ~(j > MaxStarts)
    BY GatewayTasks
  <1>2. /\ nconns <= 2 * (MaxStarts - 1) + Dials(MaxStarts)
        /\ nsess + Usable + StopsLeft <= 2 * stops + 2 * (MaxStarts - 1) + 1 + Ended(MaxStarts)
    BY <1>1, GatewayTasks, SmallCounts DEF ConnectionsCounted
  <1> QED BY <1>2, SmallCounts, GatewayTasks, ConstantsAssumption DEF TypeOK, MaxSessions, MaxConns

LEMMA SessionCreated ==
    ASSUME TypeOK, ConnectionsCounted, _create_session
    PROVE  /\ session' \in 0 .. nsess' /\ sessions' \subseteq 1 .. nsess' /\ nsess' \in 0 .. MaxSessions
           /\ CreatedSession \in 0 .. MaxSessions
           /\ StopsLeft' = StopsLeft => SessionsDue' = SessionsDue
  <1>0. nsess' + Usable' = nsess + Usable => (StopsLeft' = StopsLeft => SessionsDue' = SessionsDue)
    BY DEF SessionsDue, Usable
  <1>1. CASE SessionUsable
    <2>1. session' = session /\ sessions' = sessions /\ nsess' = nsess /\ CreatedSession = session
      BY <1>1 DEF _create_session, CreatedSession, SessionUsable
    <2> QED BY <1>0, <1>1, <2>1, ConstantsAssumption DEF TypeOK, Usable, SessionUsable, MaxSessions
  <1>2. CASE ~SessionUsable
    <2>1. /\ session' = nsess + 1 /\ sessions' = sessions \cup {nsess + 1} /\ nsess' = nsess + 1
          /\ CreatedSession = nsess + 1
      BY <1>2 DEF _create_session, CreatedSession
    <2>2. nsess \in Nat /\ sessions \subseteq 1 .. nsess /\ nsess + 1 <= MaxSessions /\ MaxSessions \in Nat
      BY <1>2, SessionsBounded, ConstantsAssumption DEF TypeOK, Usable, MaxSessions
    <2>3. session' \in 0 .. nsess' /\ sessions' \subseteq 1 .. nsess' /\ nsess' \in 0 .. MaxSessions
      BY <2>1, <2>2
    <2>4. SessionUsable'
      BY <2>1, <2>2 DEF SessionUsable, None
    <2> QED BY <1>0, <1>2, <2>1, <2>2, <2>3, <2>4 DEF Usable
  <1> QED BY <1>1, <1>2

LEMMA CountsAdd ==
    ASSUME NEW x \in Nat, NEW y \in Nat, NEW d \in 0 .. 2, NEW e \in 0 .. 2, NEW m \in Int,
           x + d <= y + e, y <= m + d
    PROVE  x <= m + e /\ x <= m + 2
  OBVIOUS

(* A step of the last start(): the counts grow as far as it has come.      *)
LEMMA StartCounts ==
    ASSUME TypeOK, TypeOK', StartsInTurn, ConnectionsCounted, NEW i \in Starts, pc[i] # "returned",
           pc'[i] # "none", \A j \in Starts : j # i => pc'[j] = pc[j], stops' = stops,
           nconns' + Dials(i) <= nconns + Dials(i)',
           SessionsDue' + Ended(i) <= SessionsDue + Ended(i)'
    PROVE  ConnectionsCounted'
  <1> DEFINE D == Dials(i)'
             E == Ended(i)'
             S == SessionsDue'
             m == 2 * (i - 1)
             n == 2 * stops + 2 * (i - 1) + 1
  <1>0. \A j \in Starts : j > i => pc[j] = "none" /\ pc'[j] = "none"
    BY LastStart, GatewayTasks
  <1>1. D \in 0 .. 2 /\ E \in 0 .. 2
    BY DEF Dials, Ended
  <1>2. S \in Nat
    <2>1. nsess' \in Nat
      BY DEF TypeOK
    <2> QED BY <2>1 DEF SessionsDue, StopsLeft
  <1>3. /\ nconns \in Nat /\ nconns' \in Nat /\ SessionsDue \in Nat /\ stops \in Nat
        /\ i \in Nat /\ Dials(i) \in 0 .. 2 /\ Ended(i) \in 0 .. 2
    BY SmallCounts, GatewayTasks DEF TypeOK
  <1>4. nconns <= m + Dials(i) /\ SessionsDue <= n + Ended(i) /\ m \in Int /\ n \in Int
    BY <1>0, <1>3 DEF ConnectionsCounted
  <1>5. nconns' + Dials(i) <= nconns + D /\ S + Ended(i) <= SessionsDue + E
    OBVIOUS
  <1> HIDE DEF D, E, S, m, n
  <1>6. nconns' <= m + D /\ nconns' <= m + 2
    BY <1>1, <1>3, <1>4, <1>5, CountsAdd
  <1>7. S <= n + E /\ S <= n + 2
    BY <1>1, <1>2, <1>3, <1>4, <1>5, CountsAdd
  <1>8. ASSUME NEW k \in Starts, \A j \in Starts : j > k => pc'[j] = "none"
        PROVE  /\ nconns' <= 2 * (k - 1) + Dials(k)'
               /\ S <= 2 * stops' + 2 * (k - 1) + 1 + Ended(k)'
    <2>1. CASE k = i
      BY <1>6, <1>7, <2>1 DEF D, E, m, n
    <2>2. CASE k > i
      <3>1. pc'[k] = "none"
        BY <1>0, <2>2
      <3>2. Dials(k)' = 0 /\ Ended(k)' = 0
        BY <3>1 DEF Dials, Ended
      <3>3. k \in Nat /\ k >= i + 1
        BY <1>3, <2>2, GatewayTasks
      <3>4. m + 2 <= 2 * (k - 1) /\ n + 2 <= 2 * stops + 2 * (k - 1) + 1
        BY <1>3, <3>3 DEF m, n
      <3> QED BY <1>2, <1>3, <1>4, <1>6, <1>7, <3>2, <3>3, <3>4
    <2>3. CASE k < i
      BY <1>8, <2>3, GatewayTasks
    <2> QED BY <2>1, <2>2, <2>3, GatewayTasks
  <1> QED BY <1>8 DEF ConnectionsCounted, S

(* A step of anybody else.                                                 *)
LEMMA OthersCount ==
    ASSUME TypeOK, TypeOK', ConnectionsCounted, \A j \in Starts : pc'[j] = pc[j], task' = task,
           nconns' = nconns, NEW s \in 0 .. 1, stops' = stops + s, SessionsDue' <= SessionsDue + 2 * s
    PROVE  ConnectionsCounted'
  <1> DEFINE S == SessionsDue'
             D == SessionsDue
  <1>1. \A i \in Starts : Dials(i)' = Dials(i) /\ Ended(i)' = Ended(i)
    BY DEF Dials, Ended, Connecting
  <1>2. D \in Nat /\ stops \in Nat
    BY SmallCounts DEF TypeOK
  <1>3. S \in Nat
    <2>1. nsess' \in Nat
      BY DEF TypeOK
    <2> QED BY <2>1 DEF SessionsDue, StopsLeft
  <1>4. S <= D + 2 * s
    OBVIOUS
  <1>5. ASSUME NEW k \in Starts, \A j \in Starts : j > k => pc'[j] = "none"
        PROVE  nconns' <= 2 * (k - 1) + Dials(k) /\ D <= 2 * stops + 2 * (k - 1) + 1 + Ended(k)
    BY <1>5 DEF ConnectionsCounted
  <1> HIDE DEF S, D
  <1>6. ASSUME NEW k \in Starts, \A j \in Starts : j > k => pc'[j] = "none"
        PROVE  S <= 2 * stops' + 2 * (k - 1) + 1 + Ended(k)
    <2> DEFINE e == Ended(k)
    <2>1. e \in 0 .. 2 /\ k \in Nat
      BY SmallCounts, GatewayTasks
    <2>2. D <= 2 * stops + 2 * (k - 1) + 1 + e
      BY <1>5, <1>6
    <2> HIDE DEF e
    <2>3. CASE s = 0
      BY <1>2, <1>3, <1>4, <2>1, <2>2, <2>3 DEF e
    <2>4. CASE s = 1
      BY <1>2, <1>3, <1>4, <2>1, <2>2, <2>4 DEF e
    <2> QED BY <2>3, <2>4
  <1> QED BY <1>1, <1>5, <1>6 DEF ConnectionsCounted, S

-----------------------------------------------------------------------------
(* What a step leaves of the turns and of the websockets, by its effect.   *)

(* A start() that goes on.                                                 *)
LEMMA ActiveTurn ==
    ASSUME TypeOK, StartsInTurn, NEW i \in Starts, Active(i), Active(i)',
           \A u \in Tasks : u # i => pc'[u] = pc[u], running' = running,
           \A j \in Starts : j # i => task'[j] = task[j],
           pc'[i] = "retry" => task'[i].attempt < MaxRetries
    PROVE  StartsInTurn'
  <1>0. \A j \in Starts : j # i => Idle(j)
    BY LastStart DEF Active
  <1>1. /\ pc'[User] = pc[User] /\ pc[i] # "none" /\ pc'[i] # "none" /\ ~Idle(i)' /\ pc'[i] # "returned"
        /\ \A j \in Starts : j # i => pc'[j] = pc[j]
    BY GatewayTasks DEF Active, Idle
  <1>2. \A k, j \in Starts : j < k /\ pc'[k] # "none" => pc'[j] = "returned"
    BY <1>1, GatewayTasks DEF StartsInTurn, Active
  <1>3. \A j \in Starts : pc'[j] = "retry" => task'[j].attempt < MaxRetries
    BY <1>0, <1>1 DEF Idle
  <1> QED BY <1>1, <1>2, <1>3 DEF StartsInTurn

(* Steps of the heartbeat task and of the peer.                            *)
LEMMA OthersTurn ==
    ASSUME StartsInTurn, pc' = pc, task' = task, running' = running, readyEvent' = readyEvent,
           hb' = "none" \/ \E i \in Starts : Active(i),
           state' = state \/ \E i \in Starts : Active(i)
    PROVE  StartsInTurn'
  <1>1. \A i \in Starts : Active(i)' = Active(i) /\ Idle(i)' = Idle(i) /\ (Active(i) => ~Idle(i))
    BY DEF Active, Idle
  <1> QED BY <1>1 DEF StartsInTurn

(* No websocket is open unless a start() reads it.                         *)
LEMMA NoneOpen ==
    ASSUME WebsocketsHaveReaders, ~WsLive \/ \A i \in Starts : ~Reading(i)
    PROVE  \A w \in Conns : ~Open(w)
  <1> SUFFICES ASSUME NEW w \in Conns, Open(w) PROVE FALSE
    OBVIOUS
  <1>1. w = ws /\ \E i \in Starts : Reading(i)
    BY DEF WebsocketsHaveReaders
  <1>2. w # None
    BY DEF Conns, None
  <1> QED BY <1>1, <1>2 DEF WsLive, Open

(* A start() connects.                                                     *)
LEMMA NowConnecting ==
    ASSUME TypeOK, StartsInTurn, WebsocketsHaveReaders, NEW i \in Starts,
           pc[i] \notin {"returned", "stopws", "stopsess"}, Connecting(i)',
           \A u \in Tasks : u # i => pc'[u] = pc[u],
           conn' = conn, ws' = ws, nconns' = nconns, ~(Reading(i) /\ WsLive),
           \A j \in Starts : j # i => task'[j] = task[j],
           \/ task'[i].again
           \/ Connecting(i) /\ task'[i].again = task[i].again
           \/ pc[i] = "none",
           pc[i] = "none" => pc[User] = "none" /\ \A j \in Starts : j # i => Idle(j)
    PROVE  WebsocketsHaveReaders'
  <1>0. \A j \in Starts : j # i => Idle(j)
    BY LastStart DEF Idle
  <1>1. \A j \in Starts : j # i => Idle(j) /\ ~Reading(j) /\ ~Connecting(j) /\ pc[j] \notin {"close", "stopws"}
    BY <1>0 DEF Idle, Reading, Connecting
  <1>2. \A j \in Starts : j # i => pc'[j] = pc[j] /\ ~Reading(j)' /\ ~Connecting(j)' /\ pc'[j] \notin {"close", "stopws", "read", "handler"}
    BY <1>1, GatewayTasks DEF Reading, Connecting
  <1>3. pc'[User] = pc[User] /\ ~Reading(i)' /\ pc'[i] \notin {"read", "handler", "stopws", "close"}
    BY GatewayTasks DEF Reading, Connecting
  <1>4. \A w \in Conns : ~Open(w) /\ ~Open(w)'
    <2>1. \A w \in Conns : ~Open(w)
      BY <1>1, NoneOpen
    <2> QED BY <2>1 DEF Open
  <1>5. \A j \in Starts : ~Reading(j)' /\ pc'[j] \notin {"read", "handler"}
    BY <1>2, <1>3
  <1>6. WsLive' = WsLive
    BY DEF WsLive
  <1>7. \A t \in Tasks : pc'[t] = "stopws" => pc[t] = "stopws"
    BY <1>3
  <1>8. pc'[User] = "stopws" => \A j \in Starts : Connecting(j)' => task'[j].again
    BY <1>2, <1>3 DEF WebsocketsHaveReaders
  <1>9. ws # None => \/ \E t \in Tasks : pc'[t] = "stopws"
                     \/ \E j \in Starts : Reading(j)' \/ pc'[j] = "close" \/ (Connecting(j)' /\ task'[j].again)
    <2> SUFFICES ASSUME ws # None, ~task'[i].again, \A t \in Tasks : pc'[t] # "stopws" PROVE FALSE
      OBVIOUS
    <2>1. \A t \in Tasks : pc[t] # "stopws"
      BY <1>3
    <2>2. PICK j \in Starts : Reading(j) \/ pc[j] = "close" \/ (Connecting(j) /\ task[j].again)
      BY <2>1 DEF WebsocketsHaveReaders
    <2>3. j = i
      BY <1>1, <2>2
    <2> QED BY <2>2, <2>3 DEF Reading, Connecting
  <1> QED BY <1>4, <1>5, <1>6, <1>7, <1>8, <1>9 DEF WebsocketsHaveReaders

LEMMA ReaderWs ==
    ASSUME TypeOK, WebsocketsHaveReaders, NEW i \in Starts, Reading(i)
    PROVE  task[i].ws \in Conns /\ task[i].ws \in 1 .. nconns /\ (running => ws = task[i].ws)
  <1>1. task[i].ws \in 1 .. nconns /\ (running => ws = task[i].ws)
    BY DEF WebsocketsHaveReaders
  <1>2. nconns \in 0 .. MaxConns
    BY DEF TypeOK
  <1> QED BY <1>1, <1>2, ConstantsAssumption DEF Conns, MaxConns

(* A start() goes on reading.                                              *)
LEMMA StillReading ==
    ASSUME TypeOK, StartsInTurn, WebsocketsHaveReaders, NEW i \in Starts, Reading(i), Reading(i)',
           \A u \in Tasks : u # i => pc'[u] = pc[u],
           ws' = ws, nconns' = nconns, running' = running,
           \A j \in Starts : task'[j].ws = task[j].ws /\ task'[j].again = task[j].again,
           \A w \in Conns : conn'[w].st = conn[w].st /\ (w > nconns => conn'[w].stage = conn[w].stage),
           pc'[i] \in {"read", "handler"} /\ running /\ conn[task[i].ws].st = "open"
             /\ conn'[task[i].ws].stage # "new" => hb' # "none"
    PROVE  WebsocketsHaveReaders'
  <1>1. \A j \in Starts : j # i => pc'[j] = pc[j] /\ ~Reading(j) /\ ~Connecting(j) /\ pc[j] \notin {"close", "stopws", "read", "handler"}
    BY LastStart, GatewayTasks DEF Reading
  <1>2. /\ \A j \in Starts : Reading(j)' = Reading(j) /\ Connecting(j)' = Connecting(j)
        /\ pc'[User] = pc[User] /\ \A t \in Tasks : (pc'[t] = "stopws") = (pc[t] = "stopws")
    BY <1>1, GatewayTasks DEF Reading, Connecting
  <1>3. ws \in 0 .. nconns /\ nconns \in 0 .. MaxConns /\ (ws # None => ws \in Conns)
    BY ConstantsAssumption DEF TypeOK, Conns, None, MaxConns
  <1>4. WsLive' = WsLive /\ \A w \in Conns : Open(w)' = Open(w)
    BY <1>3 DEF WsLive, Open
  <1>5. \A w \in Conns : Open(w)' => w = ws' /\ \E j \in Starts : Reading(j)' /\ task'[j].ws = w
    BY <1>2, <1>4 DEF WebsocketsHaveReaders
  <1>6. \A w \in Conns : w > nconns' => conn'[w].st = "none" /\ conn'[w].stage = "new"
    BY DEF WebsocketsHaveReaders
  <1>7. \A j \in Starts : Reading(j)' => task'[j].ws \in 1 .. nconns' /\ (running' => ws' = task'[j].ws)
    BY <1>2 DEF WebsocketsHaveReaders
  <1>8. /\ \A t \in Tasks : pc'[t] = "stopws" => ~WsLive'
        /\ pc'[User] = "stopws" => \A j \in Starts : Connecting(j)' => task'[j].again
    BY <1>2, <1>4 DEF WebsocketsHaveReaders
  <1>9. ws' # None => \E j \in Starts : Reading(j)'
    OBVIOUS
  <1>10. task[i].ws \in Conns
    BY ReaderWs
  <1>11. \A j \in Starts :
           pc'[j] \in {"read", "handler"} /\ running' /\ conn'[task'[j].ws].st = "open" /\ Stage(j)' # "new"
            => hb' # "none"
    <2> SUFFICES ASSUME NEW j \in Starts, pc'[j] \in {"read", "handler"}, running,
                        conn'[task'[j].ws].st = "open", conn'[task'[j].ws].stage # "new"
                 PROVE  hb' # "none"
      BY DEF Stage
    <2>1. j = i /\ task'[j].ws = task[i].ws
      BY <1>1
    <2>2. conn[task[i].ws].st = "open"
      BY <1>10, <2>1
    <2> QED BY <2>1, <2>2
  <1> QED BY <1>5, <1>6, <1>7, <1>8, <1>9, <1>11 DEF WebsocketsHaveReaders

(* Something happens to a websocket.                                       *)
LEMMA OthersConn ==
    ASSUME TypeOK, StartsInTurn, WebsocketsHaveReaders, pc' = pc, task' = task,
           ws' = ws, nconns' = nconns, running' = running,
           \A w \in Conns : /\ conn'[w].stage = conn[w].stage
                            /\ conn'[w].st \in {"open", "muted"} => conn[w].st \in {"open", "muted"}
                            /\ conn'[w].st = "open" => conn[w].st = "open"
                            /\ conn[w].st = "closed" => conn'[w].st = "closed"
                            /\ conn[w].st = "none" => conn'[w].st = "none" \/ w <= nconns,
           hb' = "none" /\ hb # "none" => \/ ~running
                                          \/ \A w \in Conns : w = ws => conn'[w].st # "open"
    PROVE  WebsocketsHaveReaders'
  <1>1. \A j \in Starts : Reading(j)' = Reading(j) /\ Connecting(j)' = Connecting(j)
    BY DEF Reading, Connecting
  <1>2. ws \in 0 .. nconns /\ nconns \in 0 .. MaxConns /\ (ws # None => ws \in Conns)
    BY ConstantsAssumption DEF TypeOK, Conns, None, MaxConns
  <1>3. (~WsLive => ~WsLive') /\ \A w \in Conns : Open(w)' => Open(w)
    BY <1>2 DEF WsLive, Open
  <1>4. \A w \in Conns : Open(w)' => w = ws' /\ \E j \in Starts : Reading(j)' /\ task'[j].ws = w
    BY <1>1, <1>3 DEF WebsocketsHaveReaders
  <1>5. \A w \in Conns : w > nconns' => conn'[w].st = "none" /\ conn'[w].stage = "new"
    BY <1>2 DEF WebsocketsHaveReaders, Conns
  <1>6. \A j \in Starts :
           pc'[j] \in {"read", "handler"} /\ running' /\ conn'[task'[j].ws].st = "open" /\ Stage(j)' # "new"
            => hb' # "none"
    <2> SUFFICES ASSUME NEW j \in Starts, pc[j] \in {"read", "handler"}, running,
                        conn'[task[j].ws].st = "open", conn'[task[j].ws].stage # "new", hb' = "none"
                 PROVE  FALSE
      BY DEF Stage
    <2>1. task[j].ws \in Conns /\ ws = task[j].ws
      <3>1. Reading(j)
        BY DEF Reading
      <3> QED BY <3>1, ReaderWs
    <2>2. hb # "none"
      BY <2>1 DEF WebsocketsHaveReaders, Stage
    <2> QED BY <2>1, <2>2
  <1> QED BY <1>1, <1>3, <1>4, <1>5, <1>6 DEF WebsocketsHaveReaders

-----------------------------------------------------------------------------
(* start() and connect().                                                  *)

(* A request or a dial begins.                                             *)
LEMMA BeganRest ==
    ASSUME TypeOK, ConnectionsCounted, NEW i \in Starts, NEW attempt \in 0 .. MaxRetries,
           NEW again \in BOOLEAN, BeginRest(i, attempt, again) \/ (attempt = 0 /\ BeginDial(i, again))
    PROVE  /\ pc' \in [Tasks -> Awaits] /\ pc'[i] \in {"rest", "dial"}
           /\ \A u \in Tasks : u # i => pc'[u] = pc[u]
           /\ task' \in [Starts -> Locals] /\ task'[i].again = again
           /\ \A j \in Starts : j # i => task'[j] = task[j]
           /\ session' \in 0 .. nsess' /\ sessions' \subseteq 1 .. nsess' /\ nsess' \in 0 .. MaxSessions
           /\ SessionsDue' = SessionsDue
  <1>1. /\ _create_session
        /\ task' = [task EXCEPT ![i].sess = CreatedSession, ![i].attempt = attempt, ![i].again = again]
    BY DEF BeginRest, BeginDial
  <1>2. /\ session' \in 0 .. nsess' /\ sessions' \subseteq 1 .. nsess' /\ nsess' \in 0 .. MaxSessions
        /\ CreatedSession \in 0 .. MaxSessions
        /\ StopsLeft' = StopsLeft => SessionsDue' = SessionsDue
    BY <1>1, SessionCreated
  <1>3. /\ pc' \in [Tasks -> Awaits] /\ pc'[i] \in {"rest", "dial"}
        /\ \A u \in Tasks : u # i => pc'[u] = pc[u]
    BY GatewayTasks, Moved DEF BeginRest, BeginDial, Awaits
  <1>4. StopsLeft' = StopsLeft
    BY <1>3, GatewayTasks DEF StopsLeft
  <1>5. /\ task' \in [Starts -> Locals] /\ task'[i].again = again
        /\ \A j \in Starts : j # i => task'[j] = task[j]
    <2> DEFINE l == [task[i] EXCEPT !.sess = CreatedSession, !.attempt = attempt, !.again = again]
    <2>1. task' = [task EXCEPT ![i] = l] /\ task \in [Starts -> Locals]
      BY <1>1 DEF TypeOK
    <2>2. l \in Locals /\ l.again = again
      BY <1>2, <2>1 DEF Locals
    <2> HIDE DEF l
    <2> QED BY <2>1, <2>2
  <1> QED BY <1>2, <1>3, <1>4, <1>5

LEMMA ConnectKeeps ==
    ASSUME GatewayIInv, NEW i \in Starts, Active(i),
           NEW attempt \in 0 .. MaxRetries, NEW again \in BOOLEAN,
           BeginRest(i, attempt, again) \/ (attempt = 0 /\ BeginDial(i, again)),
           again \/ (Connecting(i) /\ again = task[i].again), ~(Reading(i) /\ WsLive),
           stops' = stops, state' \in BotStates, running' = running, readyEvent' = readyEvent,
           sessionId' = sessionId, resumeUrl' = resumeUrl, ws' = ws, resumeOnHello' \in BOOLEAN,
           ackReceived' = ackReceived, hb' \in {hb, "none"}, conn' = conn, nconns' = nconns, faults' = faults
    PROVE  GatewayIInv'
  <1>0. TypeOK /\ StartsInTurn /\ WebsocketsHaveReaders /\ ConnectionsCounted
    BY DEF GatewayIInv
  <1>1. /\ pc' \in [Tasks -> Awaits] /\ pc'[i] \in {"rest", "dial"}
        /\ \A u \in Tasks : u # i => pc'[u] = pc[u]
        /\ task' \in [Starts -> Locals] /\ task'[i].again = again
        /\ \A j \in Starts : j # i => task'[j] = task[j]
        /\ session' \in 0 .. nsess' /\ sessions' \subseteq 1 .. nsess' /\ nsess' \in 0 .. MaxSessions
        /\ SessionsDue' = SessionsDue
    BY <1>0, BeganRest
  <1>2. TypeOK'
    BY <1>0, <1>1 DEF TypeOK
  <1>3. Active(i)' /\ Connecting(i)' /\ pc[i] \notin {"none", "returned", "stopws", "stopsess"} /\ pc'[i] # "none"
    BY <1>1 DEF Active, Connecting
  <1>4. StartsInTurn'
    BY <1>0, <1>1, <1>3, ActiveTurn
  <1>5. WebsocketsHaveReaders'
    BY <1>0, <1>1, <1>3, NowConnecting
  <1>6. /\ nconns' + Dials(i) <= nconns + Dials(i)'
        /\ SessionsDue' + Ended(i) <= SessionsDue + Ended(i)'
    <2>1. Ended(i) = 0 /\ Ended(i)' = 0
      BY <1>3, <1>1 DEF Ended
    <2>2. Dials(i) \in 0 .. 2 /\ Dials(i)' \in 0 .. 2 /\ Dials(i) <= Dials(i)'
      <3>1. Dials(i)' = IF again THEN 1 ELSE 0
        BY <1>1, <1>3 DEF Dials
      <3>2. Dials(i) \in 0 .. 1 /\ (~again => Dials(i) = 0)
        BY <1>3 DEF Dials
      <3>3. CASE again
        BY <3>1, <3>2, <3>3
      <3>4. CASE ~again
        BY <3>1, <3>2, <3>4
      <3> QED BY <3>3, <3>4
    <2>3. nconns \in Nat /\ SessionsDue \in Nat
      BY <1>0, SmallCounts DEF TypeOK
    <2> HIDE DEF Dials, Ended
    <2> QED BY <1>1, <2>1, <2>2, <2>3
  <1>7. ConnectionsCounted'
    BY <1>0, <1>1, <1>2, <1>3, <1>6, GatewayTasks, StartCounts
  <1> QED BY <1>2, <1>4, <1>5, <1>7 DEF GatewayIInv

LEMMA StartKeeps ==
    ASSUME ~Overlap, GatewayIInv, NEW i \in Starts, start(i)
    PROVE  GatewayIInv'
  <1>0. TypeOK /\ StartsInTurn /\ WebsocketsHaveReaders /\ ConnectionsCounted
    BY DEF GatewayIInv
  <1>1. /\ pc' \in [Tasks -> Awaits] /\ pc'[i] = "rest"
        /\ \A u \in Tasks : u # i => pc'[u] = pc[u]
        /\ task' \in [Starts -> Locals] /\ task'[i].again = FALSE
        /\ \A j \in Starts : j # i => task'[j] = task[j]
        /\ session' \in 0 .. nsess' /\ sessions' \subseteq 1 .. nsess' /\ nsess' \in 0 .. MaxSessions
        /\ SessionsDue' = SessionsDue
    <2>0. 1 \in 0 .. MaxRetries
      BY ConstantsAssumption
    <2>1. BeginRest(i, 1, FALSE)
      BY DEF start
    <2>2. pc'[i] = "rest"
      BY <1>0, <2>1, GatewayTasks DEF BeginRest, Goto, TypeOK
    <2> QED BY <1>0, <2>0, <2>1, <2>2, BeganRest
  <1>2. /\ pc[i] = "none" /\ pc[User] = "none" /\ \A j \in Starts : j < i => pc[j] = "returned"
        /\ running' = TRUE /\ state' = "connecting" /\ stops' = stops /\ readyEvent' = readyEvent
        /\ conn' = conn /\ nconns' = nconns /\ ws' = ws /\ hb' = hb /\ faults' = faults
        /\ sessionId' = sessionId /\ resumeUrl' = resumeUrl /\ resumeOnHello' = resumeOnHello
        /\ ackReceived' = ackReceived
    BY DEF start, gwVars, connVars
  <1>3. TypeOK'
    BY <1>0, <1>1, <1>2 DEF TypeOK, BotStates
  <1>4. \A j \in Starts : j > i => pc[j] = "none"
    BY <1>0, <1>2, LastStart
  <1>5. \A j \in Starts : j # i => Idle(j) /\ pc'[j] = pc[j]
    BY <1>1, <1>2, <1>4, GatewayTasks DEF Idle
  <1>6. Active(i)' /\ Connecting(i)' /\ ~Idle(i)' /\ pc'[User] = "none"
    BY <1>1, <1>2, GatewayTasks DEF Active, Connecting, Idle
  <1>7. StartsInTurn'
    <2>1. \A k, j \in Starts : j < k /\ pc'[k] # "none" => pc'[j] = "returned"
      BY <1>1, <1>2, <1>4, <1>5, GatewayTasks
    <2>2. \A j \in Starts : pc'[j] = "retry" => task'[j].attempt < MaxRetries
      BY <1>1, <1>5 DEF Idle
    <2> QED BY <1>6, <2>1, <2>2 DEF StartsInTurn
  <1>8. WebsocketsHaveReaders'
    <2>1. ~Reading(i)
      BY <1>2 DEF Reading
    <2> QED BY <1>0, <1>1, <1>2, <1>5, <1>6, <2>1, NowConnecting
  <1>9. ConnectionsCounted'
    <2>1. Ended(i) = 0 /\ Ended(i)' = 0 /\ Dials(i) = 0 /\ Dials(i)' = 0
      BY <1>1, <1>2, <1>6 DEF Ended, Dials
    <2>2. nconns \in Nat /\ SessionsDue \in Nat
      BY <1>0, SmallCounts DEF TypeOK
    <2>3. /\ nconns' + Dials(i) <= nconns + Dials(i)'
          /\ SessionsDue' + Ended(i) <= SessionsDue + Ended(i)'
      BY <1>1, <1>2, <2>1, <2>2
    <2> QED BY <1>0, <1>1, <1>2, <1>3, <1>5, <2>3, GatewayTasks, StartCounts
  <1> QED BY <1>3, <1>7, <1>8, <1>9 DEF GatewayIInv

LEMMA RestKeeps ==
    ASSUME GatewayIInv, NEW i \in Starts, RestOK(i) \/ RestRetries(i)
    PROVE  GatewayIInv'
  <1>0. TypeOK /\ StartsInTurn
    BY DEF GatewayIInv
  <1>1. /\ Active(i) /\ Connecting(i) /\ ~Reading(i) /\ task[i].again \in BOOLEAN
        /\ state \in BotStates /\ resumeOnHello \in BOOLEAN
    BY <1>0 DEF RestOK, RestRetries, Active, Connecting, Reading, TypeOK, Locals
  <1>2. CASE RestOK(i)
    <2>1. /\ BeginDial(i, task[i].again) /\ resumeOnHello' = FALSE /\ stops' = stops /\ state' = state
          /\ running' = running /\ readyEvent' = readyEvent
          /\ sessionId' = sessionId /\ resumeUrl' = resumeUrl /\ ws' = ws /\ ackReceived' = ackReceived
          /\ hb' = hb /\ conn' = conn /\ nconns' = nconns /\ faults' = faults
      BY <1>2 DEF RestOK, botVars, connVars
    <2>2. 0 \in 0 .. MaxRetries
      BY ConstantsAssumption
    <2> QED BY <1>1, <2>1, <2>2, ConnectKeeps
  <1>3. CASE RestRetries(i)
    <2>1. /\ BeginRest(i, task[i].attempt + 1, task[i].again) /\ stops' = stops /\ state' = state
          /\ resumeOnHello' = resumeOnHello /\ running' = running /\ readyEvent' = readyEvent
          /\ sessionId' = sessionId /\ resumeUrl' = resumeUrl /\ ws' = ws /\ ackReceived' = ackReceived
          /\ hb' = hb /\ conn' = conn /\ nconns' = nconns /\ faults' = faults
      BY <1>3 DEF RestRetries, botVars, gwVars, connVars
    <2>2. task[i].attempt + 1 \in 0 .. MaxRetries
      <3>1. task[i].attempt \in 0 .. MaxRetries
        BY <1>0 DEF TypeOK, Locals
      <3>2. task[i].attempt < MaxRetries
        BY <1>0, <1>3 DEF RestRetries, StartsInTurn
      <3> QED BY <3>1, <3>2, ConstantsAssumption
    <2> QED BY <1>1, <2>1, <2>2, ConnectKeeps
  <1> QED BY <1>2, <1>3

(* The websocket is open, or closed at once behind a reconnect().          *)
LEMMA DialKeeps ==
    ASSUME GatewayIInv, NEW i \in Starts, DialOK(i)
    PROVE  GatewayIInv'
  <1> DEFINE w == nconns + 1
  <1>0. TypeOK /\ StartsInTurn /\ WebsocketsHaveReaders /\ ConnectionsCounted
    BY DEF GatewayIInv
  <1>1. /\ pc[i] = "dial" /\ nconns' = w /\ ws' = w /\ stops' = stops /\ faults' = faults
        /\ session' = session /\ sessions' = sessions /\ nsess' = nsess
        /\ resumeOnHello' = resumeOnHello /\ ackReceived' = ackReceived
        /\ sessionId' = sessionId /\ resumeUrl' = resumeUrl
    BY DEF DialOK, httpVars, botVars
  <1>2. /\ Active(i) /\ Connecting(i) /\ ~Reading(i) /\ ~Idle(i)
        /\ \A j \in Starts : j # i => Idle(j) /\ ~Active(j) /\ ~Reading(j) /\ ~Connecting(j)
                                      /\ pc[j] \notin {"close", "stopws", "stopsess"}
    <2>1. Active(i) /\ Connecting(i) /\ ~Reading(i) /\ ~Idle(i)
      BY <1>1 DEF Active, Connecting, Reading, Idle
    <2>2. pc[i] # "none" /\ pc[i] # "returned"
      BY <1>1
    <2> QED BY <1>0, <2>1, <2>2, LastStart
  <1>3. /\ nconns \in Nat /\ w \in Conns /\ w \in 0 .. MaxConns /\ w # None /\ w > nconns
        /\ Dials(i) = IF task[i].again THEN 1 ELSE 0
    <2>1. Dials(i) = IF task[i].again THEN 1 ELSE 0
      BY <1>1, <1>2 DEF Dials
    <2>2. nconns <= 2 * (i - 1) + Dials(i)
      BY <1>0, <1>1, LastStart DEF ConnectionsCounted
    <2>3. i \in Nat /\ i <= MaxStarts /\ nconns \in Nat
      BY <1>0, GatewayTasks DEF TypeOK
    <2>4. nconns + 1 <= 2 * MaxStarts
      <3>1. CASE task[i].again
        BY <2>1, <2>2, <2>3, <3>1, ConstantsAssumption
      <3>2. CASE ~task[i].again
        BY <2>1, <2>2, <2>3, <3>2, ConstantsAssumption
      <3> QED BY <3>1, <3>2
    <2> QED BY <2>1, <2>3, <2>4, ConstantsAssumption DEF Conns, MaxConns, None
  <1>4. \A v \in Conns : ~Open(v)
    BY <1>0, <1>2, NoneOpen
  <1>5. SessionsDue' = SessionsDue \/ pc'[User] # pc[User]
    BY <1>1 DEF SessionsDue, SessionUsable, StopsLeft
  <1>6. conn[w].stage = "new" /\ conn[w] \in Websockets /\ task[i].sess \in 0 .. MaxSessions
    BY <1>0, <1>3 DEF WebsocketsHaveReaders, TypeOK, Locals
  <1> HIDE DEF w
  <1>7. CASE ~task[i].again
    <2>1. /\ conn' = [conn EXCEPT ![w].st = "open", ![w].sess = task[i].sess]
          /\ task' = [task EXCEPT ![i].ws = w] /\ Goto(i, "read")
          /\ state' = state /\ running' = running /\ readyEvent' = readyEvent /\ hb' = hb
      BY <1>7 DEF DialOK, botVars, w
    <2>2. /\ pc' \in [Tasks -> Awaits] /\ pc'[i] = "read" /\ \A u \in Tasks : u # i => pc'[u] = pc[u]
      BY <1>0, <2>1, GatewayTasks, Moved DEF Awaits
    <2>3. /\ task' \in [Starts -> Locals] /\ task'[i].ws = w /\ \A j \in Starts : j # i => task'[j] = task[j]
      BY <1>0, <1>3, <2>1 DEF TypeOK, Locals
    <2>4. /\ conn' \in [Conns -> Websockets] /\ conn'[w].st = "open" /\ conn'[w].stage = "new"
          /\ \A v \in Conns : v # w => conn'[v] = conn[v]
      BY <1>0, <1>3, <1>6, <2>1 DEF TypeOK, Websockets
    <2>5. TypeOK'
      BY <1>0, <1>1, <1>3, <2>1, <2>2, <2>3, <2>4 DEF TypeOK
    <2>6. Active(i)' /\ Reading(i)' /\ ~Connecting(i)' /\ pc'[User] = pc[User]
      BY <2>2, GatewayTasks DEF Active, Reading, Connecting
    <2>7. StartsInTurn'
      BY <1>0, <1>2, <2>1, <2>2, <2>3, <2>6, ActiveTurn
    <2>8. WebsocketsHaveReaders'
      <3>1. \A j \in Starts : j # i => pc'[j] = pc[j] /\ ~Reading(j)' /\ ~Connecting(j)' /\ pc[j] \notin {"read", "handler"}
        BY <1>2, <2>2, GatewayTasks DEF Reading, Connecting
      <3>2. \A v \in Conns : Open(v)' => v = w
        BY <1>4, <2>4 DEF Open
      <3>3. \A v \in Conns : v > w => conn'[v].st = "none" /\ conn'[v].stage = "new"
        BY <1>0, <1>3, <2>4 DEF WebsocketsHaveReaders, Conns
      <3>4. pc[User] # "stopws"
        BY <1>0, <1>2, <1>7 DEF WebsocketsHaveReaders
      <3>5. \A t \in Tasks : pc'[t] # "stopws"
        BY <1>2, <2>2, <2>6, <3>4, GatewayTasks
      <3>6. \A j \in Starts :
           ~(pc'[j] \in {"read", "handler"} /\ running' /\ conn'[task'[j].ws].st = "open" /\ Stage(j)' # "new")
        BY <2>2, <2>3, <2>4, <3>1 DEF Stage
      <3>7. w \in 1 .. w
        BY <1>3 DEF Conns
      <3> QED BY <1>1, <2>3, <2>6, <3>1, <3>2, <3>3, <3>5, <3>6, <3>7 DEF WebsocketsHaveReaders
    <2>9. ConnectionsCounted'
      <3>1. Ended(i) = 0 /\ Ended(i)' = 0 /\ Dials(i)' = 1 /\ Dials(i) = 0
        BY <1>1, <1>3, <1>7, <2>2, <2>6 DEF Ended, Dials
      <3>2. SessionsDue \in Nat /\ SessionsDue' = SessionsDue
        BY <1>0, <1>5, <2>6, SmallCounts
      <3>3. /\ nconns' + Dials(i) <= nconns + Dials(i)'
            /\ SessionsDue' + Ended(i) <= SessionsDue + Ended(i)'
        BY <1>1, <1>3, <3>1, <3>2 DEF w
      <3> QED BY <1>0, <1>1, <2>2, <2>5, <2>6, <3>3, GatewayTasks, StartCounts
    <2> QED BY <2>5, <2>7, <2>8, <2>9 DEF GatewayIInv
  <1>8. CASE task[i].again
    <2>1. /\ task' = task /\ Goto(i, "stopws")
          /\ state' = "stopping" /\ running' = FALSE /\ readyEvent' = FALSE /\ hb' = "none"
      BY <1>8 DEF DialOK
    <2>3. conn' = [[conn EXCEPT ![w].st = "open", ![w].sess = task[i].sess] EXCEPT ![w].st = "closed"]
      BY <1>8 DEF DialOK, w
    <2>2. /\ pc' \in [Tasks -> Awaits] /\ pc'[i] = "stopws" /\ \A u \in Tasks : u # i => pc'[u] = pc[u]
      BY <1>0, <2>1, GatewayTasks, Moved DEF Awaits
    <2>4. /\ conn' \in [Conns -> Websockets] /\ conn'[w].st = "closed"
          /\ \A v \in Conns : v # w => conn'[v] = conn[v]
      BY <1>0, <1>3, <1>6, <2>3 DEF TypeOK, Websockets
    <2>5. TypeOK'
      <3>1. /\ state' \in BotStates /\ running' \in BOOLEAN /\ readyEvent' \in BOOLEAN
            /\ hb' \in {"none", "check", "sleep"} /\ task' \in [Starts -> Locals]
        BY <1>0, <2>1 DEF BotStates, TypeOK
      <3>2. ws' \in 0 .. nconns' /\ nconns' \in 0 .. MaxConns
        BY <1>1, <1>3
      <3> QED BY <1>0, <1>1, <2>2, <2>4, <3>1, <3>2 DEF TypeOK
    <2>6. ~Active(i)' /\ ~Reading(i)' /\ ~Connecting(i)' /\ ~Idle(i)' /\ pc'[User] = pc[User]
      BY <2>2, GatewayTasks DEF Active, Reading, Connecting, Idle
    <2>7. \A j \in Starts : j # i => /\ pc'[j] = pc[j] /\ ~Active(j)' /\ ~Reading(j)' /\ ~Connecting(j)'
                                     /\ pc'[j] \notin {"read", "handler", "retry"}
      BY <1>2, <2>2, GatewayTasks DEF Active, Reading, Connecting
    <2>8. StartsInTurn'
      <3>1. \A k, j \in Starts : j < k /\ pc'[k] # "none" => pc'[j] = "returned"
        BY <1>0, <1>1, <2>2, <2>7, GatewayTasks DEF StartsInTurn
      <3>2. pc'[User] \in {"none", "stopws", "stopsess"}
        BY <1>0, <2>6 DEF StartsInTurn
      <3> QED BY <2>1, <2>2, <2>6, <2>7, <3>1, <3>2 DEF StartsInTurn
    <2>9. WebsocketsHaveReaders'
      <3>1. \A v \in Conns : ~Open(v)'
        BY <1>4, <2>4 DEF Open
      <3>2. \A v \in Conns : v > w => conn'[v].st = "none" /\ conn'[v].stage = "new"
        BY <1>0, <1>3, <2>4 DEF WebsocketsHaveReaders, Conns
      <3>3. ~WsLive'
        BY <1>1, <2>4 DEF WsLive
      <3>4. i \in Tasks
        BY GatewayTasks
      <3> QED BY <1>1, <2>2, <2>6, <2>7, <3>1, <3>2, <3>3, <3>4 DEF WebsocketsHaveReaders
    <2>10. ConnectionsCounted'
      <3>1. Ended(i) = 0 /\ Ended(i)' = 0 /\ Dials(i)' = 2 /\ Dials(i) = 1
        BY <1>1, <1>3, <1>8, <2>2, <2>6 DEF Ended, Dials
      <3>2. SessionsDue \in Nat /\ SessionsDue' = SessionsDue
        BY <1>0, <1>5, <2>6, SmallCounts
      <3>3. /\ nconns' + Dials(i) <= nconns + Dials(i)'
            /\ SessionsDue' + Ended(i) <= SessionsDue + Ended(i)'
        BY <1>1, <1>3, <3>1, <3>2 DEF w
      <3> QED BY <1>0, <1>1, <2>2, <2>5, <2>7, <3>3, GatewayTasks, StartCounts
    <2> QED BY <2>5, <2>8, <2>9, <2>10 DEF GatewayIInv
  <1> QED BY <1>7, <1>8

-----------------------------------------------------------------------------
(* run() and its frames.                                                   *)

LEMMA ReadKeeps ==
    ASSUME GatewayIInv, TypeOK', NEW i \in Starts, Reading(i), Reading(i)',
           \A u \in Tasks : u # i => pc'[u] = pc[u], stops' = stops,
           session' = session, sessions' = sessions, nsess' = nsess,
           ws' = ws, nconns' = nconns, running' = running,
           \A j \in Starts : j # i => task'[j] = task[j],
           task'[i].ws = task[i].ws, task'[i].again = task[i].again,
           \A w \in Conns : conn'[w].st = conn[w].st /\ (w > nconns => conn'[w].stage = conn[w].stage),
           pc'[i] \in {"read", "handler"} /\ running /\ conn[task[i].ws].st = "open"
             /\ conn'[task[i].ws].stage # "new" => hb' # "none"
    PROVE  GatewayIInv'
  <1>0. TypeOK /\ StartsInTurn /\ WebsocketsHaveReaders /\ ConnectionsCounted
    BY DEF GatewayIInv
  <1>1. /\ Active(i) /\ Active(i)' /\ ~Connecting(i) /\ ~Connecting(i)'
        /\ pc[i] \notin {"none", "returned", "stopws", "stopsess", "retry"}
        /\ pc'[i] \notin {"none", "returned", "stopws", "stopsess", "retry"}
    BY DEF Reading, Active, Connecting
  <1>2. StartsInTurn'
    BY <1>0, <1>1, ActiveTurn
  <1>3. \A j \in Starts : task'[j].ws = task[j].ws /\ task'[j].again = task[j].again
    OBVIOUS
  <1>4. WebsocketsHaveReaders'
    BY <1>0, <1>3, StillReading
  <1>5. /\ nconns' + Dials(i) <= nconns + Dials(i)'
        /\ SessionsDue' + Ended(i) <= SessionsDue + Ended(i)'
    <2>1. Ended(i) = 0 /\ Ended(i)' = 0 /\ Dials(i)' = 1 /\ Dials(i) = 1
      BY <1>1 DEF Ended, Dials
    <2>2. SessionsDue' = SessionsDue
      BY GatewayTasks DEF SessionsDue, SessionUsable, StopsLeft
    <2>3. nconns \in Nat /\ SessionsDue \in Nat
      BY <1>0, SmallCounts DEF TypeOK
    <2> QED BY <2>1, <2>2, <2>3
  <1>6. ConnectionsCounted'
    BY <1>0, <1>1, <1>5, GatewayTasks, StartCounts
  <1> QED BY <1>2, <1>4, <1>6 DEF GatewayIInv

LEMMA HelloTypes ==
    ASSUME TypeOK, WebsocketsHaveReaders, NEW i \in Starts, Reading(i),
           NEW stage \in {"identified", "ready"}, NEW resumed \in BOOLEAN, Hello(i, stage, resumed)
    PROVE  /\ conn' \in [Conns -> Websockets]
           /\ \A w \in Conns : conn'[w].st = conn[w].st /\ (w > nconns => conn'[w].stage = conn[w].stage)
  <1>1. ws \in 0 .. nconns /\ task[i].ws \in 1 .. nconns /\ nconns \in Nat
    BY ReaderWs DEF TypeOK
  <1>2. \A w \in Conns :
          conn'[w] = [conn[w] EXCEPT !.stage = IF WsLive /\ w = ws THEN stage
                                               ELSE IF w = task[i].ws THEN "hello" ELSE @,
                                     !.resumed = @ \/ (WsLive /\ w = ws /\ resumed)]
    BY DEF Hello
  <1>3. ASSUME NEW w \in Conns
        PROVE  /\ conn'[w] \in Websockets /\ conn'[w].st = conn[w].st
               /\ w > nconns => conn'[w].stage = conn[w].stage
    <2>1. conn[w] \in Websockets
      BY DEF TypeOK
    <2> DEFINE s == IF WsLive /\ w = ws THEN stage ELSE IF w = task[i].ws THEN "hello" ELSE conn[w].stage
               r == conn[w].resumed \/ (WsLive /\ w = ws /\ resumed)
    <2>2. s \in {"new", "hello", "identified", "ready"} /\ r \in BOOLEAN
      BY <2>1 DEF Websockets
    <2>3. conn'[w] = [conn[w] EXCEPT !.stage = s, !.resumed = r]
      BY <1>2
    <2>4. w > nconns => s = conn[w].stage
      BY <1>1 DEF Conns
    <2> HIDE DEF s, r
    <2>5. conn'[w] \in Websockets /\ conn'[w].st = conn[w].st /\ conn'[w].stage = s
      BY <2>1, <2>2, <2>3 DEF Websockets
    <2> QED BY <2>4, <2>5
  <1>4. conn' \in [Conns -> Websockets]
    BY <1>3 DEF Hello
  <1> QED BY <1>3, <1>4

LEMMA HelloKeeps ==
    ASSUME GatewayIInv, NEW i \in Starts, ReadHello(i)
    PROVE  GatewayIInv'
  <1>0. TypeOK /\ WebsocketsHaveReaders /\ Reading(i)
    BY DEF GatewayIInv, ReadHello, Readable, Reading
  <1>1. /\ Goto(i, "hello") /\ resumeOnHello' = FALSE /\ state' \in {state, "identifying"}
        /\ task' = task /\ stops' = stops /\ running' = running /\ readyEvent' = readyEvent
        /\ sessionId' = sessionId /\ resumeUrl' = resumeUrl /\ session' = session
        /\ sessions' = sessions /\ nsess' = nsess /\ ws' = ws /\ ackReceived' = ackReceived
        /\ hb' = hb /\ nconns' = nconns /\ faults' = faults
    BY DEF ReadHello, httpVars
  <1>2. /\ conn' \in [Conns -> Websockets]
        /\ \A w \in Conns : conn'[w].st = conn[w].st /\ (w > nconns => conn'[w].stage = conn[w].stage)
    BY <1>0, HelloTypes DEF ReadHello
  <1>3. pc' \in [Tasks -> Awaits] /\ pc'[i] = "hello" /\ \A u \in Tasks : u # i => pc'[u] = pc[u]
    BY <1>0, <1>1, GatewayTasks, Moved DEF Awaits
  <1>4. state' \in BotStates
    BY <1>0, <1>1 DEF TypeOK, BotStates
  <1>5. TypeOK'
    BY <1>0, <1>1, <1>2, <1>3, <1>4 DEF TypeOK
  <1>6. Reading(i)'
    BY <1>3 DEF Reading
  <1> QED BY <1>0, <1>1, <1>2, <1>3, <1>5, <1>6, ReadKeeps

LEMMA HeartbeatSent ==
    ASSUME TypeOK, _send_heartbeat
    PROVE  /\ conn' \in [Conns -> Websockets] /\ ackReceived' \in BOOLEAN
           /\ \A w \in Conns : conn'[w].st = conn[w].st /\ conn'[w].stage = conn[w].stage
  <1>1. \A w \in Conns : conn'[w] = [conn[w] EXCEPT !.sent = @ \/ (WsLive /\ w = ws)]
    BY DEF _send_heartbeat
  <1>2. ASSUME NEW w \in Conns
        PROVE  conn'[w] \in Websockets /\ conn'[w].st = conn[w].st /\ conn'[w].stage = conn[w].stage
    <2>1. conn[w] \in Websockets
      BY DEF TypeOK
    <2> DEFINE r == conn[w].sent \/ (WsLive /\ w = ws)
    <2>2. r \in BOOLEAN /\ conn'[w] = [conn[w] EXCEPT !.sent = r]
      BY <1>1
    <2> HIDE DEF r
    <2> QED BY <2>1, <2>2 DEF Websockets
  <1> QED BY <1>2 DEF _send_heartbeat

(* The steps that change neither websockets nor sessions, but for a mark   *)
(* on a websocket, and keep the heartbeat task.                            *)
LEMMA FrameKeeps ==
    ASSUME GatewayIInv, NEW i \in Starts,
           \/ HelloSent(i) \/ ReadEvent(i) \/ HandlerReturns(i) \/ ReadHeartbeatRequest(i) \/ ReadAck(i)
           \/ ReadReady(i)
    PROVE  GatewayIInv'
  <1>0. TypeOK /\ WebsocketsHaveReaders
    BY DEF GatewayIInv
  <1>1. /\ Reading(i) /\ task' = task /\ stops' = stops /\ running' = running
        /\ session' = session /\ sessions' = sessions /\ nsess' = nsess
        /\ ws' = ws /\ nconns' = nconns /\ resumeOnHello' = resumeOnHello /\ faults' = faults
        /\ \E p \in {"read", "handler"} : Goto(i, p) \/ (pc' = pc /\ pc[i] = p)
    BY DEF HelloSent, ReadEvent, HandlerReturns, ReadHeartbeatRequest, ReadAck, ReadReady, Reading, Readable,
           botVars, httpVars, gwVars, connVars
  <1>2. /\ pc' \in [Tasks -> Awaits] /\ Reading(i)' /\ pc'[i] \in {"read", "handler"}
        /\ \A u \in Tasks : u # i => pc'[u] = pc[u]
    BY <1>0, <1>1, GatewayTasks, Moved DEF Awaits, Reading, TypeOK
  <1>3. task[i].ws \in Conns
    BY <1>0, <1>1, ReaderWs
  <1>4. CASE ReadReady(i)
    <2>1. /\ sessionId' = TRUE /\ resumeUrl' = TRUE /\ state' = "ready" /\ readyEvent' = TRUE
          /\ ackReceived' = ackReceived /\ hb' = hb
          /\ pc[i] = "read" /\ conn[task[i].ws].stage = "identified"
      BY <1>4 DEF ReadReady, gwVars, Readable, Stage
    <2>2. /\ conn' \in [Conns -> Websockets]
          /\ \A w \in Conns : conn'[w].st = conn[w].st
          /\ \A w \in Conns : w # task[i].ws => conn'[w] = conn[w]
      BY <1>0, <1>3, <1>4 DEF ReadReady, TypeOK, Websockets
    <2>3. state' \in BotStates
      BY <2>1 DEF BotStates
    <2>4. TypeOK'
      BY <1>0, <1>1, <1>2, <2>1, <2>2, <2>3 DEF TypeOK
    <2>5. \A w \in Conns : w > nconns => conn'[w].stage = conn[w].stage
      <3>1. task[i].ws \in 1 .. nconns /\ nconns \in Nat
        BY <1>0, <1>1, ReaderWs DEF TypeOK
      <3>2. \A w \in Conns : w > nconns => w # task[i].ws
        BY <3>1 DEF Conns
      <3> QED BY <2>2, <3>2
    <2>6. running /\ conn[task[i].ws].st = "open" => hb # "none"
      BY <1>0, <2>1 DEF WebsocketsHaveReaders, Stage
    <2> QED BY <1>1, <1>2, <2>1, <2>2, <2>4, <2>5, <2>6, ReadKeeps
  <1>5. CASE ~ReadReady(i)
    <2>1. /\ sessionId' = sessionId /\ resumeUrl' = resumeUrl /\ state' = state /\ readyEvent' = readyEvent
          /\ (hb' = hb /\ pc[i] \in {"read", "handler"}) \/ hb' = "check"
      BY <1>5 DEF HelloSent, ReadEvent, HandlerReturns, ReadHeartbeatRequest, ReadAck, Readable, botVars, gwVars
    <2>2. /\ conn' \in [Conns -> Websockets] /\ ackReceived' \in BOOLEAN
          /\ \A w \in Conns : conn'[w].st = conn[w].st /\ conn'[w].stage = conn[w].stage
      <3>1. CASE ReadHeartbeatRequest(i)
        BY <1>0, <3>1, HeartbeatSent DEF ReadHeartbeatRequest
      <3>2. CASE HelloSent(i) \/ ReadEvent(i) \/ HandlerReturns(i) \/ ReadAck(i)
        <4>1. conn' = conn /\ ackReceived' \in {ackReceived, TRUE}
          BY <3>2 DEF HelloSent, ReadEvent, HandlerReturns, ReadAck, connVars, gwVars
        <4> QED BY <1>0, <4>1 DEF TypeOK
      <3> QED BY <1>5, <3>1, <3>2
    <2>3. TypeOK'
      BY <1>0, <1>1, <1>2, <2>1, <2>2 DEF TypeOK
    <2>4. running /\ conn[task[i].ws].st = "open" /\ conn'[task[i].ws].stage # "new" => hb' # "none"
      <3>1. conn'[task[i].ws].stage = conn[task[i].ws].stage
        BY <1>3, <2>2
      <3> QED BY <1>0, <2>1, <3>1 DEF WebsocketsHaveReaders, Stage
    <2> QED BY <1>1, <1>2, <2>1, <2>2, <2>3, <2>4, ReadKeeps
  <1> QED BY <1>4, <1>5

LEMMA InvalidSessionKeeps ==
    ASSUME GatewayIInv, NEW i \in Starts, NEW d \in BOOLEAN, ReadInvalidSession(i, d)
    PROVE  GatewayIInv'
  <1>0. TypeOK /\ Reading(i)
    BY DEF GatewayIInv, ReadInvalidSession, Readable, Reading
  <1>1. /\ Goto(i, "sleep") /\ stops' = stops /\ state' = state /\ running' = running
        /\ readyEvent' = readyEvent /\ sessionId' = sessionId /\ resumeUrl' = resumeUrl
        /\ session' = session /\ sessions' = sessions /\ nsess' = nsess
        /\ ws' = ws /\ resumeOnHello' = resumeOnHello /\ ackReceived' = ackReceived /\ hb' = hb
        /\ conn' = conn /\ nconns' = nconns /\ faults' = faults
    BY DEF ReadInvalidSession, botVars, httpVars, gwVars, connVars
  <1>2. /\ task' \in [Starts -> Locals] /\ \A j \in Starts : j # i => task'[j] = task[j]
        /\ task'[i].ws = task[i].ws /\ task'[i].again = task[i].again
    BY <1>0 DEF ReadInvalidSession, TypeOK, Locals
  <1>3. pc' \in [Tasks -> Awaits] /\ pc'[i] = "sleep" /\ \A u \in Tasks : u # i => pc'[u] = pc[u]
    BY <1>0, <1>1, GatewayTasks, Moved DEF Awaits
  <1>4. TypeOK'
    BY <1>0, <1>1, <1>2, <1>3 DEF TypeOK
  <1>5. Reading(i)'
    BY <1>3 DEF Reading
  <1> QED BY <1>0, <1>1, <1>2, <1>3, <1>4, <1>5, ReadKeeps

-----------------------------------------------------------------------------
(* reconnect().                                                            *)

LEMMA WsClosed ==
    ASSUME TypeOK, WsLive, conn' = ClosedWs
    PROVE  /\ ws \in Conns /\ conn' \in [Conns -> Websockets] /\ conn'[ws].st = "closed"
           /\ \A w \in Conns : conn'[w].stage = conn[w].stage /\ (w # ws => conn'[w] = conn[w])
  <1>1. ws \in Conns
    BY ConstantsAssumption DEF TypeOK, WsLive, Conns, None, MaxConns
  <1>2. conn' = [conn EXCEPT ![ws] = [conn[ws] EXCEPT !.st = "closed"]]
    BY DEF ClosedWs
  <1>3. conn[ws] \in Websockets
    BY <1>1 DEF TypeOK
  <1>4. /\ [conn[ws] EXCEPT !.st = "closed"] \in Websockets
        /\ [conn[ws] EXCEPT !.st = "closed"].st = "closed"
        /\ [conn[ws] EXCEPT !.st = "closed"].stage = conn[ws].stage
    BY <1>3 DEF Websockets
  <1> QED BY <1>1, <1>2, <1>4 DEF TypeOK

(* ... and then no websocket is open.                                      *)
LEMMA ClosedAll ==
    ASSUME TypeOK, WebsocketsHaveReaders, WsLive, conn' = ClosedWs
    PROVE  /\ \A w \in Conns : conn'[w].st \notin {"open", "muted"}
           /\ \A w \in Conns : w > nconns => conn'[w].st = "none" /\ conn'[w].stage = "new"
  <1>1. /\ ws \in Conns /\ conn'[ws].st = "closed"
        /\ \A w \in Conns : conn'[w].stage = conn[w].stage /\ (w # ws => conn'[w] = conn[w])
    BY WsClosed
  <1>2. \A w \in Conns : w # ws => conn[w].st \notin {"open", "muted"}
    BY DEF WebsocketsHaveReaders, Open
  <1>3. \A w \in Conns : w > nconns => w # ws
    BY <1>1 DEF TypeOK, Conns
  <1>4. \A w \in Conns : w > nconns => conn[w].st = "none" /\ conn[w].stage = "new"
    BY DEF WebsocketsHaveReaders
  <1> QED BY <1>1, <1>2, <1>3, <1>4

LEMMA ReconnectKeeps ==
    ASSUME GatewayIInv, NEW i \in Starts, Reading(i), NEW resume \in BOOLEAN, reconnect(i, resume)
    PROVE  GatewayIInv'
  <1>0. TypeOK /\ StartsInTurn /\ WebsocketsHaveReaders /\ ConnectionsCounted
    BY DEF GatewayIInv
  <1>1. /\ hb' = "none" /\ stops' = stops /\ running' = running /\ readyEvent' = readyEvent
        /\ sessionId' = sessionId /\ resumeUrl' = resumeUrl /\ ws' = ws /\ ackReceived' = ackReceived
        /\ nconns' = nconns /\ faults' = faults
    BY DEF reconnect
  <1>2. Active(i) /\ pc[i] \notin {"none", "returned", "stopws", "stopsess"} /\ ~Connecting(i)
    BY DEF Active, Reading, Connecting
  <1>3. CASE ~WsLive
    <2>1. Connects(i, resume) /\ conn' = conn
      BY <1>3 DEF reconnect
    <2>2. /\ state' \in BotStates /\ resumeOnHello' \in BOOLEAN
          /\ BeginRest(i, 1, TRUE) \/ BeginDial(i, TRUE)
      BY <1>0, <2>1 DEF Connects, BotStates, TypeOK
    <2>3. 0 \in 0 .. MaxRetries /\ 1 \in 0 .. MaxRetries
      BY ConstantsAssumption
    <2>4. hb' \in {hb, "none"}
      BY <1>1
    <2>5. CASE BeginRest(i, 1, TRUE)
      BY <1>1, <1>2, <1>3, <2>1, <2>2, <2>3, <2>4, <2>5, ConnectKeeps
    <2>6. CASE BeginDial(i, TRUE)
      BY <1>1, <1>2, <1>3, <2>1, <2>2, <2>3, <2>4, <2>6, ConnectKeeps
    <2> QED BY <2>2, <2>5, <2>6
  <1>4. CASE WsLive
    <2>1. /\ state' = "reconnecting" /\ conn' = ClosedWs /\ Goto(i, "close")
          /\ task' = [task EXCEPT ![i].resume = resume] /\ resumeOnHello' = resumeOnHello
          /\ session' = session /\ sessions' = sessions /\ nsess' = nsess
      BY <1>4 DEF reconnect, httpVars
    <2>2. /\ task' \in [Starts -> Locals] /\ \A j \in Starts : j # i => task'[j] = task[j]
          /\ task'[i].again = task[i].again
      BY <1>0, <2>1 DEF TypeOK, Locals
    <2>3. pc' \in [Tasks -> Awaits] /\ pc'[i] = "close" /\ \A u \in Tasks : u # i => pc'[u] = pc[u]
      BY <1>0, <2>1, GatewayTasks, Moved DEF Awaits
    <2>4. ws \in Conns /\ conn' \in [Conns -> Websockets] /\ conn'[ws].st = "closed"
      BY <1>0, <1>4, <2>1, WsClosed
    <2>5. TypeOK'
      <3>1. state' \in BotStates
        BY <2>1 DEF BotStates
      <3>2. /\ hb' \in {"none", "check", "sleep"} /\ ws' \in 0 .. nconns' /\ nconns' \in 0 .. MaxConns
            /\ session' \in 0 .. nsess' /\ sessions' \subseteq 1 .. nsess' /\ nsess' \in 0 .. MaxSessions
        BY <1>0, <1>1, <2>1 DEF TypeOK
      <3> QED BY <1>0, <1>1, <2>1, <2>2, <2>3, <2>4, <3>1, <3>2 DEF TypeOK
    <2>6. Active(i)' /\ ~Reading(i)' /\ ~Connecting(i)' /\ pc'[User] = pc[User]
      BY <2>3, GatewayTasks DEF Active, Reading, Connecting
    <2>7. StartsInTurn'
      BY <1>0, <1>1, <1>2, <2>2, <2>3, <2>6, ActiveTurn
    <2>8. \A j \in Starts : /\ ~Reading(j)' /\ ~Connecting(j)' /\ pc'[j] \notin {"read", "handler", "stopws"}
      <3>1. \A j \in Starts : j # i => Idle(j) /\ pc'[j] = pc[j]
        BY <1>0, <1>2, <2>3, LastStart, GatewayTasks
      <3>2. \A j \in Starts : j # i => /\ ~Reading(j)' /\ ~Connecting(j)' /\ pc'[j] \notin {"read", "handler", "stopws"}
        BY <3>1 DEF Idle, Reading, Connecting
      <3> QED BY <2>3, <2>6, <3>2
    <2>9. WebsocketsHaveReaders'
      <3>1. /\ \A w \in Conns : ~Open(w)'
            /\ \A w \in Conns : w > nconns => conn'[w].st = "none" /\ conn'[w].stage = "new"
        BY <1>0, <1>4, <2>1, ClosedAll DEF Open
      <3>2. ~WsLive'
        BY <1>1, <2>4 DEF WsLive
      <3> QED BY <1>1, <2>3, <2>8, <3>1, <3>2 DEF WebsocketsHaveReaders
    <2>10. ConnectionsCounted'
      <3>1. Ended(i) = 0 /\ Ended(i)' = 0 /\ Dials(i)' = 1 /\ Dials(i) = 1
        BY <1>2, <2>3, <2>6 DEF Ended, Dials
      <3>2. SessionsDue' = SessionsDue
        BY <2>1, <2>6 DEF SessionsDue, SessionUsable, StopsLeft
      <3>3. nconns \in Nat /\ SessionsDue \in Nat
        BY <1>0, SmallCounts DEF TypeOK
      <3>4. /\ nconns' + Dials(i) <= nconns + Dials(i)'
            /\ SessionsDue' + Ended(i) <= SessionsDue + Ended(i)'
        BY <1>1, <3>1, <3>2, <3>3
      <3>5. pc'[i] # "none" /\ \A j \in Starts : j # i => pc'[j] = pc[j]
        BY <2>3, GatewayTasks
      <3> QED BY <1>0, <1>1, <1>2, <2>5, <3>4, <3>5, StartCounts
    <2> QED BY <2>5, <2>7, <2>9, <2>10 DEF GatewayIInv
  <1> QED BY <1>3, <1>4

LEMMA ReconnectsKeep ==
    ASSUME GatewayIInv, NEW i \in Starts, ReadReconnect(i) \/ SleepEnds(i) \/ ReconnectConnects(i)
    PROVE  GatewayIInv'
  <1>0. TypeOK /\ task[i].resume \in BOOLEAN
    BY DEF GatewayIInv, TypeOK, Locals
  <1>1. CASE ReadReconnect(i)
    BY <1>1, ReconnectKeeps DEF ReadReconnect, Readable, Reading
  <1>2. CASE SleepEnds(i)
    <2>1. Reading(i) /\ reconnect(i, task[i].resume)
      BY <1>2 DEF SleepEnds, Reading
    <2> QED BY <1>0, <2>1, ReconnectKeeps
  <1>3. CASE ReconnectConnects(i)
    <2>1. /\ Connects(i, task[i].resume) /\ Active(i) /\ ~Reading(i)
          /\ stops' = stops /\ running' = running /\ readyEvent' = readyEvent
          /\ sessionId' = sessionId /\ resumeUrl' = resumeUrl /\ ws' = ws /\ ackReceived' = ackReceived
          /\ hb' = hb /\ conn' = conn /\ nconns' = nconns /\ faults' = faults
      BY <1>3 DEF ReconnectConnects, connVars, Active, Reading
    <2>2. /\ state' \in BotStates /\ resumeOnHello' \in BOOLEAN
          /\ BeginRest(i, 1, TRUE) \/ BeginDial(i, TRUE)
      BY <1>0, <2>1 DEF Connects, BotStates, TypeOK
    <2>3. 0 \in 0 .. MaxRetries /\ 1 \in 0 .. MaxRetries
      BY ConstantsAssumption
    <2>5. CASE BeginRest(i, 1, TRUE)
      BY <2>1, <2>2, <2>3, <2>5, ConnectKeeps
    <2>6. CASE BeginDial(i, TRUE)
      BY <2>1, <2>2, <2>3, <2>6, ConnectKeeps
    <2> QED BY <2>2, <2>5, <2>6
  <1> QED BY <1>1, <1>2, <1>3

-----------------------------------------------------------------------------
(* stop().                                                                 *)

LEMMA StoppingIsNotRunning ==
    ASSUME TypeOK, StartsInTurn, NEW t \in Tasks, pc[t] \in {"stopws", "stopsess"}
    PROVE  /\ ~running
           /\ t \in Starts => hb = "none" /\ ~readyEvent /\ \A i \in Starts : ~Active(i)
  <1>1. CASE t = User
    BY <1>1, GatewayTasks DEF StartsInTurn
  <1>2. CASE t \in Starts
    <2>1. \A i \in Starts : ~Active(i)
      BY <1>2, LastStart DEF Active
    <2> QED BY <2>1 DEF StartsInTurn
  <1> QED BY <1>1, <1>2, GatewayTasks

LEMMA StopTurn ==
    ASSUME TypeOK, StartsInTurn, NEW t \in Tasks, t \in Starts => ~Idle(t),
           pc'[t] \in {"stopws", "stopsess", Returned(t)}, pc'[t] = Returned(t) => state' = "stopped",
           \A u \in Tasks : u # t => pc'[u] = pc[u], task' = task, ~running',
           \/ hb' = "none" /\ ~readyEvent'
           \/ hb' = hb /\ readyEvent' = readyEvent /\ (t \in Starts => ~Active(t))
    PROVE  StartsInTurn'
  <1>1. CASE t = User
    <2>1. /\ \A i \in Starts : pc'[i] = pc[i] /\ Active(i)' = Active(i)
          /\ pc'[User] \in {"stopws", "stopsess", "none"} /\ (pc'[User] = "none" => state' = "stopped")
      BY <1>1, GatewayTasks DEF Active, Returned
    <2> QED BY <2>1 DEF StartsInTurn
  <1>2. CASE t \in Starts
    <2>1. /\ pc'[User] = pc[User] /\ pc'[t] \in {"stopws", "stopsess", "returned"}
          /\ pc'[t] = "returned" => state' = "stopped"
          /\ pc[t] \notin {"none", "returned"} /\ ~Active(t)'
      BY <1>2, GatewayTasks DEF Returned, Idle, Active
    <2>2. \A j \in Starts : j # t => pc'[j] = pc[j] /\ Idle(j) /\ ~Active(j) /\ ~Active(j)'
      BY <1>2, <2>1, LastStart, GatewayTasks DEF Active
    <2>3. \A k, j \in Starts : j < k /\ pc'[k] # "none" => pc'[j] = "returned"
      BY <1>2, <2>1, <2>2, GatewayTasks DEF StartsInTurn
    <2>4. hb' = "none" /\ ~readyEvent'
      BY <1>2, <2>2 DEF StartsInTurn
    <2>5. (\A i \in Starts : Idle(i)') => state' = "stopped"
      BY <1>2, <2>1 DEF Idle
    <2>6. \A i \in Starts : pc'[i] # "retry"
      BY <2>1, <2>2 DEF Idle
    <2>7. pc'[User] \in {"none", "stopws", "stopsess"}
      BY <2>1 DEF StartsInTurn
    <2> QED BY <2>3, <2>4, <2>5, <2>6, <2>7 DEF StartsInTurn
  <1> QED BY <1>1, <1>2, GatewayTasks

(* Websockets, when no task is in the step but one that stops.             *)
LEMMA StopConns ==
    ASSUME TypeOK, StartsInTurn, WebsocketsHaveReaders, NEW t \in Tasks, t \in Starts => ~Idle(t),
           pc'[t] \in {"stopws", "stopsess", Returned(t)},
           \A u \in Tasks : u # t => pc'[u] = pc[u], task' = task, ~running', nconns' = nconns,
           \A w \in Conns : conn'[w].st \notin {"open", "muted"},
           \A w \in Conns : w > nconns => conn'[w].st = "none" /\ conn'[w].stage = "new",
           ~WsLive', ws' # None => pc'[t] = "stopws", pc'[t] = "stopws" => ws # None,
           t = User => pc[User] = "none" \/ pc[User] = "stopws"
    PROVE  WebsocketsHaveReaders'
  <1>1. \A j \in Starts : /\ Reading(j)' => Reading(j)
                          /\ Connecting(j)' => Connecting(j) /\ j # t
    BY GatewayTasks DEF Reading, Connecting, Returned
  <1>2. \A w \in Conns : ~Open(w)'
    BY DEF Open
  <1>3. \A j \in Starts : Reading(j)' => task'[j].ws \in 1 .. nconns'
    BY <1>1 DEF WebsocketsHaveReaders
  <1>4. pc'[User] = "stopws" => \A j \in Starts : Connecting(j)' => task'[j].again
    <2> SUFFICES ASSUME pc'[User] = "stopws", NEW j \in Starts, Connecting(j)' PROVE task[j].again
      OBVIOUS
    <2>1. CASE pc[User] = "stopws"
      BY <1>1, <2>1 DEF WebsocketsHaveReaders
    <2>2. CASE pc[User] # "stopws"
      <3>1. t = User /\ pc[User] = "none" /\ Connecting(j)
        BY <1>1, <2>2, GatewayTasks
      <3>2. ws # None
        BY <3>1
      <3>3. pc[j] \notin {"none", "returned", "stopws"} /\ ~Reading(j) /\ pc[j] # "close"
        BY <3>1 DEF Connecting, Reading
      <3>4. \A i \in Starts : i # j => ~Reading(i) /\ ~Connecting(i) /\ pc[i] \notin {"close", "stopws"}
        BY <3>3, LastStart
      <3>5. \A u \in Tasks : pc[u] # "stopws"
        BY <3>1, <3>3, <3>4, GatewayTasks
      <3>6. PICK i \in Starts : Reading(i) \/ pc[i] = "close" \/ (Connecting(i) /\ task[i].again)
        BY <3>2, <3>5 DEF WebsocketsHaveReaders
      <3> QED BY <3>3, <3>4, <3>6
    <2> QED BY <2>1, <2>2
  <1>5. ws' # None => \E u \in Tasks : pc'[u] = "stopws"
    OBVIOUS
  <1> QED BY <1>1, <1>2, <1>3, <1>4, <1>5 DEF WebsocketsHaveReaders

(* _ws is dropped and the session closed, if there is one.                 *)
LEMMA Closes ==
    ASSUME TypeOK, WebsocketsHaveReaders, ~WsLive, NEW t \in Tasks, NEW st \in BotStates, StopCloses(t, st)
    PROVE  /\ ws' = None /\ pc' \in [Tasks -> Awaits] /\ \A u \in Tasks : u # t => pc'[u] = pc[u]
           /\ session' \in 0 .. nsess' /\ sessions' \subseteq 1 .. nsess' /\ nsess' = nsess
           /\ conn' \in [Conns -> Websockets]
           /\ \A w \in Conns : conn'[w].st \notin {"open", "muted"}
           /\ \A w \in Conns : w > nconns => conn'[w].st = "none" /\ conn'[w].stage = "new"
           /\ state' \in BotStates /\ ~WsLive'
           /\ \/ pc'[t] = "stopsess" /\ Usable = 0 /\ Usable' = 1
              \/ pc'[t] = Returned(t) /\ state' = "stopped" /\ Usable' = Usable
  <1>1. \A w \in Conns : conn[w].st \notin {"open", "muted"}
    BY NoneOpen DEF Open
  <1>2. \A w \in Conns : w > nconns => conn[w].st = "none" /\ conn[w].stage = "new"
    BY DEF WebsocketsHaveReaders
  <1>3. "stopsess" \in Awaits /\ Returned(t) \in Awaits /\ "stopped" \in BotStates
    BY DEF Awaits, Returned, BotStates
  <1>4. ws' = None /\ ~WsLive'
    BY DEF StopCloses, WsLive
  <1>5. CASE SessionUsable
    <2>1. /\ SessionCloses /\ Goto(t, "stopsess") /\ state' = st
      BY <1>5 DEF StopCloses
    <2>2. /\ session' = session /\ sessions' = sessions \ {session} /\ nsess' = nsess
          /\ conn' = conn
      <3>1. \A w \in Conns : conn'[w] = conn[w]
        BY <1>1, <2>1 DEF SessionCloses
      <3>2. conn' = [w \in Conns |-> conn'[w]] /\ conn = [w \in Conns |-> conn[w]]
        BY <2>1 DEF SessionCloses, TypeOK
      <3> QED BY <2>1, <3>1, <3>2 DEF SessionCloses
    <2>3. Usable = 0 /\ Usable' = 1
      BY <1>5, <2>2 DEF Usable, SessionUsable
    <2>4. pc' \in [Tasks -> Awaits] /\ pc'[t] = "stopsess" /\ \A u \in Tasks : u # t => pc'[u] = pc[u]
      BY <1>3, <2>1, Moved
    <2>5. /\ session' \in 0 .. nsess' /\ sessions' \subseteq 1 .. nsess'
          /\ conn' \in [Conns -> Websockets]
      BY <2>2 DEF TypeOK
    <2> QED BY <1>1, <1>2, <1>4, <2>1, <2>2, <2>3, <2>4, <2>5
  <1>6. CASE ~SessionUsable
    <2>1. /\ Goto(t, Returned(t)) /\ state' = "stopped" /\ conn' = conn
          /\ session' = session /\ sessions' = sessions /\ nsess' = nsess
      BY <1>6 DEF StopCloses, httpVars
    <2>2. Usable' = Usable
      BY <2>1 DEF Usable, SessionUsable
    <2>3. pc' \in [Tasks -> Awaits] /\ pc'[t] = Returned(t) /\ \A u \in Tasks : u # t => pc'[u] = pc[u]
      BY <1>3, <2>1, Moved
    <2>4. /\ session' \in 0 .. nsess' /\ sessions' \subseteq 1 .. nsess'
          /\ conn' \in [Conns -> Websockets]
      BY <2>1 DEF TypeOK
    <2> QED BY <1>1, <1>2, <1>3, <1>4, <2>1, <2>2, <2>3, <2>4
  <1> QED BY <1>5, <1>6

(* The counts, when a task stops.  was: what stop() had done before.       *)
LEMMA StopCounts ==
    ASSUME TypeOK, TypeOK', StartsInTurn, ConnectionsCounted, NEW t \in Tasks,
           \A u \in Tasks : u # t => pc'[u] = pc[u], task' = task, nconns' = nconns, nsess' = nsess,
           \/ t \in Starts /\ ~Idle(t) /\ stops' = stops
           \/ t = User /\ pc[User] = "none" /\ stops' = stops + 1
           \/ t = User /\ pc[User] # "none" /\ stops' = stops,
           \/ pc'[t] = "stopws" /\ pc[t] \notin {"stopws", "stopsess"} /\ Usable' = Usable
           \/ pc'[t] = "stopsess" /\ pc[t] # "stopsess" /\ Usable' <= Usable + 1
           \/ pc'[t] = Returned(t) /\ pc[t] # "stopsess" /\ Usable' = Usable
           \/ pc'[t] = Returned(t) /\ pc[t] = "stopsess" /\ Usable' <= Usable + 1
    PROVE  ConnectionsCounted'
  <1> DEFINE U == Usable'
             V == Usable
             L == StopsLeft'
             M == StopsLeft
             n == nsess
  <1>1. SessionsDue = n + V + M /\ SessionsDue' = n + U + L
    BY SmallCounts DEF SessionsDue, Usable
  <1>2. U \in 0 .. 1 /\ V \in 0 .. 1 /\ L \in 0 .. 2 /\ M \in 0 .. 2 /\ n \in Nat
    BY DEF Usable, StopsLeft, TypeOK
  <1>3. CASE t \in Starts
    <2>1. /\ pc'[User] = pc[User] /\ pc[t] \notin {"none", "returned"} /\ pc'[t] # "none" /\ Returned(t) = "returned"
          /\ t # User /\ stops' = stops
      BY <1>3, GatewayTasks DEF Idle, Returned
    <2>2. L = M
      BY <2>1 DEF StopsLeft
    <2> DEFINE e == Ended(t)
               f == Ended(t)'
    <2>3. e \in 0 .. 2 /\ f \in 0 .. 2 /\ U + e <= V + f
      BY <1>2, <2>1 DEF Ended
    <2>4. Dials(t)' = 2 /\ Dials(t) \in 0 .. 2 /\ nconns \in Nat
      BY <1>3, <2>1, SmallCounts DEF Dials, Connecting, TypeOK
    <2> HIDE DEF U, V, L, M, e, f, n
    <2>5. (n + U + L) + e <= (n + V + M) + f
      BY <1>2, <2>2, <2>3
    <2>6. /\ nconns' + Dials(t) <= nconns + Dials(t)'
          /\ SessionsDue' + Ended(t) <= SessionsDue + Ended(t)'
      BY <1>1, <2>4, <2>5 DEF e, f
    <2>7. \A j \in Starts : j # t => pc'[j] = pc[j]
      BY GatewayTasks
    <2> QED BY <1>3, <2>1, <2>6, <2>7, StartCounts
  <1>4. CASE t = User
    <2>1. Returned(User) = "none" /\ User \notin Starts /\ pc[User] \in {"none", "stopws", "stopsess"}
      BY GatewayTasks DEF Returned, StartsInTurn
    <2>2. \A j \in Starts : pc'[j] = pc[j]
      BY <1>4, GatewayTasks
    <2>3. CASE pc[User] = "none" /\ stops' = stops + 1
      <3>1. M = 0 /\ U + L <= V + 2
        BY <1>2, <1>4, <2>1, <2>3 DEF StopsLeft
      <3> HIDE DEF U, V, L, M, n
      <3>2. n + U + L <= (n + V + M) + 2 * 1
        BY <1>2, <3>1
      <3>3. SessionsDue' <= SessionsDue + 2 * 1 /\ 1 \in 0 .. 1
        BY <1>1, <3>2
      <3> QED BY <2>2, <2>3, <3>3, OthersCount
    <2>4. CASE pc[User] # "none" /\ stops' = stops
      <3>1. U + L <= V + M
        BY <1>2, <1>4, <2>1, <2>4 DEF StopsLeft
      <3> HIDE DEF U, V, L, M, n
      <3>2. n + U + L <= (n + V + M) + 2 * 0
        BY <1>2, <3>1
      <3>3. SessionsDue' <= SessionsDue + 2 * 0 /\ 0 \in 0 .. 1
        BY <1>1, <3>2
      <3>4. stops' = stops + 0
        BY <2>4 DEF TypeOK
      <3> QED BY <2>2, <3>3, <3>4, OthersCount
    <2> QED BY <1>4, <2>1, <2>3, <2>4
  <1> QED BY <1>3, <1>4, GatewayTasks

(* stop() begins: the application calls it, or a start() ends.             *)
LEMMA StopKeeps ==
    ASSUME GatewayIInv, NEW t \in Tasks, stop(t), task' = task, faults' \in 0 .. MaxFaults,
           \/ t \in Starts /\ Active(t) /\ stops' = stops
           \/ t = User /\ pc[User] = "none" /\ stops < MaxStops /\ stops' = stops + 1
    PROVE  GatewayIInv'
  <1>0. TypeOK /\ StartsInTurn /\ WebsocketsHaveReaders /\ ConnectionsCounted
    BY DEF GatewayIInv
  <1>1. /\ running' = FALSE /\ readyEvent' = FALSE /\ hb' = "none"
        /\ sessionId' = sessionId /\ resumeUrl' = resumeUrl /\ resumeOnHello' = resumeOnHello
        /\ ackReceived' = ackReceived /\ nconns' = nconns
    BY DEF stop
  <1>2. /\ t \in Starts => ~Idle(t)
        /\ pc[t] \notin {"stopws", "stopsess"}
        /\ t = User => pc[User] = "none"
    BY GatewayTasks DEF Active, Idle
  <1>3. stops' \in 0 .. MaxStops
    BY <1>0, ConstantsAssumption DEF TypeOK
  <1>4. nconns' \in 0 .. MaxConns
    BY <1>0, <1>1 DEF TypeOK
  <1>5. CASE WsLive
    <2>1. /\ state' = "stopping" /\ conn' = ClosedWs /\ Goto(t, "stopws") /\ ws' = ws
          /\ session' = session /\ sessions' = sessions /\ nsess' = nsess
      BY <1>5 DEF stop, httpVars
    <2>2. pc' \in [Tasks -> Awaits] /\ pc'[t] = "stopws" /\ \A u \in Tasks : u # t => pc'[u] = pc[u]
      BY <1>0, <2>1, Moved DEF Awaits
    <2>3. /\ ws \in Conns /\ conn' \in [Conns -> Websockets] /\ conn'[ws].st = "closed"
          /\ \A w \in Conns : conn'[w].st \notin {"open", "muted"}
          /\ \A w \in Conns : w > nconns => conn'[w].st = "none" /\ conn'[w].stage = "new"
      BY <1>0, <1>5, <2>1, WsClosed, ClosedAll
    <2>4. TypeOK'
      <3>1. state' \in BotStates
        BY <2>1 DEF BotStates
      <3>2. /\ ws' \in 0 .. nconns' /\ session' \in 0 .. nsess' /\ sessions' \subseteq 1 .. nsess'
            /\ nsess' \in 0 .. MaxSessions
        BY <1>0, <1>1, <2>1 DEF TypeOK
      <3> QED BY <1>0, <1>1, <1>3, <1>4, <2>2, <2>3, <3>1, <3>2 DEF TypeOK
    <2>5. StartsInTurn'
      <3>1. Returned(t) # "stopws"
        BY DEF Returned
      <3> QED BY <1>0, <1>1, <1>2, <2>2, <3>1, StopTurn
    <2>6. WebsocketsHaveReaders'
      <3>1. ~WsLive' /\ ws # None
        BY <1>5, <2>1, <2>3 DEF WsLive
      <3> QED BY <1>0, <1>1, <1>2, <2>2, <2>3, <3>1, StopConns
    <2>7. Usable' = Usable
      BY <2>1 DEF Usable, SessionUsable
    <2>8. ConnectionsCounted'
      BY <1>0, <1>1, <1>2, <2>1, <2>2, <2>4, <2>7, StopCounts
    <2> QED BY <2>4, <2>5, <2>6, <2>8 DEF GatewayIInv
  <1>6. CASE ~WsLive
    <2>1. StopCloses(t, "stopping") /\ "stopping" \in BotStates
      BY <1>6 DEF stop, BotStates
    <2>2. /\ ws' = None /\ pc' \in [Tasks -> Awaits] /\ \A u \in Tasks : u # t => pc'[u] = pc[u]
          /\ session' \in 0 .. nsess' /\ sessions' \subseteq 1 .. nsess' /\ nsess' = nsess
          /\ conn' \in [Conns -> Websockets]
          /\ \A w \in Conns : conn'[w].st \notin {"open", "muted"}
          /\ \A w \in Conns : w > nconns => conn'[w].st = "none" /\ conn'[w].stage = "new"
          /\ state' \in BotStates /\ ~WsLive'
          /\ \/ pc'[t] = "stopsess" /\ Usable = 0 /\ Usable' = 1
             \/ pc'[t] = Returned(t) /\ state' = "stopped" /\ Usable' = Usable
      BY <1>0, <1>6, <2>1, Closes
    <2>3. TypeOK'
      <3>1. ws' \in 0 .. nconns' /\ nsess' \in 0 .. MaxSessions
        BY <1>0, <1>1, <2>2 DEF TypeOK, None
      <3> QED BY <1>0, <1>1, <1>3, <1>4, <2>2, <3>1 DEF TypeOK
    <2>4. Returned(t) # "stopsess" /\ pc'[t] # "stopws" /\ pc'[t] \in {"stopws", "stopsess", Returned(t)}
      BY <2>2 DEF Returned
    <2>5. StartsInTurn'
      BY <1>0, <1>1, <1>2, <2>2, <2>4, StopTurn
    <2>6. WebsocketsHaveReaders'
      BY <1>0, <1>1, <1>2, <2>2, <2>4, StopConns
    <2>7. ConnectionsCounted'
      BY <1>0, <1>1, <1>2, <2>2, <2>3, <2>4, StopCounts
    <2> QED BY <2>3, <2>5, <2>6, <2>7 DEF GatewayIInv
  <1> QED BY <1>5, <1>6

(* ... by the application, by a cancellation or because something failed.  *)
LEMMA EndsKeep ==
    ASSUME GatewayIInv, NEW i \in Starts,
           UserStop \/ Cancelled(i) \/ DialFails(i) \/ ReadEnds(i) \/ SendFails(i)
    PROVE  GatewayIInv'
  <1>1. faults' \in 0 .. MaxFaults
    <2>1. faults \in 0 .. MaxFaults /\ MaxFaults \in Nat
      BY ConstantsAssumption DEF GatewayIInv, TypeOK
    <2>2. faults' = faults \/ (faults < MaxFaults /\ faults' = faults + 1)
      BY DEF UserStop, Cancelled, DialFails, ReadEnds, SendFails, Fault
    <2> QED BY <2>1, <2>2
  <1>2. CASE UserStop
    BY <1>1, <1>2, GatewayTasks, StopKeeps DEF UserStop
  <1>3. CASE Cancelled(i)
    BY <1>1, <1>3, GatewayTasks, StopKeeps DEF Cancelled
  <1>4. CASE DialFails(i) \/ ReadEnds(i) \/ SendFails(i)
    <2>1. stop(i) /\ task' = task /\ stops' = stops /\ Active(i)
      BY <1>4 DEF DialFails, ReadEnds, SendFails, Active
    <2> QED BY <1>1, <2>1, GatewayTasks, StopKeeps
  <1> QED BY <1>2, <1>3, <1>4

(* A request that failed is tried again, or start() ends.                  *)
LEMMA RestFailsKeeps ==
    ASSUME GatewayIInv, NEW i \in Starts, RestFails(i)
    PROVE  GatewayIInv'
  <1>0. TypeOK /\ StartsInTurn /\ WebsocketsHaveReaders /\ ConnectionsCounted
    BY DEF GatewayIInv
  <1>1. faults' \in 0 .. MaxFaults
    <2>1. faults \in 0 .. MaxFaults /\ MaxFaults \in Nat
      BY <1>0, ConstantsAssumption DEF TypeOK
    <2>2. faults' = faults \/ (faults < MaxFaults /\ faults' = faults + 1)
      BY DEF RestFails, Fault
    <2> QED BY <2>1, <2>2
  <1>2. task' = task /\ stops' = stops /\ pc[i] = "rest" /\ Active(i) /\ Connecting(i) /\ ~Reading(i)
    BY DEF RestFails, Active, Connecting, Reading
  <1>3. CASE stop(i)
    BY <1>1, <1>2, <1>3, GatewayTasks, StopKeeps
  <1>4. CASE ~stop(i)
    <2>1. /\ task[i].attempt < MaxRetries /\ Goto(i, "retry")
          /\ state' = state /\ running' = running /\ readyEvent' = readyEvent
          /\ sessionId' = sessionId /\ resumeUrl' = resumeUrl /\ ws' = ws /\ ackReceived' = ackReceived
          /\ resumeOnHello' = resumeOnHello /\ session' = session /\ sessions' = sessions
          /\ nsess' = nsess /\ hb' = hb /\ conn' = conn /\ nconns' = nconns
      BY <1>4 DEF RestFails, botVars, httpVars, gwVars, connVars
    <2>2. pc' \in [Tasks -> Awaits] /\ pc'[i] = "retry" /\ \A u \in Tasks : u # i => pc'[u] = pc[u]
      BY <1>0, <2>1, GatewayTasks, Moved DEF Awaits
    <2>3. TypeOK'
      BY <1>0, <1>1, <1>2, <2>1, <2>2 DEF TypeOK
    <2>4. Active(i)' /\ Connecting(i)' /\ pc'[i] # "none" /\ pc'[User] = pc[User]
          /\ \A j \in Starts : j # i => pc'[j] = pc[j]
      BY <2>2, GatewayTasks DEF Active, Connecting
    <2>5. StartsInTurn'
      BY <1>0, <1>2, <2>1, <2>2, <2>4, ActiveTurn
    <2>6. WebsocketsHaveReaders'
      BY <1>0, <1>2, <2>1, <2>2, <2>4, NowConnecting
    <2>7. ConnectionsCounted'
      <3>1. Ended(i) = 0 /\ Ended(i)' = 0 /\ Dials(i)' = Dials(i) /\ Dials(i) \in 0 .. 2
        BY <1>2, <2>2, <2>4 DEF Ended, Dials
      <3>2. SessionsDue' = SessionsDue
        BY <2>1, <2>4 DEF SessionsDue, SessionUsable, StopsLeft
      <3>3. nconns \in Nat /\ SessionsDue \in Nat
        BY <1>0, SmallCounts DEF TypeOK
      <3>4. /\ nconns' + Dials(i) <= nconns + Dials(i)'
            /\ SessionsDue' + Ended(i) <= SessionsDue + Ended(i)'
        BY <2>1, <3>1, <3>2, <3>3
      <3> QED BY <1>0, <1>2, <2>3, <2>4, <3>4, StartCounts
    <2> QED BY <2>3, <2>5, <2>6, <2>7 DEF GatewayIInv
  <1> QED BY <1>3, <1>4

(* The second part of stop(), behind the await of ws.close().              *)
LEMMA StopClosesKeeps ==
    ASSUME GatewayIInv, NEW t \in Tasks, StopClosesSession(t)
    PROVE  GatewayIInv'
  <1>0. TypeOK /\ StartsInTurn /\ WebsocketsHaveReaders /\ ConnectionsCounted
    BY DEF GatewayIInv
  <1>1. /\ task' = task /\ stops' = stops /\ running' = running /\ readyEvent' = readyEvent /\ hb' = hb
        /\ sessionId' = sessionId /\ resumeUrl' = resumeUrl /\ resumeOnHello' = resumeOnHello
        /\ ackReceived' = ackReceived /\ nconns' = nconns /\ faults' = faults
        /\ pc[t] = "stopws" /\ StopCloses(t, state) /\ state \in BotStates
    BY <1>0 DEF StopClosesSession, TypeOK
  <1>2. /\ t \in Starts => ~Idle(t) /\ ~Active(t)
        /\ ~WsLive /\ ~running
    <2>1. ~WsLive
      BY <1>0, <1>1 DEF WebsocketsHaveReaders
    <2> QED BY <1>0, <1>1, <2>1, StoppingIsNotRunning DEF Active, Idle
  <1>3. /\ ws' = None /\ pc' \in [Tasks -> Awaits] /\ \A u \in Tasks : u # t => pc'[u] = pc[u]
        /\ session' \in 0 .. nsess' /\ sessions' \subseteq 1 .. nsess' /\ nsess' = nsess
        /\ conn' \in [Conns -> Websockets]
        /\ \A w \in Conns : conn'[w].st \notin {"open", "muted"}
        /\ \A w \in Conns : w > nconns => conn'[w].st = "none" /\ conn'[w].stage = "new"
        /\ state' \in BotStates /\ ~WsLive'
        /\ \/ pc'[t] = "stopsess" /\ Usable = 0 /\ Usable' = 1
           \/ pc'[t] = Returned(t) /\ state' = "stopped" /\ Usable' = Usable
    BY <1>0, <1>1, <1>2, Closes
  <1>4. TypeOK'
    <2>1. ws' \in 0 .. nconns' /\ nsess' \in 0 .. MaxSessions
      BY <1>0, <1>1, <1>3 DEF TypeOK, None
    <2> QED BY <1>0, <1>1, <1>3, <2>1 DEF TypeOK
  <1>5. Returned(t) # "stopsess" /\ pc'[t] # "stopws" /\ pc'[t] \in {"stopws", "stopsess", Returned(t)}
    BY <1>3 DEF Returned
  <1>6. StartsInTurn'
    BY <1>0, <1>1, <1>2, <1>3, <1>5, StopTurn
  <1>7. WebsocketsHaveReaders'
    BY <1>0, <1>1, <1>2, <1>3, <1>5, StopConns
  <1>8. ConnectionsCounted'
    BY <1>0, <1>1, <1>2, <1>3, <1>4, <1>5, GatewayTasks, StopCounts
  <1> QED BY <1>4, <1>6, <1>7, <1>8 DEF GatewayIInv

(* ... and the third, behind the await of session.close().                 *)
LEMMA StopReturnsKeeps ==
    ASSUME GatewayIInv, NEW t \in Tasks, StopReturns(t)
    PROVE  GatewayIInv'
  <1>0. TypeOK /\ StartsInTurn /\ WebsocketsHaveReaders /\ ConnectionsCounted
    BY DEF GatewayIInv
  <1>1. /\ task' = task /\ stops' = stops /\ running' = running /\ readyEvent' = readyEvent /\ hb' = hb
        /\ sessionId' = sessionId /\ resumeUrl' = resumeUrl /\ resumeOnHello' = resumeOnHello
        /\ ackReceived' = ackReceived /\ conn' = conn /\ nconns' = nconns /\ faults' = faults /\ ws' = ws
        /\ pc[t] = "stopsess" /\ session' = None /\ sessions' = sessions /\ nsess' = nsess
        /\ state' = "stopped" /\ Goto(t, Returned(t))
    BY DEF StopReturns, gwVars, connVars
  <1>2. (t \in Starts => ~Idle(t) /\ ~Active(t)) /\ ~running
    BY <1>0, <1>1, StoppingIsNotRunning DEF Active, Idle
  <1>3. pc' \in [Tasks -> Awaits] /\ pc'[t] = Returned(t) /\ \A u \in Tasks : u # t => pc'[u] = pc[u]
    <2>1. Returned(t) \in Awaits
      BY DEF Returned, Awaits
    <2> QED BY <1>0, <1>1, <2>1, Moved
  <1>4. TypeOK'
    <2>1. state' \in BotStates /\ session' \in 0 .. nsess'
      BY <1>0, <1>1 DEF BotStates, TypeOK, None
    <2>2. nsess' \in 0 .. MaxSessions /\ sessions' \subseteq 1 .. nsess'
      BY <1>0, <1>1 DEF TypeOK
    <2> QED BY <1>0, <1>1, <1>3, <2>1, <2>2 DEF TypeOK
  <1>5. Returned(t) \in {"none", "returned"}
    BY DEF Returned
  <1>6. StartsInTurn'
    BY <1>0, <1>1, <1>2, <1>3, StopTurn
  <1>7. WebsocketsHaveReaders'
    <2>1. \A u \in Tasks : (pc'[u] = "stopws") = (pc[u] = "stopws")
      BY <1>1, <1>3, <1>5
    <2>2. \A j \in Starts : /\ Reading(j)' = Reading(j) /\ Connecting(j)' = Connecting(j)
                            /\ (pc'[j] = "close") = (pc[j] = "close")
                            /\ pc'[j] \in {"read", "handler"} => pc[j] \in {"read", "handler"}
      BY <1>1, <1>3, <1>5, GatewayTasks DEF Reading, Connecting
    <2>3. WsLive' = WsLive /\ \A w \in Conns : Open(w)' = Open(w)
      BY <1>1 DEF WsLive, Open
    <2>5. /\ \A w \in Conns : Open(w)' => w = ws' /\ \E j \in Starts : Reading(j)' /\ task'[j].ws = w
          /\ \A w \in Conns : w > nconns' => conn'[w].st = "none" /\ conn'[w].stage = "new"
      BY <1>0, <1>1, <2>2, <2>3 DEF WebsocketsHaveReaders
    <2>6. /\ \A j \in Starts : Reading(j)' => task'[j].ws \in 1 .. nconns'
          /\ \A u \in Tasks : pc'[u] = "stopws" => ~WsLive'
          /\ pc'[User] = "stopws" => \A j \in Starts : Connecting(j)' => task'[j].again
      BY <1>0, <1>1, <2>1, <2>2, <2>3, GatewayTasks DEF WebsocketsHaveReaders
    <2>7. ws' # None => \/ \E u \in Tasks : pc'[u] = "stopws"
                        \/ \E j \in Starts : Reading(j)' \/ pc'[j] = "close" \/ (Connecting(j)' /\ task'[j].again)
      BY <1>0, <1>1, <2>1, <2>2 DEF WebsocketsHaveReaders
    <2> QED BY <1>1, <1>2, <2>5, <2>6, <2>7 DEF WebsocketsHaveReaders
  <1>8. ConnectionsCounted'
    <2>1. Usable' <= Usable + 1
      <3>1. Usable \in 0 .. 1 /\ Usable' \in 0 .. 1
        BY DEF Usable
      <3> QED BY <3>1
    <2> QED BY <1>0, <1>1, <1>2, <1>3, <1>4, <2>1, GatewayTasks, StopCounts
  <1> QED BY <1>4, <1>6, <1>7, <1>8 DEF GatewayIInv

-----------------------------------------------------------------------------
(* The heartbeat task, the peer and the network.                           *)

LEMMA HeartbeatKeeps ==
    ASSUME GatewayIInv, HbCheck \/ HbBeat \/ HbBeatFails
    PROVE  GatewayIInv'
  <1>0. TypeOK /\ StartsInTurn /\ WebsocketsHaveReaders /\ ConnectionsCounted
    BY DEF GatewayIInv
  <1>1. /\ pc' = pc /\ task' = task /\ stops' = stops /\ state' = state /\ running' = running
        /\ readyEvent' = readyEvent /\ sessionId' = sessionId /\ resumeUrl' = resumeUrl
        /\ session' = session /\ sessions' = sessions /\ nsess' = nsess /\ ws' = ws
        /\ resumeOnHello' = resumeOnHello /\ nconns' = nconns /\ faults' = faults
        /\ hb # "none" /\ hb' \in {"none", "check", "sleep"} /\ ackReceived' \in BOOLEAN
    BY <1>0 DEF HbCheck, HbBeat, HbBeatFails, _send_heartbeat, botVars, httpVars, connVars, TypeOK
  <1>2. /\ conn' \in [Conns -> Websockets]
        /\ \A w \in Conns : conn'[w].st = conn[w].st /\ conn'[w].stage = conn[w].stage
    <2>1. CASE HbBeat
      BY <1>0, <2>1, HeartbeatSent DEF HbBeat
    <2>2. CASE HbCheck \/ HbBeatFails
      <3>1. conn' = conn
        BY <2>2 DEF HbCheck, HbBeatFails, connVars
      <3> QED BY <1>0, <3>1 DEF TypeOK
    <2> QED BY <2>1, <2>2
  <1>3. TypeOK'
    <2>1. ws' \in 0 .. nconns' /\ session' \in 0 .. nsess' /\ sessions' \subseteq 1 .. nsess'
          /\ nsess' \in 0 .. MaxSessions /\ nconns' \in 0 .. MaxConns
      BY <1>0, <1>1 DEF TypeOK
    <2> QED BY <1>0, <1>1, <1>2, <2>1 DEF TypeOK
  <1>4. StartsInTurn'
    <2>1. \E i \in Starts : Active(i)
      BY <1>0, <1>1 DEF StartsInTurn
    <2> QED BY <1>0, <1>1, <2>1, OthersTurn
  <1>5. hb' = "none" => ~running \/ \A w \in Conns : w = ws => conn'[w].st # "open"
    <2>1. hb' = "none" => ~running \/ (ws # None /\ conn[ws].st = "gone")
      BY DEF HbCheck, HbBeat, HbBeatFails
    <2> QED BY <1>2, <2>1
  <1>6. WebsocketsHaveReaders'
    BY <1>0, <1>1, <1>2, <1>5, OthersConn
  <1>7. ConnectionsCounted'
    <2>1. SessionsDue' = SessionsDue
      BY <1>1 DEF SessionsDue, SessionUsable, StopsLeft
    <2>2. SessionsDue \in Nat /\ stops \in Nat
      BY <1>0, SmallCounts DEF TypeOK
    <2>3. SessionsDue' <= SessionsDue + 2 * 0 /\ stops' = stops + 0 /\ 0 \in 0 .. 1
      BY <1>1, <2>1, <2>2
    <2> QED BY <1>0, <1>1, <1>3, <2>3, OthersCount
  <1> QED BY <1>3, <1>4, <1>6, <1>7 DEF GatewayIInv

(* The missed ACK.                                                         *)
LEMMA MissedKeeps ==
    ASSUME GatewayIInv, HbMissed
    PROVE  GatewayIInv'
  <1>0. TypeOK /\ StartsInTurn /\ WebsocketsHaveReaders /\ ConnectionsCounted
    BY DEF GatewayIInv
  <1>1. /\ pc' = pc /\ task' = task /\ stops' = stops /\ running' = running
        /\ readyEvent' = readyEvent /\ sessionId' = sessionId /\ resumeUrl' = resumeUrl
        /\ ws' = ws /\ nconns' = nconns /\ faults' = faults /\ ackReceived' = ackReceived
        /\ hb # "none" /\ hb' = "none"
    BY DEF HbMissed
  <1>2. state' \in BotStates /\ resumeOnHello' \in BOOLEAN
    BY <1>0 DEF HbMissed, BotStates, TypeOK
  <1>3. StopsLeft' = StopsLeft
    BY <1>1 DEF StopsLeft
  <1>4. /\ session' \in 0 .. nsess' /\ sessions' \subseteq 1 .. nsess' /\ nsess' \in 0 .. MaxSessions
        /\ SessionsDue' = SessionsDue
    <2>1. CASE _create_session
      BY <1>0, <1>3, <2>1, SessionCreated
    <2>2. CASE ~_create_session
      <3>1. session' = session /\ sessions' = sessions /\ nsess' = nsess
        BY <2>2 DEF HbMissed, httpVars
      <3> QED BY <1>0, <1>3, <3>1 DEF TypeOK, SessionsDue, SessionUsable
    <2> QED BY <2>1, <2>2
  <1>5. /\ conn' \in [Conns -> Websockets]
        /\ \A w \in Conns : /\ conn'[w].stage = conn[w].stage
                            /\ conn'[w].st = conn[w].st \/ (w = ws /\ conn'[w].st = "closed")
                            /\ w = ws => conn'[w].st # "open"
    <2>1. CASE WsLive
      <3>1. conn' = ClosedWs
        BY <2>1 DEF HbMissed
      <3> QED BY <1>0, <2>1, <3>1, WsClosed
    <2>2. CASE ~WsLive
      <3>1. conn' = conn /\ \A w \in Conns : w # None
        BY <2>2 DEF HbMissed, Conns, None
      <3> QED BY <1>0, <2>2, <3>1 DEF TypeOK, WsLive
    <2> QED BY <2>1, <2>2
  <1>6. TypeOK'
    <2>1. ws' \in 0 .. nconns' /\ nconns' \in 0 .. MaxConns
      BY <1>0, <1>1 DEF TypeOK
    <2> QED BY <1>0, <1>1, <1>2, <1>4, <1>5, <2>1 DEF TypeOK
  <1>7. StartsInTurn'
    <2>1. \E i \in Starts : Active(i)
      BY <1>0, <1>1 DEF StartsInTurn
    <2> QED BY <1>0, <1>1, <2>1, OthersTurn
  <1>8. WebsocketsHaveReaders'
    <2>1. \A w \in Conns : w = ws => w <= nconns
      BY <1>0 DEF TypeOK, Conns
    <2> QED BY <1>0, <1>1, <1>5, <2>1, OthersConn
  <1>9. ConnectionsCounted'
    <2>1. SessionsDue \in Nat /\ stops \in Nat
      BY <1>0, SmallCounts DEF TypeOK
    <2>2. SessionsDue' <= SessionsDue + 2 * 0 /\ stops' = stops + 0 /\ 0 \in 0 .. 1
      BY <1>1, <1>4, <2>1
    <2> QED BY <1>0, <1>1, <1>6, <2>2, OthersCount
  <1> QED BY <1>6, <1>7, <1>8, <1>9 DEF GatewayIInv

LEMMA LosesKeeps ==
    ASSUME GatewayIInv, NEW w \in Conns, NEW how \in {"gone", "muted"}, Loses(w, how)
    PROVE  GatewayIInv'
  <1>0. TypeOK /\ StartsInTurn /\ WebsocketsHaveReaders /\ ConnectionsCounted
    BY DEF GatewayIInv
  <1>1. /\ pc' = pc /\ task' = task /\ stops' = stops /\ state' = state /\ running' = running
        /\ readyEvent' = readyEvent /\ sessionId' = sessionId /\ resumeUrl' = resumeUrl
        /\ session' = session /\ sessions' = sessions /\ nsess' = nsess /\ ws' = ws /\ hb' = hb
        /\ resumeOnHello' = resumeOnHello /\ ackReceived' = ackReceived /\ nconns' = nconns
        /\ conn[w].st = "open" /\ conn' = [conn EXCEPT ![w].st = how]
    BY DEF Loses, botVars, httpVars, gwVars
  <1>2. faults' \in 0 .. MaxFaults
    BY <1>0, ConstantsAssumption DEF Loses, Fault, TypeOK
  <1>3. /\ conn' \in [Conns -> Websockets]
        /\ \A v \in Conns : /\ conn'[v].stage = conn[v].stage
                            /\ v # w => conn'[v] = conn[v]
                            /\ v = w => conn'[v].st = how
    <2>1. conn' = [conn EXCEPT ![w] = [conn[w] EXCEPT !.st = how]]
      BY <1>1
    <2>2. conn[w] \in Websockets
      BY <1>0 DEF TypeOK
    <2>3. /\ [conn[w] EXCEPT !.st = how] \in Websockets
          /\ [conn[w] EXCEPT !.st = how].st = how
          /\ [conn[w] EXCEPT !.st = how].stage = conn[w].stage
      BY <2>2 DEF Websockets
    <2> QED BY <1>0, <2>1, <2>3 DEF TypeOK
  <1>4. TypeOK'
    <2>1. ws' \in 0 .. nconns' /\ session' \in 0 .. nsess' /\ sessions' \subseteq 1 .. nsess'
          /\ nsess' \in 0 .. MaxSessions /\ nconns' \in 0 .. MaxConns
      BY <1>0, <1>1 DEF TypeOK
    <2> QED BY <1>0, <1>1, <1>2, <1>3, <2>1 DEF TypeOK
  <1>5. StartsInTurn'
    <2>1. \A i \in Starts : Active(i)' = Active(i) /\ Idle(i)' = Idle(i)
      BY <1>1 DEF Active, Idle
    <2> QED BY <1>0, <1>1, <2>1 DEF StartsInTurn
  <1>6. WebsocketsHaveReaders'
    BY <1>0, <1>1, <1>3, OthersConn
  <1>7. ConnectionsCounted'
    <2>1. SessionsDue' = SessionsDue
      BY <1>1 DEF SessionsDue, SessionUsable, StopsLeft
    <2>2. SessionsDue \in Nat /\ stops \in Nat
      BY <1>0, SmallCounts DEF TypeOK
    <2>3. SessionsDue' <= SessionsDue + 2 * 0 /\ stops' = stops + 0 /\ 0 \in 0 .. 1
      BY <1>1, <2>1, <2>2
    <2> QED BY <1>0, <1>1, <1>4, <2>3, OthersCount
  <1> QED BY <1>4, <1>5, <1>6, <1>7 DEF GatewayIInv

LEMMA GatewayBegins ==
    Init => GatewayIInv
  <1> SUFFICES ASSUME Init PROVE GatewayIInv
    OBVIOUS
  <1>1. /\ \A t \in Tasks : pc[t] = "none"
        /\ \A w \in Conns : conn[w].st = "none" /\ conn[w].stage = "new"
    BY DEF Init
  <1>2. TypeOK
    <2>1. /\ task \in [Starts -> Locals] /\ conn \in [Conns -> Websockets]
          /\ session \in 0 .. nsess /\ ws \in 0 .. nconns
      BY ConstantsAssumption DEF Init, Locals, Websockets, MaxConns, MaxSessions, None
    <2>2. stops \in 0 .. MaxStops /\ nsess \in 0 .. MaxSessions /\ nconns \in 0 .. MaxConns
          /\ faults \in 0 .. MaxFaults
      BY ConstantsAssumption DEF Init, MaxConns, MaxSessions
    <2>3. pc \in [Tasks -> Awaits] /\ state \in BotStates
      BY DEF Init, Awaits, BotStates
    <2> QED BY <2>1, <2>2, <2>3 DEF TypeOK, Init
  <1>3. \A i \in Starts : pc[i] = "none" /\ ~Reading(i) /\ ~Connecting(i)
    BY <1>1, GatewayTasks DEF Reading, Connecting
  <1>4. StartsInTurn
    BY <1>1, <1>3, GatewayTasks DEF Init, StartsInTurn
  <1>5. WebsocketsHaveReaders
    <2>1. ws = None /\ \A w \in Conns : ~Open(w)
      BY <1>1 DEF Open, Init
    <2> QED BY <1>1, <1>3, <2>1, GatewayTasks DEF WebsocketsHaveReaders
  <1>6. ConnectionsCounted
    <2>1. \A i \in Starts : Dials(i) = 0 /\ Ended(i) = 0
      BY <1>3 DEF Dials, Ended
    <2>2. SessionsDue = 1 /\ nconns = 0 /\ stops = 0
      BY <1>1, GatewayTasks DEF Init, SessionsDue, StopsLeft, SessionUsable
    <2>3. \A i \in Starts : i \in Nat /\ i >= 1
      BY GatewayTasks
    <2> QED BY <2>1, <2>2, <2>3 DEF ConnectionsCounted
  <1> QED BY <1>2, <1>4, <1>5, <1>6 DEF GatewayIInv

LEMMA GatewayStep ==
    ASSUME ~Overlap, GatewayIInv, [Next]_vars
    PROVE  GatewayIInv'
  <1>1. CASE UNCHANGED vars
    <2>1. /\ pc' = pc /\ task' = task /\ stops' = stops /\ state' = state /\ running' = running
          /\ readyEvent' = readyEvent /\ sessionId' = sessionId /\ resumeUrl' = resumeUrl
          /\ session' = session /\ sessions' = sessions /\ nsess' = nsess /\ ws' = ws /\ hb' = hb
          /\ resumeOnHello' = resumeOnHello /\ ackReceived' = ackReceived /\ nconns' = nconns
          /\ conn' = conn /\ faults' = faults
      BY <1>1 DEF vars
    <2>2. TypeOK'
      BY <2>1 DEF GatewayIInv, TypeOK
    <2>3. StartsInTurn'
      BY <2>1 DEF GatewayIInv, StartsInTurn, Active, Idle
    <2>4. WebsocketsHaveReaders'
      BY <2>1 DEF GatewayIInv, WebsocketsHaveReaders, Open, Reading, Connecting, WsLive, Stage
    <2>5. ConnectionsCounted'
      <3>1. \A i \in Starts : Dials(i)' = Dials(i) /\ Ended(i)' = Ended(i)
        BY <2>1 DEF Dials, Ended, Connecting
      <3>2. SessionsDue' = SessionsDue
        BY <2>1 DEF SessionsDue, SessionUsable, StopsLeft
      <3> QED BY <2>1, <3>1, <3>2 DEF GatewayIInv, ConnectionsCounted
    <2> QED BY <2>2, <2>3, <2>4, <2>5 DEF GatewayIInv
  <1>2. ASSUME NEW i \in Starts, StartStep(i) PROVE GatewayIInv'
    <2>1. CASE start(i)
      BY <2>1, StartKeeps
    <2>2. CASE RestOK(i) \/ RestRetries(i)
      BY <2>2, RestKeeps
    <2>3. CASE RestFails(i)
      BY <2>3, RestFailsKeeps
    <2>4. CASE DialOK(i)
      BY <2>4, DialKeeps
    <2>5. CASE Cancelled(i) \/ DialFails(i) \/ ReadEnds(i) \/ SendFails(i)
      BY <2>5, EndsKeep
    <2>6. CASE ReadHello(i)
      BY <2>6, HelloKeeps
    <2>7. CASE HelloSent(i) \/ ReadEvent(i) \/ HandlerReturns(i) \/ ReadHeartbeatRequest(i) \/ ReadAck(i)
               \/ ReadReady(i)
      BY <2>7, FrameKeeps
    <2>8. CASE ReadReconnect(i) \/ SleepEnds(i) \/ ReconnectConnects(i)
      BY <2>8, ReconnectsKeep
    <2>9. CASE \E d \in BOOLEAN : ReadInvalidSession(i, d)
      BY <2>9, InvalidSessionKeeps
    <2> QED BY <1>2, <2>1, <2>2, <2>3, <2>4, <2>5, <2>6, <2>7, <2>8, <2>9 DEF StartStep
  <1>3. ASSUME NEW t \in Tasks, StopClosesSession(t) \/ StopReturns(t) PROVE GatewayIInv'
    BY <1>3, StopClosesKeeps, StopReturnsKeeps
  <1>4. CASE UserStop
    BY <1>4, GatewayTasks, EndsKeep
  <1>5. CASE HbCheck \/ HbBeat \/ HbBeatFails \/ HbMissed
    BY <1>5, HeartbeatKeeps, MissedKeeps
  <1>6. ASSUME NEW w \in Conns, NEW how \in {"gone", "muted"}, Loses(w, how) PROVE GatewayIInv'
    BY <1>6, LosesKeeps
  <1>7. CASE Finished
    BY <1>1, <1>7 DEF Finished
  <1> QED BY <1>1, <1>2, <1>3, <1>4, <1>5, <1>6, <1>7 DEF Next

LEMMA GatewayImplies ==
    GatewayIInv => LifecycleInv
  <1> SUFFICES ASSUME GatewayIInv PROVE LifecycleInv
    OBVIOUS
  <1>0. TypeOK /\ StartsInTurn /\ WebsocketsHaveReaders /\ ConnectionsCounted
    BY DEF GatewayIInv
  <1>1. ReturnedIsQuiet
    <2> SUFFICES ASSUME \A i \in Starts : pc[i] = "returned", pc[User] = "none"
                 PROVE  /\ \A w \in Conns : ~Open(w)
                        /\ hb # "sleep" /\ state = "stopped" /\ ~running /\ ~readyEvent
      BY DEF ReturnedIsQuiet
    <2>1. \A i \in Starts : Idle(i) /\ ~Active(i) /\ ~Reading(i)
      BY DEF Idle, Active, Reading
    <2>2. \E i \in Starts : pc[i] = "returned"
      BY GatewayTasks
    <2> QED BY <1>0, <2>1, <2>2, NoneOpen DEF StartsInTurn
  <1>2. ConnectionHasHeartbeat
    BY <1>0 DEF ConnectionHasHeartbeat, Readable, WebsocketsHaveReaders
  <1> QED BY <1>0, <1>1, <1>2 DEF LifecycleInv

(* When the application awaits start() and stop() before it calls start()  *)
(* again, then whatever the server and the network do, whenever stop() is  *)
(* called and wherever the task is cancelled: a bot that reads an open     *)
(* connection after HELLO has a heartbeat task, and once start() has       *)
(* returned there is neither an open websocket nor a heartbeat task, and   *)
(* the bot is STOPPED (bot.py start, stop; gateway_runtime.py).            *)
THEOREM LifecycleIsSafe ==
    ASSUME ~Overlap
    PROVE  Spec => []LifecycleInv
  <1>1. Init => GatewayIInv
    BY GatewayBegins
  <1>2. GatewayIInv /\ [Next]_vars => GatewayIInv'
    BY GatewayStep
  <1>3. GatewayIInv => LifecycleInv
    BY GatewayImplies
  <1> QED BY <1>1, <1>2, <1>3, PTL DEF Spec

-----------------------------------------------------------------------------
(***************************************************************************)
(* The storages: FsmStoragePy.                                             *)
(***************************************************************************)

(* The name of a call tells its fields.                                    *)
LEMMA CallKinds ==
    ASSUME NEW c \in CallSet
    PROVE  /\ c.name \in {"set_state", "set_data", "update_data", "clear", "set_many_states",
                          "transition_data"}
           /\ c.name = "set_state" => c \in StateCalls
           /\ c.name \in {"set_data", "update_data"} => c \in DataCalls
           /\ c.name = "clear" => c \in ClearCalls
           /\ c.name = "set_many_states" => c \in ManyCalls
           /\ c.name = "transition_data" => c \in MoveCalls
           /\ c.to \in Keys /\ c # NoCall
  <1>1. NoCall.name = "none"
    BY DEF NoCall
  <1> QED BY <1>1 DEF CallSet, StateCalls, DataCalls, ClearCalls, ManyCalls, MoveCalls

LEMMA CallKeys ==
    ASSUME NEW c \in CallSet
    PROVE  /\ KeysOf(c) = IF c.name = "set_many_states" THEN c.keys
                          ELSE IF c.name = "transition_data" THEN {c.from, c.to} ELSE {c.to}
           /\ KeysOf(c) \subseteq Keys
  <1>1. KeysOf(c) = IF c.name = "set_many_states" THEN c.keys
                    ELSE IF c.name = "transition_data" THEN {c.from, c.to} ELSE {c.to}
    BY CallKinds DEF KeysOf
  <1> QED BY <1>1, CallKinds DEF ManyCalls, MoveCalls

LEMMA NoCallKeys == KeysOf(NoCall) = {} /\ NoCall.name = "none"
  BY DEF KeysOf, NoCall

(* A call that is where it can be is about keys of its own, and so is its  *)
(* access.                                                                 *)
LEMMA AccessKey ==
    ASSUME NEW c \in CallSet, NEW b, NEW a, NEW l, Proper(b, c, a, l)
    PROVE  KeyAt(c, a) \in KeysOf(c) /\ c.to \in KeysOf(c)
  BY CallKinds, CallKeys DEF Proper, KeyAt

(* The order of the accesses leads from place to place.                    *)
LEMMA Order ==
    ASSUME NEW c \in CallSet, NEW b \in Backends
    PROVE  /\ PlaceOf(b, c, Follows(b, c, "begin"))
           /\ Follows(b, c, "begin") \in Accesses
           /\ \A a : PlaceOf(b, c, a) =>
                /\ a \in Accesses
                /\ Follows(b, c, a) = "end" \/ PlaceOf(b, c, Follows(b, c, a))
                /\ Follows(b, c, a) \in Accesses \cup {"end"}
  <1>0. c.name \in {"set_state", "set_data", "update_data", "clear", "set_many_states", "transition_data"}
    BY CallKinds
  <1>1. CASE c.name \in {"set_state", "set_many_states"}
    <2>1. \A a : /\ PlaceOf(b, c, a) = AtStateWrite(b, a) /\ Follows(b, c, a) = set_state(b, a)
      BY <1>1 DEF PlaceOf, Follows
    <2>2. CASE b \in RowBackends
      BY <2>1, <2>2 DEF AtStateWrite, set_state, Accesses
    <2>3. CASE b \notin RowBackends
      BY <2>1, <2>3 DEF AtStateWrite, set_state, Accesses
    <2> QED BY <2>2, <2>3
  <1>2. CASE c.name = "set_data"
    BY <1>2 DEF PlaceOf, Follows, AtDataWrite, set_data, Accesses
  <1>3. CASE c.name = "update_data"
    BY <1>3 DEF PlaceOf, Follows, AtDataWrite, update_data, set_data, Accesses
  <1>4. CASE c.name = "clear"
    BY <1>4 DEF PlaceOf, Follows, clear, Accesses
  <1>5. CASE c.name = "transition_data"
    BY <1>5 DEF PlaceOf, Follows, AtDataWrite, transition_data, set_data, clear, Accesses
  <1> QED BY <1>0, <1>1, <1>2, <1>3, <1>4, <1>5

LEMMA RowShape ==
    /\ Empty \in Row
    /\ \A r \in Row : /\ r = [state |-> r.state, data |-> r.data]
                      /\ r.state \in States \cup {NoState} /\ r.data \in SUBSET Fields
    /\ \A s \in States \cup {NoState}, d \in SUBSET Fields : [state |-> s, data |-> d] \in Row
    /\ \A r, q \in Row : r.state = q.state /\ r.data = q.data => r = q
  BY DEF Row, Empty

LEMMA AccessTypes ==
    ASSUME NEW r \in Row, NEW l \in Row, NEW a
    PROVE  Stored(r, l, a) \in Row /\ Loaded(r, l, a) \in Row
  <1>1. Stored(r, l, a) \in Row
    BY RowShape DEF Stored, Row
  <1>2. Loaded(r, l, a) \in Row
    BY RowShape DEF Loaded, Row
  <1> QED BY <1>1, <1>2

LEMMA ArgumentTypes ==
    ASSUME NEW c \in CallSet
    PROVE  /\ Arguments(c) \in Row
           /\ c.name \in {"set_state", "set_many_states"} => Arguments(c).state = StateFor(c, c.to)
           /\ c.name \in {"set_data", "update_data"} => Arguments(c).data = c.data
  BY CallKinds DEF Arguments, StateFor, Row, StateCalls, DataCalls, ManyCalls

(* What is specified for a call changes rows of its keys only.             *)
LEMMA SpecifiedRows ==
    ASSUME NEW c \in CallSet, NEW sp \in [Keys -> Row], c.name = "transition_data" => c.from # c.to
    PROVE  /\ Specified(sp, c) \in [Keys -> Row]
           /\ \A k \in Keys \ KeysOf(c) : Specified(sp, c)[k] = sp[k]
           /\ c.name = "set_state" => Specified(sp, c)[c.to] = [sp[c.to] EXCEPT !.state = c.state]
           /\ c.name = "set_data" => Specified(sp, c)[c.to] = [sp[c.to] EXCEPT !.data = c.data]
           /\ c.name = "update_data" => Specified(sp, c)[c.to] = [sp[c.to] EXCEPT !.data = sp[c.to].data \cup c.data]
           /\ c.name = "clear" => Specified(sp, c)[c.to] = Empty
           /\ c.name = "set_many_states" => \A k \in c.keys : Specified(sp, c)[k] = [sp[k] EXCEPT !.state = c.states[k]]
           /\ c.name = "transition_data" =>
                /\ Specified(sp, c)[c.to] =
                     [sp[c.to] EXCEPT !.data = sp[c.from].data \cup (IF c.merge THEN sp[c.to].data ELSE {})]
                /\ Specified(sp, c)[c.from] = IF c.clear THEN Empty ELSE sp[c.from]
  <1>0. /\ c.name \in {"set_state", "set_data", "update_data", "clear", "set_many_states", "transition_data"}
        /\ c.to \in Keys
    BY CallKinds
  <1>k. /\ KeysOf(c) = IF c.name = "set_many_states" THEN c.keys
                       ELSE IF c.name = "transition_data" THEN {c.from, c.to} ELSE {c.to}
        /\ KeysOf(c) \subseteq Keys
    BY CallKeys
  <1>1. CASE c.name = "set_state"
    <2>1. c.state \in States \cup {NoState}
      BY <1>1, CallKinds DEF StateCalls
    <2>2. [sp[c.to] EXCEPT !.state = c.state] \in Row
      BY <1>0, <2>1 DEF Row
    <2> QED BY <1>0, <1>1, <1>k, <2>2 DEF Specified
  <1>2. CASE c.name = "set_data"
    <2>1. c.data \in SUBSET Fields
      BY <1>2, CallKinds DEF DataCalls
    <2>2. [sp[c.to] EXCEPT !.data = c.data] \in Row
      BY <1>0, <2>1 DEF Row
    <2> QED BY <1>0, <1>2, <1>k, <2>2 DEF Specified
  <1>3. CASE c.name = "update_data"
    <2>1. c.data \in SUBSET Fields
      BY <1>3, CallKinds DEF DataCalls
    <2>2. [sp[c.to] EXCEPT !.data = sp[c.to].data \cup c.data] \in Row
      BY <1>0, <2>1 DEF Row
    <2> QED BY <1>0, <1>3, <1>k, <2>2 DEF Specified
  <1>4. CASE c.name = "clear"
    BY <1>0, <1>4, <1>k, RowShape DEF Specified
  <1>5. CASE c.name = "set_many_states"
    <2>1. (\A k \in Keys : c.states[k] \in States \cup {NoState}) /\ c.keys \subseteq Keys
      BY <1>5, CallKinds DEF ManyCalls
    <2>2. \A k \in Keys : [sp[k] EXCEPT !.state = c.states[k]] \in Row
      BY <2>1 DEF Row
    <2>3. Specified(sp, c) = [k \in Keys |-> IF k \in c.keys THEN [sp[k] EXCEPT !.state = c.states[k]] ELSE sp[k]]
      BY <1>5 DEF Specified
    <2> QED BY <1>0, <1>5, <1>k, <2>1, <2>2, <2>3
  <1>6. CASE c.name = "transition_data"
    <2>1. c.from \in Keys /\ c.clear \in BOOLEAN /\ c.merge \in BOOLEAN
      BY <1>6, CallKinds DEF MoveCalls
    <2> DEFINE moved == [sp[c.to] EXCEPT !.data = sp[c.from].data \cup (IF c.merge THEN sp[c.to].data ELSE {})]
    <2>2. moved \in Row
      BY <1>0, <2>1 DEF Row
    <2>3. Specified(sp, c) = [k \in Keys |-> IF k = c.to THEN moved
                                             ELSE IF k = c.from /\ c.clear THEN Empty ELSE sp[k]]
      BY <1>6 DEF Specified
    <2> QED BY <1>0, <1>6, <1>k, <2>1, <2>2, <2>3, RowShape
  <1> QED BY <1>0, <1>1, <1>2, <1>3, <1>4, <1>5, <1>6

LEMMA SpecifiedMove ==
    ASSUME NEW c \in CallSet, NEW sp \in [Keys -> Row], c.name = "transition_data", c.from # c.to
    PROVE  Specified(sp, c)[c.to] =
             [sp[c.to] EXCEPT !.data = sp[c.from].data \cup (IF c.merge THEN sp[c.to].data ELSE {})]
  BY SpecifiedRows

LEMMA SpecifiedSource ==
    ASSUME NEW c \in CallSet, NEW sp \in [Keys -> Row], c.name = "transition_data", c.from # c.to
    PROVE  Specified(sp, c)[c.from] = IF c.clear THEN Empty ELSE sp[c.from]
  BY SpecifiedRows

LEMMA SpecifiedState ==
    ASSUME NEW c \in CallSet, NEW sp \in [Keys -> Row], c.name \in {"set_state", "set_many_states"},
           NEW k \in KeysOf(c)
    PROVE  Specified(sp, c)[k] = [sp[k] EXCEPT !.state = StateFor(c, k)]
  <1>0. c.to \in Keys /\ k \in Keys
    BY CallKinds, CallKeys
  <1>1. CASE c.name = "set_state"
    <2>1. Specified(sp, c) = [sp EXCEPT ![c.to].state = c.state]
      BY <1>1 DEF Specified
    <2>2. k = c.to /\ StateFor(c, k) = c.state
      BY <1>1, CallKeys DEF StateFor
    <2> QED BY <1>0, <2>1, <2>2
  <1>2. CASE c.name = "set_many_states"
    <2>1. k \in c.keys
      BY <1>2, CallKeys
    <2> QED BY <1>0, <1>2, <2>1 DEF Specified, StateFor
  <1> QED BY <1>1, <1>2

LEMMA SpecifiedData ==
    ASSUME NEW c \in CallSet, NEW sp \in [Keys -> Row], c.name \in {"set_data", "update_data"}, NEW d,
           d = IF c.name = "set_data" THEN c.data ELSE sp[c.to].data \cup c.data
    PROVE  Specified(sp, c)[c.to] = [sp[c.to] EXCEPT !.data = d]
  <1>0. c.to \in Keys
    BY CallKinds
  <1>1. Specified(sp, c) = [sp EXCEPT ![c.to].data = d]
    <2>1. CASE c.name = "set_data"
      BY <2>1 DEF Specified
    <2>2. CASE c.name = "update_data"
      BY <1>0, <2>2 DEF Specified
    <2> QED BY <2>1, <2>2
  <1> QED BY <1>0, <1>1

LEMMA SpecifiedClear ==
    ASSUME NEW c \in CallSet, NEW sp \in [Keys -> Row], c.name = "clear"
    PROVE  Specified(sp, c)[c.to] = Empty
  BY SpecifiedRows

(* A write of data leaves the state, with the row or without it.           *)
LEMMA StoredData ==
    ASSUME NEW r \in Row, NEW l \in Row, NEW a \in {"write_data", "write_row"},
           a = "write_row" => l.state = r.state
    PROVE  Stored(r, l, a) = [r EXCEPT !.data = l.data]
  <1>1. CASE a = "write_data"
    BY <1>1 DEF Stored
  <1>2. CASE a = "write_row"
    <2>1. Stored(r, l, a) = l
      BY <1>2 DEF Stored
    <2> QED BY <1>2, <2>1 DEF Row
  <1> QED BY <1>1, <1>2

(* How far a call has come depends on the rows of its keys only.           *)
LEMMA HalfwayLocal ==
    ASSUME NEW c \in CallSet, NEW b, NEW a, NEW l, Proper(b, c, a, l),
           NEW rs \in [Keys -> Row], NEW sp \in [Keys -> Row],
           NEW rs2 \in [Keys -> Row], NEW sp2 \in [Keys -> Row],
           \A k \in KeysOf(c) : rs2[k] = rs[k] /\ sp2[k] = sp[k],
           Halfway(rs, sp, c, a, l)
    PROVE  Halfway(rs2, sp2, c, a, l)
  <1>0. /\ c.to \in KeysOf(c)
        /\ c.name = "transition_data" => c.from \in KeysOf(c) /\ c.from # c.to
        /\ c.name = "set_many_states" => c.keys = KeysOf(c)
    BY CallKeys, AccessKey DEF Proper
  <1>1. c.name = "transition_data" => Specified(sp2, c)[c.to] = Specified(sp, c)[c.to]
    <2> SUFFICES ASSUME c.name = "transition_data"
                 PROVE  Specified(sp2, c)[c.to] = Specified(sp, c)[c.to]
      OBVIOUS
    <2>1. sp2[c.to] = sp[c.to] /\ sp2[c.from] = sp[c.from] /\ c.from # c.to
      BY <1>0
    <2>2. Specified(sp, c)[c.to] =
            [sp[c.to] EXCEPT !.data = sp[c.from].data \cup (IF c.merge THEN sp[c.to].data ELSE {})]
      BY <2>1, SpecifiedMove
    <2>3. Specified(sp2, c)[c.to] =
            [sp2[c.to] EXCEPT !.data = sp2[c.from].data \cup (IF c.merge THEN sp2[c.to].data ELSE {})]
      BY <2>1, SpecifiedMove
    <2> QED BY <2>1, <2>2, <2>3
  <1> QED BY <1>0, <1>1 DEF Halfway

(* A call begins where it can be.                                          *)
LEMMA ProperBegins ==
    ASSUME NEW c \in FirstCalls, NEW b \in Backends
    PROVE  c \in CallSet /\ Proper(b, c, Follows(b, c, "begin"), Arguments(c))
  <1>0. /\ c \in CallSet
        /\ c.name = "set_many_states" => c.to \in c.keys /\ c.left = c.keys \ {c.to}
        /\ c.name = "transition_data" => c.from # c.to
    BY DEF FirstCalls
  <1> QED BY <1>0, Order, ArgumentTypes DEF Proper

(* A call that begins on rows as specified has come that far.              *)
LEMMA HalfwayBegins ==
    ASSUME NEW c \in FirstCalls, NEW b \in Backends,
           NEW rs \in [Keys -> Row], NEW sp \in [Keys -> Row], \A k \in KeysOf(c) : rs[k] = sp[k]
    PROVE  Halfway(rs, sp, c, Follows(b, c, "begin"), Arguments(c))
  <1>0. /\ c \in CallSet
        /\ c.name = "set_many_states" => c.to \in c.keys /\ c.left = c.keys \ {c.to}
        /\ c.name = "transition_data" => c.from # c.to
    BY DEF FirstCalls
  <1> DEFINE f == Follows(b, c, "begin")
             l == Arguments(c)
  <1>2. /\ f # "write_row"
        /\ c.name = "transition_data" => f = "read_data"
        /\ c.name = "update_data" => f = "merge_data"
    BY <1>0, CallKinds DEF Follows, set_state, set_data, update_data, clear, transition_data
  <1>3. c.name \in {"set_data", "update_data"} => l.data = c.data /\ l.data = c.data \cup {}
    BY <1>0, ArgumentTypes
  <1>4. c.name = "set_many_states" => c.keys \ (c.left \cup {c.to}) = {}
    BY <1>0
  <1>5. Halfway(rs, sp, c, f, l)
    <2> HIDE DEF f, l
    <2> QED BY <1>2, <1>3, <1>4 DEF Halfway
  <1> QED BY <1>5

(* An access that is not the last leads further.                           *)
LEMMA HalfwayGoesOn ==
    ASSUME NEW c \in CallSet, NEW b \in Backends, NEW a, NEW l \in Row, Proper(b, c, a, l),
           NEW rs \in [Keys -> Row], NEW sp \in [Keys -> Row], Halfway(rs, sp, c, a, l),
           NEW rs2 \in [Keys -> Row], NEW k \in Keys, k = KeyAt(c, a),
           rs2 = [rs EXCEPT ![k] = Stored(rs[k], l, a)],
           Follows(b, c, a) # "end"
    PROVE  Halfway(rs2, sp, c, Follows(b, c, a), Loaded(rs[k], l, a))
  <1>0. /\ c.to \in KeysOf(c) /\ c.to \in Keys
        /\ c.name = "transition_data" => c.from \in KeysOf(c) /\ c.from # c.to /\ c.from \in Keys
        /\ c.name = "set_many_states" => c.keys = KeysOf(c) /\ c.to \in c.keys \ c.left /\ c.left \subseteq c.keys
        /\ KeysOf(c) \subseteq Keys
    BY CallKeys, AccessKey DEF Proper
  <1>1. CASE c.name \in {"set_state", "set_many_states"}
    <2>1. a = "read_data" /\ Follows(b, c, a) = "write_row" /\ k = c.to
      BY <1>1 DEF Follows, set_state, Proper, PlaceOf, AtStateWrite, KeyAt
    <2>2. rs2 = rs /\ Loaded(rs[k], l, a) = [l EXCEPT !.data = rs[k].data]
      BY <2>1 DEF Stored, Loaded
    <2>3. Loaded(rs[k], l, a).data = rs[c.to].data
      BY <2>1, <2>2 DEF Row
    <2> QED BY <1>0, <1>1, <2>1, <2>2, <2>3 DEF Halfway
  <1>2. CASE c.name = "set_data"
    <2>1. a = "read_state" /\ Follows(b, c, a) = "write_row" /\ k = c.to
      BY <1>2 DEF Follows, set_data, Proper, PlaceOf, AtDataWrite, KeyAt
    <2>2. rs2 = rs /\ Loaded(rs[k], l, a) = [l EXCEPT !.state = rs[k].state]
      BY <2>1 DEF Stored, Loaded
    <2>3. Loaded(rs[k], l, a).state = rs[c.to].state /\ Loaded(rs[k], l, a).data = l.data
      BY <2>1, <2>2 DEF Row
    <2> QED BY <1>0, <1>2, <2>1, <2>2, <2>3 DEF Halfway
  <1>3. CASE c.name = "update_data"
    <2>1. /\ a \in {"merge_data", "read_state"} /\ k = c.to
          /\ a = "read_state" => Follows(b, c, a) = "write_row"
          /\ a = "merge_data" => Follows(b, c, a) \in {"read_state", "write_data"}
      BY <1>3 DEF Follows, update_data, set_data, Proper, PlaceOf, AtDataWrite, KeyAt
    <2>2. rs2 = rs
      BY <2>1 DEF Stored
    <2>3. CASE a = "merge_data"
      <3>1. Loaded(rs[k], l, a).data = l.data \cup rs[c.to].data
        BY <2>1, <2>3 DEF Loaded, Row
      <3> QED BY <1>0, <1>3, <2>1, <2>2, <2>3, <3>1 DEF Halfway
    <2>4. CASE a = "read_state"
      <3>1. Loaded(rs[k], l, a).state = rs[c.to].state /\ Loaded(rs[k], l, a).data = l.data
        BY <2>1, <2>4 DEF Loaded, Row
      <3> QED BY <1>0, <1>3, <2>1, <2>2, <2>4, <3>1 DEF Halfway
    <2> QED BY <2>1, <2>3, <2>4
  <1>4. CASE c.name = "clear"
    BY <1>4 DEF Follows, clear, Proper, PlaceOf
  <1>5. CASE c.name = "transition_data"
    <2>1. /\ a \in {"read_data", "merge_data", "read_state", "write_data", "write_row"}
          /\ a = "read_data" => /\ k = c.from
                                /\ Follows(b, c, a) \in {"merge_data", "read_state", "write_data"}
                                /\ c.merge = (Follows(b, c, a) = "merge_data")
          /\ a = "merge_data" => k = c.to /\ Follows(b, c, a) \in {"read_state", "write_data"} /\ c.merge
          /\ a = "read_state" => k = c.to /\ Follows(b, c, a) = "write_row"
          /\ a \in {"write_data", "write_row"} => k = c.to /\ Follows(b, c, a) = "delete" /\ c.clear
      <3>1. c.merge \in BOOLEAN /\ c.clear \in BOOLEAN
        BY <1>5, CallKinds DEF MoveCalls
      <3>2. Follows(b, c, a) = transition_data(b, c, a)
        BY <1>5 DEF Follows
      <3>3. /\ a \in {"read_data", "delete"} => k = c.from
            /\ a \notin {"read_data", "delete"} => k = c.to
        BY <1>5 DEF KeyAt
      <3>4. /\ a \in {"read_data", "merge_data", "read_state", "write_data", "write_row", "delete"}
            /\ a = "merge_data" => c.merge
        BY <1>5 DEF Proper, PlaceOf, AtDataWrite
      <3>5. set_data(b, "begin") \in {"read_state", "write_data"}
        BY DEF set_data
      <3>6. CASE a = "read_data"
        BY <3>1, <3>2, <3>3, <3>5, <3>6 DEF transition_data
      <3>7. CASE a = "merge_data"
        BY <3>2, <3>3, <3>4, <3>5, <3>7 DEF transition_data
      <3>8. CASE a = "read_state"
        BY <3>2, <3>3, <3>8 DEF transition_data, set_data
      <3>9. CASE a \in {"write_data", "write_row"}
        BY <3>1, <3>2, <3>3, <3>9 DEF transition_data, set_data, clear
      <3>10. CASE a = "delete"
        BY <3>2, <3>10 DEF transition_data, set_data
      <3> QED BY <3>4, <3>6, <3>7, <3>8, <3>9, <3>10
    <2>2. a \notin {"write_data", "write_row"} => rs2 = rs
      BY <2>1 DEF Stored
    <2>3. CASE a = "read_data"
      <3>1. Loaded(rs[k], l, a).data = rs[c.from].data
        BY <2>1, <2>3 DEF Loaded, Row
      <3>2. \A q \in KeysOf(c) : rs[q] = sp[q]
        BY <1>5, <2>3 DEF Halfway
      <3>3. CASE Follows(b, c, a) = "merge_data"
        BY <1>5, <2>2, <2>3, <3>1, <3>2, <3>3 DEF Halfway
      <3>4. CASE Follows(b, c, a) \in {"read_state", "write_data"}
        <4>1. Loaded(rs[k], l, a).data = rs[c.from].data \cup (IF c.merge THEN rs[c.to].data ELSE {})
          BY <2>1, <2>3, <3>1, <3>4
        <4> QED BY <1>5, <2>2, <2>3, <3>2, <3>4, <4>1 DEF Halfway
      <3> QED BY <2>1, <2>3, <3>3, <3>4
    <2>4. CASE a = "merge_data"
      <3>1. Loaded(rs[k], l, a).data = l.data \cup rs[c.to].data
        BY <2>1, <2>4 DEF Loaded, Row
      <3> QED BY <1>0, <1>5, <2>1, <2>2, <2>4, <3>1 DEF Halfway
    <2>5. CASE a = "read_state"
      <3>1. Loaded(rs[k], l, a).state = rs[c.to].state /\ Loaded(rs[k], l, a).data = l.data
        BY <2>1, <2>5 DEF Loaded, Row
      <3> QED BY <1>0, <1>5, <2>1, <2>2, <2>5, <3>1 DEF Halfway
    <2>6. CASE a \in {"write_data", "write_row"}
      <3>1. rs[c.to] = sp[c.to] /\ rs[c.from] = sp[c.from]
        BY <1>0, <1>5, <2>6 DEF Halfway
      <3>2. l.data = sp[c.from].data \cup (IF c.merge THEN sp[c.to].data ELSE {})
        BY <1>0, <1>5, <2>6, <3>1 DEF Halfway
      <3>3. rs2[c.to] = Stored(rs[c.to], l, a) /\ \A q \in Keys : q # c.to => rs2[q] = rs[q]
        BY <1>0, <2>1, <2>6
      <3>4. Stored(rs[c.to], l, a) = [sp[c.to] EXCEPT !.data = l.data]
        <4>1. a = "write_row" => l.state = rs[c.to].state
          BY <1>5 DEF Halfway
        <4>2. Stored(rs[c.to], l, a) = [rs[c.to] EXCEPT !.data = l.data]
          <5>1. rs[c.to] \in Row
            BY <1>0
          <5> QED BY <2>6, <4>1, <5>1, StoredData
        <4> QED BY <3>1, <4>2
      <3>5. rs2[c.to] = Specified(sp, c)[c.to]
        BY <1>0, <1>5, <3>2, <3>3, <3>4, SpecifiedMove
      <3> QED BY <1>0, <1>5, <2>1, <2>6, <3>1, <3>3, <3>5, CallKeys DEF Halfway
    <2> QED BY <2>1, <2>3, <2>4, <2>5, <2>6
  <1> QED BY <1>1, <1>2, <1>3, <1>4, <1>5, CallKinds

(* The last access of set_state, alone or of set_many_states.              *)
LEMMA StateIsSet ==
    ASSUME NEW c \in CallSet, NEW b \in Backends, NEW a, NEW l \in Row, Proper(b, c, a, l),
           NEW rs \in [Keys -> Row], NEW sp \in [Keys -> Row], Halfway(rs, sp, c, a, l),
           c.name \in {"set_state", "set_many_states"}, Follows(b, c, a) = "end"
    PROVE  /\ KeyAt(c, a) = c.to
           /\ Stored(rs[c.to], l, a) = [sp[c.to] EXCEPT !.state = StateFor(c, c.to)]
           /\ \A k \in KeysOf(c) : (k = c.to \/ (c.name = "set_many_states" /\ k \in c.left)) => rs[k] = sp[k]
  <1>0. c.to \in KeysOf(c) /\ c.to \in Keys
    BY CallKeys, AccessKey
  <1>1. a \in {"write_state", "write_row"} /\ l.state = StateFor(c, c.to)
    BY DEF Proper, PlaceOf, AtStateWrite, Follows, set_state
  <1>2. \A k \in KeysOf(c) : (k = c.to \/ (c.name = "set_many_states" /\ k \in c.left)) => rs[k] = sp[k]
    BY <1>1 DEF Halfway
  <1>3. rs[c.to] = sp[c.to]
    BY <1>0, <1>2
  <1>4. CASE a = "write_state"
    BY <1>1, <1>2, <1>3, <1>4 DEF Stored, KeyAt
  <1>5. CASE a = "write_row"
    <2>1. Stored(rs[c.to], l, a) = l /\ l.data = sp[c.to].data
      BY <1>3, <1>5 DEF Stored, Halfway
    <2>2. l = [sp[c.to] EXCEPT !.state = StateFor(c, c.to)]
      BY <1>0, <1>1, <2>1 DEF Row
    <2> QED BY <1>2, <1>5, <2>1, <2>2 DEF KeyAt
  <1> QED BY <1>1, <1>4, <1>5

(* set_many_states turns to its next key.                                  *)
LEMMA HalfwayNextKey ==
    ASSUME NEW c \in CallSet, NEW b \in Backends, NEW a, NEW l \in Row, Proper(b, c, a, l),
           NEW rs \in [Keys -> Row], NEW sp \in [Keys -> Row], Halfway(rs, sp, c, a, l),
           NEW rs2 \in [Keys -> Row], rs2 = [rs EXCEPT ![c.to] = Stored(rs[c.to], l, a)],
           c.name = "set_many_states", Follows(b, c, a) = "end",
           NEW q \in c.left, NEW m, NEW d, d = [c EXCEPT !.to = q, !.left = c.left \ {q}]
    PROVE  Halfway(rs2, sp, d, Follows(b, c, "begin"), m)
  <1>0. /\ c.to \in c.keys \ c.left /\ c.left \subseteq c.keys /\ c.keys = KeysOf(c) /\ c.keys \subseteq Keys
        /\ c \in ManyCalls
    BY CallKeys, CallKinds DEF Proper
  <1>1. /\ d \in ManyCalls /\ d.name = "set_many_states" /\ d.keys = c.keys /\ d.to = q
        /\ d.left = c.left \ {q} /\ d.states = c.states
    BY <1>0 DEF ManyCalls
  <1>2. KeysOf(d) = c.keys
    BY <1>1 DEF KeysOf
  <1>3. Follows(b, c, "begin") \in {"read_data", "write_state"}
    BY DEF Follows, set_state
  <1>4. /\ rs2[c.to] = [sp[c.to] EXCEPT !.state = StateFor(c, c.to)]
        /\ \A k \in Keys : k # c.to => rs2[k] = rs[k]
    BY <1>0, StateIsSet
  <1>5. \A k \in c.left : rs2[k] = sp[k]
    BY <1>0, <1>4, StateIsSet
  <1>6. \A k \in c.keys \ c.left : rs2[k] = [sp[k] EXCEPT !.state = c.states[k]]
    BY <1>0, <1>4 DEF Halfway, StateFor
  <1> HIDE DEF Follows
  <1> QED BY <1>0, <1>1, <1>2, <1>3, <1>5, <1>6 DEF Halfway

(* A call that was alone leaves the rows of its keys as specified.         *)
LEMMA HalfwayEnds ==
    ASSUME NEW c \in CallSet, NEW b \in Backends, NEW a, NEW l \in Row, Proper(b, c, a, l),
           NEW rs \in [Keys -> Row], NEW sp \in [Keys -> Row], Halfway(rs, sp, c, a, l),
           NEW rs2 \in [Keys -> Row], NEW k \in Keys, k = KeyAt(c, a),
           rs2 = [rs EXCEPT ![k] = Stored(rs[k], l, a)],
           Follows(b, c, a) = "end", c.name = "set_many_states" => c.left = {}, NEW q \in KeysOf(c)
    PROVE  rs2[q] = Specified(sp, c)[q]
  <1>0. /\ c.to \in KeysOf(c) /\ c.to \in Keys /\ KeysOf(c) \subseteq Keys
        /\ c.name = "transition_data" => c.from \in Keys /\ c.from # c.to /\ KeysOf(c) = {c.from, c.to}
        /\ c.name = "set_many_states" => c.keys = KeysOf(c) /\ c.to \in c.keys
        /\ c.name \in {"set_state", "set_data", "update_data", "clear"} => KeysOf(c) = {c.to}
    BY CallKeys, AccessKey DEF Proper
  <1>s. rs2[k] = Stored(rs[k], l, a) /\ \A p \in Keys : p # k => rs2[p] = rs[p]
    OBVIOUS
  <1>1. CASE c.name = "set_state"
    <2>1. k = c.to /\ Stored(rs[c.to], l, a) = [sp[c.to] EXCEPT !.state = StateFor(c, c.to)]
      BY <1>1, StateIsSet
    <2>2. Specified(sp, c)[c.to] = [sp[c.to] EXCEPT !.state = StateFor(c, c.to)]
      BY <1>0, <1>1, SpecifiedState
    <2> QED BY <1>0, <1>1, <1>s, <2>1, <2>2
  <1>2. CASE c.name = "set_many_states"
    <2>1. k = c.to /\ Stored(rs[c.to], l, a) = [sp[c.to] EXCEPT !.state = StateFor(c, c.to)]
      BY <1>2, StateIsSet
    <2>2. \A p \in c.keys : rs2[p] = [sp[p] EXCEPT !.state = c.states[p]]
      BY <1>0, <1>2, <1>s, <2>1 DEF Halfway, StateFor
    <2>3. Specified(sp, c)[q] = [sp[q] EXCEPT !.state = c.states[q]]
      <3>1. \A p \in KeysOf(c) : Specified(sp, c)[p] = [sp[p] EXCEPT !.state = StateFor(c, p)]
        BY <1>2, SpecifiedState
      <3>2. StateFor(c, q) = c.states[q]
        BY <1>2 DEF StateFor
      <3> QED BY <3>1, <3>2
    <2> QED BY <1>0, <1>2, <2>2, <2>3
  <1>3. CASE c.name \in {"set_data", "update_data"}
    <2>1. a \in {"write_data", "write_row"} /\ k = c.to
      BY <1>3 DEF Proper, PlaceOf, AtDataWrite, Follows, set_data, update_data, KeyAt
    <2>2. rs[c.to] = sp[c.to] /\ (a = "write_row" => l.state = sp[c.to].state)
      BY <1>0, <1>3 DEF Halfway
    <2>3. Stored(rs[c.to], l, a) = [sp[c.to] EXCEPT !.data = l.data]
      <3>1. rs[c.to] \in Row
        BY <1>0
      <3>2. Stored(rs[c.to], l, a) = [rs[c.to] EXCEPT !.data = l.data]
        BY <2>1, <2>2, <3>1, StoredData
      <3> QED BY <2>2, <3>2
    <2>4. l.data = IF c.name = "set_data" THEN c.data ELSE sp[c.to].data \cup c.data
      BY <1>3, <2>1, <2>2 DEF Halfway
    <2>5. Specified(sp, c)[c.to] = [sp[c.to] EXCEPT !.data = l.data]
      <3> DEFINE d == l.data
      <3>1. d = IF c.name = "set_data" THEN c.data ELSE sp[c.to].data \cup c.data
        BY <2>4
      <3> HIDE DEF d
      <3>2. Specified(sp, c)[c.to] = [sp[c.to] EXCEPT !.data = d]
        BY <1>3, <3>1, SpecifiedData
      <3> QED BY <3>2 DEF d
    <2> QED BY <1>0, <1>3, <1>s, <2>1, <2>3, <2>5
  <1>4. CASE c.name = "clear"
    <2>1. a = "delete" /\ k = c.to
      BY <1>4 DEF Proper, PlaceOf, KeyAt
    <2>2. Specified(sp, c)[c.to] = Empty
      BY <1>4, SpecifiedClear
    <2>3. rs2[c.to] = Empty
      BY <1>s, <2>1 DEF Stored
    <2> QED BY <1>0, <1>4, <2>2, <2>3
  <1>5. CASE c.name = "transition_data"
    <2>0. c.merge \in BOOLEAN /\ c.clear \in BOOLEAN
      BY <1>5, CallKinds DEF MoveCalls
    <2>1. \/ a \in {"write_data", "write_row"} /\ k = c.to /\ ~c.clear
          \/ a = "delete" /\ k = c.from /\ c.clear
      BY <1>5, <2>0 DEF Proper, PlaceOf, AtDataWrite, Follows, transition_data, set_data, clear, KeyAt
    <2>2. rs[c.from] = sp[c.from]
      BY <1>0, <1>5 DEF Halfway
    <2>3. Specified(sp, c)[c.from] = IF c.clear THEN Empty ELSE sp[c.from]
      BY <1>0, <1>5, SpecifiedSource
    <2>4. CASE a = "delete"
      <3>1. rs[c.to] = Specified(sp, c)[c.to]
        BY <1>5, <2>4 DEF Halfway
      <3> QED BY <1>0, <1>5, <1>s, <2>1, <2>3, <2>4, <3>1 DEF Stored
    <2>5. CASE a \in {"write_data", "write_row"}
      <3>1. rs[c.to] = sp[c.to] /\ (a = "write_row" => l.state = sp[c.to].state)
        BY <1>0, <1>5, <2>5 DEF Halfway
      <3>2. l.data = sp[c.from].data \cup (IF c.merge THEN sp[c.to].data ELSE {})
        BY <1>0, <1>5, <2>2, <2>5, <3>1 DEF Halfway
      <3>3. Stored(rs[c.to], l, a) = [sp[c.to] EXCEPT !.data = l.data]
        <4>1. rs[c.to] \in Row
          BY <1>0
        <4>2. Stored(rs[c.to], l, a) = [rs[c.to] EXCEPT !.data = l.data]
          BY <2>5, <3>1, <4>1, StoredData
        <4> QED BY <3>1, <4>2
      <3>4. rs2[c.to] = Specified(sp, c)[c.to]
        BY <1>0, <1>5, <1>s, <2>1, <2>5, <3>2, <3>3, SpecifiedMove
      <3> QED BY <1>0, <1>5, <1>s, <2>1, <2>2, <2>3, <2>5, <3>4
    <2> QED BY <2>1, <2>4, <2>5
  <1> QED BY <1>1, <1>2, <1>3, <1>4, <1>5, CallKinds

-----------------------------------------------------------------------------
(* The steps.                                                              *)

(* The tables and the calls, one by one.                                   *)
LEMMA StorageTypes ==
    ASSUME StorageTypeOK
    PROVE  /\ backend \in Backends /\ rows \in [Keys -> Row] /\ spec \in [Keys -> Row]
           /\ snap \in [Keys -> Row] /\ taken \in [Keys -> Row]
           /\ call \in [Callers -> CallSet \cup {NoCall}] /\ loc \in [Callers -> Row]
           /\ \A t \in Callers : /\ loc[t] \in Row
                                 /\ call[t] # NoCall => call[t] \in CallSet
                                 /\ KeysOf(call[t]) \subseteq Keys
  BY CallKeys, NoCallKeys DEF StorageTypeOK

(* A call begins.                                                          *)
LEMMA CallsTypes ==
    ASSUME StorageTypeOK, NEW t \in Callers, NEW c \in FirstCalls, Calls(t, c)
    PROVE  StorageTypeOK'
  <1>1. c \in CallSet /\ Follows(backend, c, "begin") \in Accesses /\ Arguments(c) \in Row
    BY ProperBegins, Order, ArgumentTypes, StorageTypes
  <1>2. call' \in [Callers -> CallSet \cup {NoCall}] /\ at' \in [Callers -> Accesses \cup {"end"}]
        /\ loc' \in [Callers -> Row]
    BY <1>1 DEF Calls, StorageTypeOK
  <1>3. calls' \in 0 .. MaxCalls
    BY StorageAssumption DEF Calls, StorageTypeOK
  <1>4. tainted' \subseteq Keys
    <2>1. KeysOf(c) \subseteq Keys /\ \A u \in Callers : KeysOf(call[u]) \subseteq Keys
      BY <1>1, CallKeys, StorageTypes
    <2> QED BY <2>1 DEF Calls, StorageTypeOK
  <1> QED BY <1>2, <1>3, <1>4 DEF Calls, StorageTypeOK

(* An access: the row of one key of the call changes, and a state asked    *)
(* for reaches it.                                                         *)
LEMMA Reached ==
    ASSUME StorageTypeOK, CallsAreProper, NEW t \in Callers, call[t] # NoCall, NEW k,
           k = KeyAt(call[t], at[t]), Reaches(t, k)
    PROVE  /\ k \in Keys /\ k \in KeysOf(call[t])
           /\ rows' \in [Keys -> Row]
           /\ rows' = [rows EXCEPT ![k] = Stored(rows[k], loc[t], at[t])]
           /\ rows'[k] = Stored(rows[k], loc[t], at[t])
           /\ \A q \in Keys : q # k => rows'[q] = rows[q] /\ asked'[q] = asked[q]
           /\ asked' \in [Keys -> States \cup {NoState}] /\ snap' \in [Keys -> Row]
           /\ shared' \subseteq Keys /\ newer' \subseteq Keys
  <1>0. call[t] \in CallSet /\ loc[t] \in Row /\ Proper(backend, call[t], at[t], loc[t])
    BY StorageTypes DEF CallsAreProper
  <1>1. k \in KeysOf(call[t]) /\ k \in Keys
    BY <1>0, AccessKey, CallKeys
  <1>2. Stored(rows[k], loc[t], at[t]) \in Row
    BY <1>0, <1>1, AccessTypes, StorageTypes
  <1>3. rows' = [rows EXCEPT ![k] = Stored(rows[k], loc[t], at[t])]
    BY DEF Reaches
  <1>4. /\ rows' \in [Keys -> Row] /\ rows'[k] = Stored(rows[k], loc[t], at[t])
        /\ \A q \in Keys : q # k => rows'[q] = rows[q]
    BY <1>1, <1>2, <1>3, StorageTypes
  <1>5. /\ asked' \in [Keys -> States \cup {NoState}]
        /\ \A q \in Keys : q # k => asked'[q] = asked[q]
    <2>1. call[t].name \in {"set_state", "set_many_states"} => StateFor(call[t], k) \in States \cup {NoState}
      BY <1>0, <1>1, CallKinds DEF StateFor, StateCalls, ManyCalls
    <2> QED BY <1>1, <2>1 DEF Reaches, StorageTypeOK
  <1>6. snap' \in [Keys -> Row]
    <2>1. [snap EXCEPT ![k].data = loc[t].data] \in [Keys -> Row]
      <3>1. [snap[k] EXCEPT !.data = loc[t].data] \in Row
        BY <1>0, <1>1, StorageTypes DEF Row
      <3> QED BY <1>1, <3>1, StorageTypes
    <2> QED BY <2>1, StorageTypes DEF Reaches
  <1>7. shared' \subseteq Keys /\ newer' \subseteq Keys
    BY <1>1 DEF Reaches, StorageTypeOK
  <1> QED BY <1>1, <1>3, <1>4, <1>5, <1>6, <1>7

(* Where a call goes after an access: its keys are the same, or it is      *)
(* over.                                                                   *)
LEMMA WentOn ==
    ASSUME StorageTypeOK, CallsAreProper, NEW t \in Callers, call[t] # NoCall, GoesOn(t)
    PROVE  /\ call' = call /\ spec' = spec
           /\ at' = [at EXCEPT ![t] = Follows(backend, call[t], at[t])]
           /\ loc' = [loc EXCEPT ![t] = Loaded(rows[KeyAt(call[t], at[t])], loc[t], at[t])]
           /\ Follows(backend, call[t], at[t]) \in Accesses
           /\ Loaded(rows[KeyAt(call[t], at[t])], loc[t], at[t]) \in Row
           /\ Proper(backend, call[t], Follows(backend, call[t], at[t]),
                     Loaded(rows[KeyAt(call[t], at[t])], loc[t], at[t]))
  <1> DEFINE c == call[t]
             f == Follows(backend, c, at[t])
             k == KeyAt(c, at[t])
             l == Loaded(rows[k], loc[t], at[t])
  <1>0. c \in CallSet /\ loc[t] \in Row /\ Proper(backend, c, at[t], loc[t]) /\ backend \in Backends
    BY StorageTypes DEF CallsAreProper
  <1>1. k \in Keys /\ rows[k] \in Row
    BY <1>0, AccessKey, CallKeys, StorageTypes
  <1>2. l \in Row
    BY <1>0, <1>1, AccessTypes
  <1>3. f \in Accesses /\ PlaceOf(backend, c, f)
    BY <1>0, Order DEF GoesOn, Proper
  <1>4. c.name \in {"set_state", "set_many_states"} => l.state = StateFor(c, c.to)
    <2> SUFFICES ASSUME c.name \in {"set_state", "set_many_states"} PROVE l.state = StateFor(c, c.to)
      OBVIOUS
    <2>1. at[t] # "read_state" /\ loc[t].state = StateFor(c, c.to)
      BY <1>0 DEF Proper, PlaceOf, AtStateWrite
    <2>2. l.state = loc[t].state
      BY <1>0, <1>1, <2>1 DEF Loaded, Row
    <2> QED BY <2>1, <2>2
  <1>5. Proper(backend, c, f, l)
    <2> HIDE DEF f, l
    <2> QED BY <1>0, <1>3, <1>4 DEF Proper
  <1> QED BY <1>2, <1>3, <1>5 DEF GoesOn

LEMMA WentToNext ==
    ASSUME StorageTypeOK, CallsAreProper, NEW t \in Callers, call[t] # NoCall, set_many_states(t)
    PROVE  \E k \in call[t].left :
             /\ call[t].name = "set_many_states" /\ Follows(backend, call[t], at[t]) = "end"
             /\ call' = [call EXCEPT ![t] = [call[t] EXCEPT !.to = k, !.left = call[t].left \ {k}]]
             /\ [call[t] EXCEPT !.to = k, !.left = call[t].left \ {k}] \in CallSet
             /\ KeysOf([call[t] EXCEPT !.to = k, !.left = call[t].left \ {k}]) = KeysOf(call[t])
             /\ at' = [at EXCEPT ![t] = Follows(backend, call[t], "begin")]
             /\ Follows(backend, call[t], "begin") \in Accesses
             /\ loc' = [loc EXCEPT ![t] = [loc[t] EXCEPT !.state = StateFor(call[t], k)]] /\ spec' = spec
             /\ [loc[t] EXCEPT !.state = StateFor(call[t], k)] \in Row
             /\ Proper(backend, [call[t] EXCEPT !.to = k, !.left = call[t].left \ {k}],
                       Follows(backend, call[t], "begin"), [loc[t] EXCEPT !.state = StateFor(call[t], k)])
  <1> DEFINE c == call[t]
             f == Follows(backend, c, "begin")
  <1>0. c \in CallSet /\ loc[t] \in Row /\ Proper(backend, c, at[t], loc[t]) /\ backend \in Backends
    BY StorageTypes DEF CallsAreProper
  <1>1. c.name = "set_many_states" /\ c \in ManyCalls
    BY <1>0, CallKinds DEF set_many_states, ManyLeft
  <1>2. PICK k \in c.left : /\ call' = [call EXCEPT ![t].to = k, ![t].left = @ \ {k}]
                            /\ loc' = [loc EXCEPT ![t].state = StateFor(c, k)]
    BY DEF set_many_states
  <1> DEFINE d == [c EXCEPT !.to = k, !.left = c.left \ {k}]
             m == [loc[t] EXCEPT !.state = StateFor(c, k)]
  <1>3. call' = [call EXCEPT ![t] = d]
    BY <1>2, StorageTypes
  <1>4. c.to \in c.keys \ c.left /\ c.left \subseteq c.keys
    BY <1>0, <1>1 DEF Proper
  <1>5. /\ d \in ManyCalls /\ d.name = "set_many_states" /\ d.keys = c.keys /\ d.to = k
        /\ d.left = c.left \ {k} /\ d.states = c.states
    BY <1>1, <1>4 DEF ManyCalls
  <1>6. d \in CallSet /\ KeysOf(d) = KeysOf(c)
    <2>1. d \in CallSet
      BY <1>5 DEF CallSet
    <2> QED BY <1>0, <1>1, <1>5, <2>1, CallKeys
  <1>7. f \in Accesses /\ PlaceOf(backend, c, f)
    BY <1>0, Order
  <1>8. PlaceOf(backend, d, f)
    BY <1>1, <1>5, <1>7 DEF PlaceOf
  <1>9. m \in Row /\ m.state = StateFor(d, d.to) /\ loc' = [loc EXCEPT ![t] = m]
    <2>1. StateFor(c, k) = c.states[k] /\ StateFor(d, d.to) = c.states[k]
      BY <1>1, <1>5 DEF StateFor
    <2>2. c.states[k] \in States \cup {NoState}
      BY <1>1, <1>4 DEF ManyCalls
    <2> QED BY <1>0, <1>2, <2>1, <2>2, StorageTypes DEF Row
  <1>10. Proper(backend, d, f, m)
    <2> HIDE DEF d, f, m
    <2> QED BY <1>4, <1>5, <1>8, <1>9 DEF Proper
  <1>11. Follows(backend, c, at[t]) = "end" /\ at' = [at EXCEPT ![t] = f] /\ spec' = spec
    BY DEF set_many_states
  <1> QED BY <1>1, <1>3, <1>6, <1>7, <1>9, <1>10, <1>11

LEMMA CallEnded ==
    ASSUME StorageTypeOK, CallsAreProper, NEW t \in Callers, call[t] # NoCall, CallReturns(t)
    PROVE  /\ call' = [call EXCEPT ![t] = NoCall] /\ at' = [at EXCEPT ![t] = "end"]
           /\ loc' = [loc EXCEPT ![t] = Empty]
           /\ spec' = Specified(spec, call[t]) /\ spec' \in [Keys -> Row]
           /\ \A q \in Keys \ KeysOf(call[t]) : spec'[q] = spec[q]
           /\ Follows(backend, call[t], at[t]) = "end"
           /\ call[t].name = "set_many_states" => call[t].left = {}
  <1>0. call[t] \in CallSet /\ Proper(backend, call[t], at[t], loc[t]) /\ spec \in [Keys -> Row]
    BY StorageTypes DEF CallsAreProper
  <1>1. call[t].name = "transition_data" => call[t].from # call[t].to
    BY <1>0 DEF Proper
  <1>2. /\ Specified(spec, call[t]) \in [Keys -> Row]
        /\ \A q \in Keys \ KeysOf(call[t]) : Specified(spec, call[t])[q] = spec[q]
    BY <1>0, <1>1, SpecifiedRows
  <1>3. spec' = Specified(spec, call[t])
    BY DEF CallReturns
  <1> QED BY <1>2, <1>3 DEF CallReturns, ManyLeft

(* After an access every call has the keys it had or none, the call of the *)
(* task the same or none, and it is where it can be.                       *)
LEMMA AccessMoves ==
    ASSUME StorageTypeOK, CallsAreProper, NEW t \in Callers, Accessing(t)
    PROVE  /\ StorageTypeOK' /\ CallsAreProper'
           /\ \A u \in Callers : u # t => call'[u] = call[u] /\ at'[u] = at[u] /\ loc'[u] = loc[u]
           /\ KeysOf(call'[t]) = KeysOf(call[t]) \/ (CallReturns(t) /\ call'[t] = NoCall)
           /\ \A q \in Keys \ KeysOf(call[t]) : rows'[q] = rows[q] /\ spec'[q] = spec[q]
           /\ tainted' = tainted
  <1> DEFINE c == call[t]
             k == KeyAt(c, at[t])
  <1>0. /\ c # NoCall /\ Reaches(t, k) /\ tainted' = tainted
        /\ backend' = backend /\ calls' = calls /\ raised' = raised /\ taken' = taken
    BY DEF Accessing
  <1>t. /\ at \in [Callers -> Accesses \cup {"end"}] /\ loc \in [Callers -> Row]
        /\ call \in [Callers -> CallSet \cup {NoCall}] /\ spec \in [Keys -> Row] /\ KeysOf(c) \subseteq Keys
    BY StorageTypes DEF StorageTypeOK
  <1>1. /\ rows' \in [Keys -> Row] /\ k \in KeysOf(c)
        /\ asked' \in [Keys -> States \cup {NoState}] /\ snap' \in [Keys -> Row]
        /\ shared' \subseteq Keys /\ newer' \subseteq Keys
        /\ \A q \in Keys \ KeysOf(c) : rows'[q] = rows[q]
    BY <1>0, Reached
  <1>2. /\ call' \in [Callers -> CallSet \cup {NoCall}] /\ at' \in [Callers -> Accesses \cup {"end"}]
        /\ loc' \in [Callers -> Row] /\ spec' \in [Keys -> Row]
        /\ \A u \in Callers : u # t => call'[u] = call[u] /\ at'[u] = at[u] /\ loc'[u] = loc[u]
        /\ Proper(backend, call'[t], at'[t], loc'[t])
        /\ KeysOf(call'[t]) = KeysOf(c) \/ (CallReturns(t) /\ call'[t] = NoCall)
        /\ \A q \in Keys \ KeysOf(c) : spec'[q] = spec[q]
    <2>1. CASE GoesOn(t)
      BY <1>0, <1>t, <2>1, WentOn
    <2>2. CASE set_many_states(t)
      <3> DEFINE f == Follows(backend, c, "begin")
      <3>1. \E d \in CallSet, m \in Row :
              /\ call' = [call EXCEPT ![t] = d] /\ KeysOf(d) = KeysOf(c)
              /\ at' = [at EXCEPT ![t] = f] /\ f \in Accesses
              /\ loc' = [loc EXCEPT ![t] = m] /\ spec' = spec
              /\ Proper(backend, d, f, m)
        BY <1>0, <2>2, WentToNext
      <3> HIDE DEF f
      <3> QED BY <1>t, <3>1
    <2>3. CASE CallReturns(t)
      <3>1. Proper(backend, NoCall, "end", Empty)
        BY NoCallKeys DEF Proper, PlaceOf
      <3>2. /\ call' = [call EXCEPT ![t] = NoCall] /\ at' = [at EXCEPT ![t] = "end"]
            /\ loc' = [loc EXCEPT ![t] = Empty] /\ spec' \in [Keys -> Row]
            /\ \A q \in Keys \ KeysOf(c) : spec'[q] = spec[q]
        BY <1>0, <2>3, CallEnded
      <3>3. Empty \in Row
        BY RowShape
      <3> QED BY <1>t, <2>3, <3>1, <3>2, <3>3
    <2> QED BY <2>1, <2>2, <2>3 DEF Accessing
  <1>3. StorageTypeOK'
    BY <1>0, <1>1, <1>2 DEF StorageTypeOK
  <1>4. CallsAreProper'
    BY <1>0, <1>2 DEF CallsAreProper
  <1> QED BY <1>0, <1>1, <1>2, <1>3, <1>4

(* The keys of calls that overlap stay tainted when calls end.             *)
LEMMA FewerKeys ==
    ASSUME OverlapTaints, tainted \subseteq tainted', NEW t \in Callers,
           \A u \in Callers : u # t => call'[u] = call[u],
           KeysOf(call'[t]) \in {KeysOf(call[t]), {}},
           tainted' \in {tainted, tainted \cup KeysOf(call[t])},
           tainted' # tainted => KeysOf(call'[t]) = {}
    PROVE  OverlapTaints'
  <1>1. ASSUME NEW u \in Callers, KeysOf(call'[u]) \cap tainted' # {}
        PROVE  KeysOf(call'[u]) \subseteq tainted'
    <2>1. CASE u = t
      BY <1>1, <2>1 DEF OverlapTaints
    <2>2. CASE u # t
      <3>1. KeysOf(call'[u]) = KeysOf(call[u])
        BY <2>2
      <3>2. CASE KeysOf(call[u]) \cap tainted # {}
        BY <3>1, <3>2 DEF OverlapTaints
      <3>3. CASE KeysOf(call[u]) \cap KeysOf(call[t]) # {}
        BY <2>2, <3>1, <3>3 DEF OverlapTaints
      <3> QED BY <1>1, <3>1, <3>2, <3>3
    <2> QED BY <2>1, <2>2
  <1>2. ASSUME NEW u \in Callers, NEW v \in Callers, u # v,
               KeysOf(call'[u]) \cap KeysOf(call'[v]) # {}
        PROVE  KeysOf(call'[u]) \subseteq tainted'
    <2>1. KeysOf(call'[u]) = KeysOf(call[u]) /\ KeysOf(call'[v]) = KeysOf(call[v])
      BY <1>2
    <2>2. KeysOf(call[u]) \subseteq tainted
      BY <1>2, <2>1 DEF OverlapTaints
    <2> QED BY <2>1, <2>2
  <1> QED BY <1>1, <1>2 DEF OverlapTaints

(* The state of a key with a place of its own follows what is asked.       *)
LEMMA AccessKeepsState ==
    ASSUME StorageTypeOK, CallsAreProper, StateSurvives, NEW t \in Callers,
           call[t] # NoCall, Reaches(t, KeyAt(call[t], at[t])), backend' = backend
    PROVE  StateSurvives'
  <1> DEFINE c == call[t]
             k == KeyAt(c, at[t])
             a == at[t]
  <1>0. /\ c # NoCall /\ c \in CallSet /\ Reaches(t, k) /\ Proper(backend, c, a, loc[t])
        /\ backend' = backend /\ rows \in [Keys -> Row] /\ loc[t] \in Row
    BY StorageTypes DEF CallsAreProper
  <1>1. /\ k \in Keys /\ rows'[k] = Stored(rows[k], loc[t], a)
        /\ \A q \in Keys : q # k => rows'[q] = rows[q] /\ asked'[q] = asked[q]
    BY <1>0, Reached
  <1> SUFFICES ASSUME backend \in FieldBackends PROVE rows'[k].state = asked'[k]
    BY <1>0, <1>1 DEF StateSurvives
  <1>2. rows[k].state = asked[k] /\ rows[k] \in Row
    BY <1>0, <1>1 DEF StateSurvives
  <1>3. asked'[k] = IF a = "delete" THEN NoState
                    ELSE IF c.name \in {"set_state", "set_many_states"} /\ a # "read_data"
                    THEN StateFor(c, k) ELSE asked[k]
    BY <1>0, <1>1 DEF Reaches, StorageTypeOK
  <1>4. CASE c.name \in {"set_state", "set_many_states"}
    <2>1. a = "write_state" /\ loc[t].state = StateFor(c, k)
      BY <1>0, <1>4 DEF Proper, PlaceOf, AtStateWrite, FieldBackends, RowBackends, KeyAt
    <2>2. rows'[k].state = loc[t].state
      BY <1>1, <1>2, <2>1 DEF Stored, Row
    <2> QED BY <1>3, <1>4, <2>1, <2>2
  <1>5. CASE c.name \notin {"set_state", "set_many_states"}
    <2>1. a \notin {"write_state", "write_row"}
      BY <1>0, <1>5, CallKinds DEF Proper, PlaceOf, AtDataWrite, FieldBackends, RowBackends
    <2>2. CASE a = "delete"
      BY <1>1, <1>3, <2>2 DEF Stored, Empty
    <2>3. CASE a # "delete"
      <3>1. rows'[k].state = rows[k].state
        BY <1>0, <1>1, <1>2, <2>1, <2>3 DEF Stored, Row
      <3> QED BY <1>2, <1>3, <1>5, <2>3, <3>1
    <2> QED BY <2>2, <2>3
  <1> QED BY <1>4, <1>5

(* A call begins: the invariant holds on.                                  *)
LEMMA CallsKeep ==
    ASSUME RowsAsAsked, NEW t \in Callers, NEW c \in FirstCalls, Calls(t, c)
    PROVE  RowsAsAsked'
  <1> DEFINE others == {u \in Callers : KeysOf(call[u]) \cap KeysOf(c) # {}}
             f == Follows(backend, c, "begin")
  <1>0. /\ StorageTypeOK /\ CallsAreProper /\ OverlapTaints /\ AloneIsHalfway
        /\ CallsAreAtomic /\ StateSurvives
    BY DEF RowsAsAsked
  <1>1. /\ call[t] = NoCall /\ rows' = rows /\ spec' = spec /\ backend' = backend /\ asked' = asked
        /\ tainted' = IF others = {} /\ KeysOf(c) \cap tainted = {} THEN tainted
                      ELSE tainted \cup KeysOf(c) \cup UNION {KeysOf(call[u]) : u \in others}
    BY DEF Calls
  <1>2. /\ call'[t] = c /\ at'[t] = f /\ loc'[t] = Arguments(c)
        /\ \A u \in Callers : u # t => call'[u] = call[u] /\ at'[u] = at[u] /\ loc'[u] = loc[u]
    BY <1>0 DEF Calls, StorageTypeOK
  <1>3. c \in CallSet /\ Proper(backend, c, f, Arguments(c)) /\ KeysOf(c) # {} /\ KeysOf(c) \subseteq Keys
    BY <1>0, ProperBegins, AccessKey, CallKeys, StorageTypes
  <1> HIDE DEF others, f
  <1>4. StorageTypeOK'
    BY <1>0, CallsTypes
  <1>5. CallsAreProper'
    BY <1>0, <1>1, <1>2, <1>3 DEF CallsAreProper
  <1>6. tainted \subseteq tainted' /\ KeysOf(call[t]) = {}
    BY <1>1, NoCallKeys
  <1>7. OverlapTaints'
    <2>1. CASE others = {} /\ KeysOf(c) \cap tainted = {}
      <3>1. tainted' = tainted /\ \A u \in Callers : KeysOf(call[u]) \cap KeysOf(c) = {}
        BY <1>1, <2>1 DEF others
      <3> QED BY <1>0, <1>2, <2>1, <3>1 DEF OverlapTaints
    <2>2. CASE ~(others = {} /\ KeysOf(c) \cap tainted = {})
      <3>1. tainted' = tainted \cup KeysOf(c) \cup UNION {KeysOf(call[u]) : u \in others}
        BY <1>1, <2>2
      <3>2. /\ KeysOf(c) \subseteq tainted'
            /\ \A u \in Callers : KeysOf(call[u]) \cap KeysOf(c) # {} => KeysOf(call[u]) \subseteq tainted'
        BY <3>1 DEF others
      <3>3. ASSUME NEW u \in Callers, KeysOf(call'[u]) \cap tainted' # {}
            PROVE  KeysOf(call'[u]) \subseteq tainted'
        <4>1. CASE u = t
          BY <1>2, <3>2, <4>1
        <4>2. CASE u # t /\ KeysOf(call[u]) \cap KeysOf(c) # {}
          BY <1>2, <3>2, <4>2
        <4>3. CASE u # t /\ KeysOf(call[u]) \cap KeysOf(c) = {}
          <5>1. PICK q \in KeysOf(call[u]) : q \in tainted'
            BY <1>2, <3>3, <4>3
          <5>2. CASE q \in tainted
            BY <1>0, <1>2, <1>6, <4>3, <5>1, <5>2 DEF OverlapTaints
          <5>3. CASE q \notin tainted
            <6>1. PICK v \in others : q \in KeysOf(call[v])
              BY <3>1, <4>3, <5>1, <5>3
            <6>2. v \in Callers /\ v # u
              BY <4>3 DEF others
            <6> QED BY <1>0, <1>2, <1>6, <4>3, <5>1, <6>1, <6>2 DEF OverlapTaints
          <5> QED BY <5>2, <5>3
        <4> QED BY <4>1, <4>2, <4>3
      <3>4. ASSUME NEW u \in Callers, NEW v \in Callers, u # v, KeysOf(call'[u]) \cap KeysOf(call'[v]) # {}
            PROVE  KeysOf(call'[u]) \subseteq tainted'
        <4>1. CASE u = t
          BY <1>2, <3>2, <4>1
        <4>2. CASE v = t
          BY <1>2, <3>2, <3>4, <4>2
        <4>3. CASE u # t /\ v # t
          BY <1>0, <1>2, <1>6, <3>4, <4>3 DEF OverlapTaints
        <4> QED BY <4>1, <4>2, <4>3
      <3> QED BY <3>3, <3>4 DEF OverlapTaints
    <2> QED BY <2>1, <2>2
  <1>8. AloneIsHalfway'
    <2> SUFFICES ASSUME NEW u \in Callers, call'[u] # NoCall, KeysOf(call'[u]) \cap tainted' = {}
                 PROVE  Halfway(rows, spec, call'[u], at'[u], loc'[u])
      BY <1>1 DEF AloneIsHalfway
    <2>1. CASE u # t
      BY <1>0, <1>2, <1>6, <2>1 DEF AloneIsHalfway
    <2>2. CASE u = t
      <3>1. others = {} /\ KeysOf(c) \cap tainted = {}
        BY <1>1, <1>2, <1>3, <2>2
      <3>2. \A k \in KeysOf(c) : rows[k] = spec[k]
        BY <1>0, <1>3, <3>1 DEF others, CallsAreAtomic
      <3>3. rows \in [Keys -> Row] /\ spec \in [Keys -> Row] /\ backend \in Backends
        BY <1>0, StorageTypes
      <3>4. Halfway(rows, spec, c, f, Arguments(c))
        BY <3>2, <3>3, HalfwayBegins DEF f
      <3> QED BY <1>2, <2>2, <3>4
    <2> QED BY <2>1, <2>2
  <1>9. CallsAreAtomic'
    BY <1>0, <1>1, <1>2, <1>6, NoCallKeys DEF CallsAreAtomic
  <1>10. StateSurvives'
    BY <1>0, <1>1 DEF StateSurvives
  <1> QED BY <1>4, <1>5, <1>7, <1>8, <1>9, <1>10 DEF RowsAsAsked

(* An access: the invariant holds on.                                      *)
LEMMA AccessKeeps ==
    ASSUME RowsAsAsked, NEW t \in Callers, Accessing(t)
    PROVE  RowsAsAsked'
  <1> DEFINE c == call[t]
             k == KeyAt(c, at[t])
  <1>0. /\ StorageTypeOK /\ CallsAreProper /\ OverlapTaints /\ AloneIsHalfway
        /\ CallsAreAtomic /\ StateSurvives
    BY DEF RowsAsAsked
  <1>1. /\ c # NoCall /\ c \in CallSet /\ Reaches(t, k) /\ Proper(backend, c, at[t], loc[t])
        /\ backend \in Backends /\ rows \in [Keys -> Row] /\ spec \in [Keys -> Row] /\ loc[t] \in Row
    BY <1>0, StorageTypes DEF Accessing, CallsAreProper
  <1>2. /\ StorageTypeOK' /\ CallsAreProper'
        /\ \A u \in Callers : u # t => call'[u] = call[u] /\ at'[u] = at[u] /\ loc'[u] = loc[u]
        /\ KeysOf(call'[t]) = KeysOf(c) \/ (CallReturns(t) /\ call'[t] = NoCall)
        /\ \A q \in Keys \ KeysOf(c) : rows'[q] = rows[q] /\ spec'[q] = spec[q]
        /\ tainted' = tainted
    BY <1>0, AccessMoves
  <1>3. /\ k \in Keys /\ rows' \in [Keys -> Row]
        /\ rows' = [rows EXCEPT ![k] = Stored(rows[k], loc[t], at[t])]
    BY <1>0, <1>1, Reached
  <1>4. spec' \in [Keys -> Row]
    BY <1>2 DEF StorageTypeOK
  <1>5. OverlapTaints'
    BY <1>0, <1>2, FewerKeys, NoCallKeys
  <1>6. ASSUME NEW u \in Callers, call'[u] # NoCall, KeysOf(call'[u]) \cap tainted' = {}
        PROVE  Halfway(rows', spec', call'[u], at'[u], loc'[u])
    <2>1. CASE u # t
      <3>1. call'[u] = call[u] /\ at'[u] = at[u] /\ loc'[u] = loc[u] /\ KeysOf(call[u]) \cap tainted = {}
        BY <1>2, <1>6, <2>1
      <3>2. /\ call[u] \in CallSet /\ Proper(backend, call[u], at[u], loc[u])
            /\ Halfway(rows, spec, call[u], at[u], loc[u]) /\ KeysOf(call[u]) \subseteq Keys
        BY <1>0, <1>6, <3>1, StorageTypes DEF CallsAreProper, AloneIsHalfway
      <3>3. KeysOf(call[u]) \cap KeysOf(c) = {}
        BY <1>0, <2>1, <3>1 DEF OverlapTaints
      <3>4. \A q \in KeysOf(call[u]) : rows'[q] = rows[q] /\ spec'[q] = spec[q]
        BY <1>2, <3>2, <3>3
      <3>5. Halfway(rows', spec', call[u], at[u], loc[u])
        <4> DEFINE d == call[u]
                   rs2 == rows'
                   sp2 == spec'
        <4>1. /\ d \in CallSet /\ Proper(backend, d, at[u], loc[u]) /\ Halfway(rows, spec, d, at[u], loc[u])
              /\ rs2 \in [Keys -> Row] /\ sp2 \in [Keys -> Row]
              /\ \A q \in KeysOf(d) : rs2[q] = rows[q] /\ sp2[q] = spec[q]
          BY <1>3, <1>4, <3>2, <3>4
        <4> HIDE DEF d, rs2, sp2
        <4>2. Halfway(rs2, sp2, d, at[u], loc[u])
          BY <1>1, <4>1, HalfwayLocal
        <4> QED BY <4>2 DEF d, rs2, sp2
      <3> QED BY <3>1, <3>5
    <2>2. CASE u = t
      <3>1. KeysOf(c) \cap tainted = {} /\ ~CallReturns(t) /\ KeysOf(call'[t]) = KeysOf(c)
        BY <1>0, <1>1, <1>2, <1>6, <2>2, CallEnded DEF StorageTypeOK
      <3>2. Halfway(rows, spec, c, at[t], loc[t])
        BY <1>0, <1>1, <3>1 DEF AloneIsHalfway
      <3>3. CASE GoesOn(t)
        <4>1. /\ call'[t] = c /\ spec' = spec /\ at'[t] = Follows(backend, c, at[t])
              /\ loc'[t] = Loaded(rows[k], loc[t], at[t]) /\ Follows(backend, c, at[t]) # "end"
          BY <1>0, <1>1, <3>3, WentOn DEF StorageTypeOK, Accesses
        <4>2. Halfway(rows', spec, c, Follows(backend, c, at[t]), Loaded(rows[k], loc[t], at[t]))
          BY <1>1, <1>3, <3>2, <4>1, HalfwayGoesOn
        <4> QED BY <2>2, <4>1, <4>2
      <3>4. CASE set_many_states(t)
        <4>1. PICK q \in c.left :
                /\ c.name = "set_many_states" /\ Follows(backend, c, at[t]) = "end"
                /\ call' = [call EXCEPT ![t] = [c EXCEPT !.to = q, !.left = c.left \ {q}]]
                /\ at' = [at EXCEPT ![t] = Follows(backend, c, "begin")]
                /\ spec' = spec
          BY <1>0, <1>1, <3>4, WentToNext
        <4> DEFINE d == [c EXCEPT !.to = q, !.left = c.left \ {q}]
        <4>2. call'[t] = d /\ at'[t] = Follows(backend, c, "begin")
          BY <1>0, <4>1 DEF StorageTypeOK
        <4>3. k = c.to
          BY <4>1 DEF KeyAt
        <4>4. Halfway(rows', spec, d, Follows(backend, c, "begin"), loc'[t])
          <5> HIDE DEF c, k
          <5> QED BY <1>1, <1>3, <3>2, <4>1, <4>3, HalfwayNextKey
        <4> QED BY <2>2, <4>1, <4>2, <4>4
      <3> QED BY <3>1, <3>3, <3>4 DEF Accessing
    <2> QED BY <2>1, <2>2
  <1>7. AloneIsHalfway'
    BY <1>6 DEF AloneIsHalfway
  <1>8. ASSUME NEW q \in Keys \ tainted', \A u \in Callers : q \notin KeysOf(call'[u])
        PROVE  rows'[q] = spec'[q]
    <2>1. CASE q \notin KeysOf(c)
      <3>1. \A u \in Callers : q \notin KeysOf(call[u])
        BY <1>2, <1>8, <2>1
      <3>2. rows[q] = spec[q]
        BY <1>0, <1>2, <1>8, <3>1 DEF CallsAreAtomic
      <3> QED BY <1>2, <1>8, <2>1, <3>2
    <2>2. CASE q \in KeysOf(c)
      <3>1. CallReturns(t) /\ KeysOf(c) \cap tainted = {}
        BY <1>0, <1>2, <1>8, <2>2 DEF OverlapTaints
      <3>2. Halfway(rows, spec, c, at[t], loc[t])
        BY <1>0, <1>1, <3>1 DEF AloneIsHalfway
      <3>3. /\ spec' = Specified(spec, c) /\ Follows(backend, c, at[t]) = "end"
            /\ c.name = "set_many_states" => c.left = {}
        BY <1>0, <1>1, <3>1, CallEnded
      <3>4. rows'[q] = Specified(spec, c)[q]
        <4>1. k = KeyAt(c, at[t])
          OBVIOUS
        <4> HIDE DEF c, k
        <4> QED BY <1>1, <1>3, <2>2, <3>2, <3>3, <4>1, HalfwayEnds
      <3> QED BY <2>2, <3>3, <3>4
    <2> QED BY <2>1, <2>2
  <1>9. CallsAreAtomic'
    BY <1>8 DEF CallsAreAtomic
  <1>10. StateSurvives'
    BY <1>0, AccessKeepsState DEF Accessing
  <1> QED BY <1>2, <1>5, <1>7, <1>9, <1>10 DEF RowsAsAsked

(* The access of a call raises: the keys of the call are tainted.          *)
LEMMA RaisesKeeps ==
    ASSUME RowsAsAsked, NEW t \in Callers, Raises(t)
    PROVE  RowsAsAsked'
  <1>0. /\ StorageTypeOK /\ CallsAreProper /\ OverlapTaints /\ AloneIsHalfway
        /\ CallsAreAtomic /\ StateSurvives
    BY DEF RowsAsAsked
  <1>1. /\ call[t] # NoCall /\ spec' = spec /\ backend' = backend
        /\ tainted' = tainted \cup KeysOf(call[t]) /\ tainted \subseteq tainted'
    BY DEF Raises
  <1>a. /\ rows' \in [Keys -> Row] /\ asked' \in [Keys -> States \cup {NoState}]
        /\ snap' \in [Keys -> Row] /\ shared' \subseteq Keys /\ newer' \subseteq Keys
        /\ \A q \in Keys \ KeysOf(call[t]) : rows'[q] = rows[q]
    <2>1. CASE Reaches(t, KeyAt(call[t], at[t]))
      BY <1>0, <1>1, <2>1, Reached
    <2>2. CASE UNCHANGED <<rows, snap, shared, asked, newer>>
      BY <1>0, <2>2 DEF StorageTypeOK
    <2> QED BY <2>1, <2>2 DEF Raises
  <1>2. /\ call'[t] = NoCall /\ at'[t] = "end" /\ KeysOf(call'[t]) = {}
        /\ \A u \in Callers : u # t => call'[u] = call[u] /\ at'[u] = at[u] /\ loc'[u] = loc[u]
    BY <1>0, NoCallKeys DEF Raises, StorageTypeOK
  <1>3. StorageTypeOK'
    <2>1. KeysOf(call[t]) \subseteq Keys
      BY <1>0, StorageTypes
    <2>2. /\ call' \in [Callers -> CallSet \cup {NoCall}] /\ at' \in [Callers -> Accesses \cup {"end"}]
          /\ loc' \in [Callers -> Row]
      BY <1>0, RowShape DEF Raises, StorageTypeOK
    <2>3. raised' \in 0 .. MaxRaises
      BY <1>0, StorageAssumption DEF Raises, StorageTypeOK
    <2> QED BY <1>0, <1>a, <2>1, <2>2, <2>3 DEF Raises, StorageTypeOK
  <1>4. CallsAreProper'
    <2>1. \A l : Proper(backend, NoCall, "end", l)
      BY NoCallKeys DEF Proper, PlaceOf
    <2> QED BY <1>0, <1>1, <1>2, <2>1 DEF CallsAreProper
  <1>5. OverlapTaints'
    BY <1>0, <1>1, <1>2, FewerKeys
  <1>6. ASSUME NEW u \in Callers, call'[u] # NoCall, KeysOf(call'[u]) \cap tainted' = {}
        PROVE  Halfway(rows', spec', call'[u], at'[u], loc'[u])
    <2> DEFINE d == call[u]
               rs2 == rows'
    <2>1. u # t /\ call'[u] = d /\ at'[u] = at[u] /\ loc'[u] = loc[u]
      BY <1>2, <1>6
    <2>2. KeysOf(d) \cap tainted = {} /\ KeysOf(d) \cap KeysOf(call[t]) = {}
      BY <1>1, <1>6, <2>1
    <2>3. /\ d \in CallSet /\ Proper(backend, d, at[u], loc[u]) /\ KeysOf(d) \subseteq Keys
          /\ Halfway(rows, spec, d, at[u], loc[u])
      BY <1>0, <1>6, <2>1, <2>2, StorageTypes DEF CallsAreProper, AloneIsHalfway
    <2>4. /\ rows \in [Keys -> Row] /\ spec \in [Keys -> Row] /\ rs2 \in [Keys -> Row] /\ backend \in Backends
          /\ \A q \in KeysOf(d) : rs2[q] = rows[q] /\ spec[q] = spec[q]
      BY <1>0, <1>a, <2>2, <2>3, StorageTypes
    <2> HIDE DEF d, rs2
    <2>5. Halfway(rs2, spec, d, at[u], loc[u])
      BY <2>3, <2>4, HalfwayLocal
    <2> QED BY <1>1, <2>1, <2>5 DEF d, rs2
  <1>7. AloneIsHalfway'
    BY <1>6 DEF AloneIsHalfway
  <1>8. CallsAreAtomic'
    <2>1. ASSUME NEW q \in Keys \ tainted', \A u \in Callers : q \notin KeysOf(call'[u])
          PROVE  rows[q] = spec[q] /\ rows'[q] = rows[q]
      BY <1>0, <1>1, <1>2, <1>a, <2>1 DEF CallsAreAtomic
    <2> QED BY <1>1, <2>1 DEF CallsAreAtomic
  <1>9. StateSurvives'
    <2>1. CASE Reaches(t, KeyAt(call[t], at[t]))
      BY <1>0, <1>1, <2>1, AccessKeepsState
    <2>2. CASE UNCHANGED <<rows, snap, shared, asked, newer>>
      BY <1>0, <1>1, <2>2 DEF StateSurvives
    <2> QED BY <2>1, <2>2 DEF Raises
  <1> QED BY <1>3, <1>4, <1>5, <1>7, <1>8, <1>9 DEF RowsAsAsked

(* A snapshot is exported or imported.                                     *)
LEMMA SnapshotKeeps ==
    ASSUME RowsAsAsked, export_snapshot \/ import_snapshot
    PROVE  RowsAsAsked'
  <1>0. /\ StorageTypeOK /\ CallsAreProper /\ OverlapTaints /\ AloneIsHalfway
        /\ CallsAreAtomic /\ StateSurvives
    BY DEF RowsAsAsked
  <1>1. CASE export_snapshot
    <2>1. StorageTypeOK'
      BY <1>0, <1>1 DEF export_snapshot, StorageTypeOK
    <2>2. /\ call' = call /\ at' = at /\ loc' = loc /\ rows' = rows /\ spec' = spec
          /\ backend' = backend /\ tainted' = tainted /\ asked' = asked
      BY <1>1 DEF export_snapshot
    <2>3. CallsAreProper' /\ OverlapTaints'
      BY <1>0, <2>2 DEF CallsAreProper, OverlapTaints
    <2>4. AloneIsHalfway' /\ CallsAreAtomic' /\ StateSurvives'
      BY <1>0, <2>2 DEF AloneIsHalfway, CallsAreAtomic, StateSurvives
    <2> QED BY <2>1, <2>3, <2>4 DEF RowsAsAsked
  <1>2. CASE import_snapshot
    <2>0. \A k \in Keys : snap[k].state \in States \cup {NoState}
      BY <1>0, RowShape, StorageTypes
    <2>1. StorageTypeOK'
      BY <1>0, <1>2, <2>0 DEF import_snapshot, StorageTypeOK
    <2>2. /\ call' = call /\ at' = at /\ loc' = loc /\ backend' = backend /\ tainted' = tainted
          /\ rows' = snap /\ spec' = snap /\ \A k \in Keys : asked'[k] = snap[k].state
          /\ \A t \in Callers : call[t] = NoCall
      BY <1>2 DEF import_snapshot, Free
    <2>3. CallsAreProper' /\ OverlapTaints'
      BY <1>0, <2>2 DEF CallsAreProper, OverlapTaints
    <2>4. AloneIsHalfway' /\ CallsAreAtomic' /\ StateSurvives'
      BY <2>2 DEF AloneIsHalfway, CallsAreAtomic, StateSurvives
    <2> QED BY <2>1, <2>3, <2>4 DEF RowsAsAsked
  <1> QED BY <1>1, <1>2

(* A step of nobody.                                                       *)
LEMMA StorageStutters ==
    ASSUME RowsAsAsked, UNCHANGED storageVars
    PROVE  RowsAsAsked'
  <1>1. /\ call' = call /\ at' = at /\ loc' = loc /\ rows' = rows /\ spec' = spec
        /\ backend' = backend /\ tainted' = tainted /\ asked' = asked
        /\ snap' = snap /\ taken' = taken /\ shared' = shared /\ newer' = newer /\ calls' = calls
        /\ raised' = raised
    BY DEF storageVars
  <1>2. StorageTypeOK' /\ CallsAreProper' /\ OverlapTaints'
    BY <1>1 DEF RowsAsAsked, StorageTypeOK, CallsAreProper, OverlapTaints
  <1>3. AloneIsHalfway' /\ CallsAreAtomic' /\ StateSurvives'
    BY <1>1 DEF RowsAsAsked, AloneIsHalfway, CallsAreAtomic, StateSurvives
  <1> QED BY <1>2, <1>3 DEF RowsAsAsked

LEMMA StorageInitRows == StorageInit => RowsAsAsked
  <1> SUFFICES ASSUME StorageInit PROVE RowsAsAsked
    OBVIOUS
  <1>1. /\ \A t \in Callers : call[t] = NoCall /\ at[t] = "end" /\ KeysOf(call[t]) = {}
        /\ rows = spec
    BY NoCallKeys DEF StorageInit
  <1>2. StorageTypeOK
    BY RowShape, StorageAssumption DEF StorageInit, StorageTypeOK
  <1>3. CallsAreProper
    BY <1>1, NoCallKeys DEF CallsAreProper, Proper, PlaceOf
  <1>4. OverlapTaints /\ AloneIsHalfway /\ CallsAreAtomic
    BY <1>1 DEF OverlapTaints, AloneIsHalfway, CallsAreAtomic
  <1>5. StateSurvives
    BY DEF StateSurvives, StorageInit, Empty
  <1> QED BY <1>2, <1>3, <1>4, <1>5 DEF RowsAsAsked

(* On every storage, for every number of tasks, keys, fields and calls: a  *)
(* key that no unfinished, overlapping or failed call has touched holds    *)
(* exactly what the calls asked for, one after the other; and where the    *)
(* state is stored apart from the data it is the one asked for last, even  *)
(* if calls overlap and fail.                                              *)
THEOREM StorageHoldsWhatWasAsked == StorageSpec => []RowsAsAsked
  <1>1. StorageInit => RowsAsAsked
    BY StorageInitRows
  <1>2. RowsAsAsked /\ [StorageNext]_storageVars => RowsAsAsked'
    <2> SUFFICES ASSUME RowsAsAsked, [StorageNext]_storageVars PROVE RowsAsAsked'
      OBVIOUS
    <2>1. ASSUME NEW t \in Callers, NEW c \in FirstCalls, Calls(t, c) PROVE RowsAsAsked'
      BY <2>1, CallsKeep
    <2>2. ASSUME NEW t \in Callers, Accessing(t) PROVE RowsAsAsked'
      BY <2>2, AccessKeeps
    <2>3. ASSUME NEW t \in Callers, Raises(t) PROVE RowsAsAsked'
      BY <2>3, RaisesKeeps
    <2>4. ASSUME export_snapshot \/ import_snapshot PROVE RowsAsAsked'
      BY <2>4, SnapshotKeeps
    <2>5. ASSUME UNCHANGED storageVars PROVE RowsAsAsked'
      BY <2>5, StorageStutters
    <2> QED BY <2>1, <2>2, <2>3, <2>4, <2>5 DEF StorageNext
  <1> QED BY <1>1, <1>2, PTL DEF StorageSpec

(* The access of a transition_data that is alone with its keys: the source *)
(* is cleared when its data is where it is to be.                          *)
LEMMA TransitionAccess ==
    ASSUME RowsAsAsked, NEW t \in Callers, Reaches(t, KeyAt(call[t], at[t])),
           call[t].name = "transition_data", KeysOf(call[t]) \cap tainted = {}
    PROVE  rows[call[t].from].data \subseteq rows'[call[t].from].data \cup rows'[call[t].to].data
  <1> DEFINE c == call[t]
             k == KeyAt(c, at[t])
  <1>0. /\ c # NoCall /\ c \in CallSet /\ Proper(backend, c, at[t], loc[t]) /\ Reaches(t, k)
        /\ rows \in [Keys -> Row] /\ spec \in [Keys -> Row]
    BY NoCallKeys, StorageTypes DEF RowsAsAsked, CallsAreProper
  <1>1. /\ c.from \in Keys /\ c.to \in Keys /\ c.from # c.to /\ KeysOf(c) = {c.from, c.to}
    BY <1>0, CallKinds, CallKeys DEF MoveCalls, Proper
  <1>2. /\ k \in Keys /\ rows'[k] = Stored(rows[k], loc[t], at[t])
        /\ \A q \in Keys : q # k => rows'[q] = rows[q]
    BY <1>0, Reached DEF RowsAsAsked
  <1>3. CASE at[t] = "delete"
    <2>1. Halfway(rows, spec, c, at[t], loc[t])
      BY <1>0 DEF RowsAsAsked, AloneIsHalfway
    <2>2. rows[c.from] = spec[c.from] /\ rows[c.to] = Specified(spec, c)[c.to]
      BY <1>1, <1>3, <2>1 DEF Halfway
    <2>3. Specified(spec, c)[c.to] =
            [spec[c.to] EXCEPT !.data = spec[c.from].data \cup (IF c.merge THEN spec[c.to].data ELSE {})]
      BY <1>0, <1>1, SpecifiedMove
    <2>4. spec[c.from].data \subseteq rows[c.to].data
      <3>1. spec[c.to] \in Row
        BY <1>0, <1>1
      <3> QED BY <2>2, <2>3, <3>1 DEF Row
    <2>5. k = c.from
      BY <1>3 DEF KeyAt
    <2>6. rows'[c.to] = rows[c.to]
      BY <1>1, <1>2, <2>5
    <2> QED BY <2>2, <2>4, <2>6
  <1>4. CASE at[t] # "delete"
    <2>1. CASE k = c.from
      <3>1. at[t] = "read_data"
        BY <1>1, <1>4, <2>1 DEF KeyAt
      <3>2. rows'[c.from] = rows[c.from]
        BY <1>2, <2>1, <3>1 DEF Stored
      <3> QED BY <3>2
    <2>2. CASE k # c.from
      BY <1>1, <1>2, <2>2
    <2> QED BY <2>1, <2>2
  <1> QED BY <1>3, <1>4

(* transition_data does not lose the data it moves, on any storage and     *)
(* wherever its accesses stop: the source is cleared last.                 *)
THEOREM TransitionLosesNothing == StorageSpec => TransitionKeepsData
  <1> DEFINE Kept == \A t \in Callers :
        (call[t].name = "transition_data" /\ at'[t] # at[t] /\ KeysOf(call[t]) \cap tainted = {})
            => rows[call[t].from].data \subseteq rows'[call[t].from].data \cup rows'[call[t].to].data
  <1>1. RowsAsAsked /\ [StorageNext]_storageVars => [Kept]_storageVars
    <2> SUFFICES ASSUME RowsAsAsked, [StorageNext]_storageVars, NEW t \in Callers,
                        call[t].name = "transition_data", at'[t] # at[t],
                        KeysOf(call[t]) \cap tainted = {}
                 PROVE  rows[call[t].from].data \subseteq rows'[call[t].from].data \cup rows'[call[t].to].data
      OBVIOUS
    <2>0. StorageTypeOK /\ CallsAreProper
      BY DEF RowsAsAsked
    <2>1. ASSUME NEW u \in Callers, NEW c \in FirstCalls, Calls(u, c) PROVE rows' = rows
      BY <2>1 DEF Calls
    <2>2. ASSUME NEW u \in Callers, Raises(u)
          PROVE  rows[call[t].from].data \subseteq rows'[call[t].from].data \cup rows'[call[t].to].data
      <3>1. u = t
        BY <2>0, <2>2 DEF Raises, StorageTypeOK
      <3>2. CASE rows' = rows
        BY <3>2
      <3>3. CASE Reaches(t, KeyAt(call[t], at[t]))
        BY <3>3, TransitionAccess
      <3> QED BY <2>2, <3>1, <3>2, <3>3 DEF Raises
    <2>3. ASSUME NEW u \in Callers, Accessing(u)
          PROVE  rows[call[t].from].data \subseteq rows'[call[t].from].data \cup rows'[call[t].to].data
      <3>1. u = t
        BY <2>0, <2>3, AccessMoves
      <3> QED BY <2>3, <3>1, TransitionAccess DEF Accessing
    <2>4. ASSUME export_snapshot PROVE rows' = rows
      BY <2>4 DEF export_snapshot
    <2>5. ASSUME import_snapshot PROVE FALSE
      BY <2>5 DEF import_snapshot
    <2>6. ASSUME UNCHANGED storageVars PROVE rows' = rows
      BY <2>6 DEF storageVars
    <2> QED BY <2>1, <2>2, <2>3, <2>4, <2>5, <2>6 DEF StorageNext
  <1>2. StorageSpec => []RowsAsAsked
    BY StorageHoldsWhatWasAsked
  <1>3. TransitionKeepsData <=> [][Kept]_storageVars
    BY DEF TransitionKeepsData
  <1> QED BY <1>1, <1>2, <1>3, PTL DEF StorageSpec

(* An exported snapshot is not changed by what the storage does later,     *)
(* except where the memory storage updates the dict it handed out.         *)
THEOREM SnapshotIsKept == StorageSpec => []SnapshotStays
  <1>1. StorageInit => SnapshotStays
    BY DEF StorageInit, SnapshotStays, Empty
  <1>2. RowsAsAsked /\ SnapshotStays /\ [StorageNext]_storageVars => SnapshotStays'
    <2> SUFFICES ASSUME RowsAsAsked, SnapshotStays, [StorageNext]_storageVars PROVE SnapshotStays'
      OBVIOUS
    <2>0. StorageTypeOK /\ CallsAreProper
      BY DEF RowsAsAsked
    <2>1. ASSUME snap' = snap, taken' = taken, newer' = newer, backend' = backend PROVE SnapshotStays'
      BY <2>1 DEF SnapshotStays
    <2>2. ASSUME NEW t \in Callers, Accessing(t) PROVE SnapshotStays'
      <3> DEFINE k == KeyAt(call[t], at[t])
      <3>1. /\ Reaches(t, k) /\ taken' = taken /\ backend' = backend /\ k \in Keys
            /\ snap \in [Keys -> Row]
        BY <2>0, <2>2, Reached, StorageTypes DEF Accessing
      <3>2. newer \subseteq newer'
        BY <3>1 DEF Reaches
      <3>3. CASE at[t] = "write_data" /\ InPlace(call[t]) /\ k \in shared
        <4>1. snap' = [snap EXCEPT ![k].data = loc[t].data] /\ k \in newer' /\ backend = "memory"
          BY <3>1, <3>3 DEF Reaches, InPlace
        <4>2. /\ \A q \in Keys : q # k => snap'[q] = snap[q]
              /\ snap'[k].state = snap[k].state
          BY <3>1, <4>1 DEF Row
        <4> QED BY <3>1, <3>2, <4>1, <4>2 DEF SnapshotStays
      <3>4. CASE ~(at[t] = "write_data" /\ InPlace(call[t]) /\ k \in shared)
        <4>1. snap' = snap
          BY <3>1, <3>4 DEF Reaches
        <4> QED BY <3>1, <3>2, <4>1 DEF SnapshotStays
      <3> QED BY <3>3, <3>4
    <2>3. ASSUME export_snapshot PROVE SnapshotStays'
      BY <2>3 DEF export_snapshot, SnapshotStays
    <2>4. ASSUME NEW t \in Callers, \E c \in FirstCalls : Calls(t, c) PROVE SnapshotStays'
      BY <2>1, <2>4 DEF Calls
    <2>6. ASSUME NEW t \in Callers, Raises(t) PROVE SnapshotStays'
      <3>1. snap' = snap /\ taken' = taken /\ backend' = backend /\ newer \subseteq newer'
        BY <2>6 DEF Raises, Reaches, InPlace
      <3> QED BY <3>1 DEF SnapshotStays
    <2>5. ASSUME import_snapshot \/ UNCHANGED storageVars PROVE SnapshotStays'
      BY <2>1, <2>5 DEF import_snapshot, storageVars
    <2> QED BY <2>2, <2>3, <2>4, <2>5, <2>6 DEF StorageNext
  <1>3. StorageSpec => []RowsAsAsked
    BY StorageHoldsWhatWasAsked
  <1> QED BY <1>1, <1>2, <1>3, PTL DEF StorageSpec

-----------------------------------------------------------------------------
(***************************************************************************)
(* The permissions: PermissionsPy.                                         *)
(***************************************************************************)

(* Type correctness and disjoint overwrites.                               *)

(* The overwrites keep their shape and stay disjoint when one flag of one  *)
(* of them is allowed, denied or reset.                                    *)
LEMMA OverwriteStep ==
    ASSUME PermissionsTypeOK, OverwritesDisjoint, NEW t \in Targets, NEW p \in Perms,
           set_allow(t, {p}) \/ set_deny(t, {p}) \/ reset(t, {p})
    PROVE  PermissionsTypeOK' /\ OverwritesDisjoint'
  <1>1. edits' \in 0 .. MaxEdits
    BY PermissionConstants DEF PermissionsTypeOK, Edit, set_allow, set_deny, reset
  <1>2. /\ allow' \in [Targets -> SUBSET Perms]
        /\ deny' \in [Targets -> SUBSET Perms]
        /\ present' \subseteq Targets
    BY DEF PermissionsTypeOK, set_allow, set_deny, reset, Creates
  <1>3. \A u \in Targets : allow'[u] \cap deny'[u] = {}
    <2> SUFFICES ASSUME NEW u \in Targets
                 PROVE  allow'[u] \cap deny'[u] = {}
      OBVIOUS
    <2>1. allow[u] \cap deny[u] = {}
      BY DEF OverwritesDisjoint
    <2>2. CASE set_allow(t, {p})
      BY <2>1, <2>2 DEF PermissionsTypeOK, set_allow
    <2>3. CASE set_deny(t, {p})
      BY <2>1, <2>3 DEF PermissionsTypeOK, set_deny
    <2>4. CASE reset(t, {p})
      BY <2>1, <2>4 DEF PermissionsTypeOK, reset
    <2> QED BY <2>2, <2>3, <2>4
  <1>4. UNCHANGED <<owner, timed_out, role_perms, listed, roles>>
    BY DEF set_allow, set_deny, reset, UnchangedByOverwrites
  <1> QED BY <1>1, <1>2, <1>3, <1>4 DEF PermissionsTypeOK, OverwritesDisjoint

(* Events of the guild change no overwrite.                                *)
LEMMA GuildStep ==
    ASSUME PermissionsTypeOK, OverwritesDisjoint,
           \/ \E r \in Roles \cup {Everyone}, ps \in SUBSET Perms : EditRole(r, ps)
           \/ \E r \in Roles : GiveRole(r) \/ TakeRole(r)
           \/ TimeOut \/ TransferOwnership
    PROVE  PermissionsTypeOK' /\ OverwritesDisjoint'
  <1>1. Edit /\ UnchangedByGuild
    BY DEF EditRole, GiveRole, TakeRole, TimeOut, TransferOwnership
  <1>2. edits' \in 0 .. MaxEdits
    BY <1>1, PermissionConstants DEF PermissionsTypeOK, Edit
  <1>3. /\ role_perms' \in [Roles \cup {Everyone} -> SUBSET Perms]
        /\ roles' \subseteq Roles
        /\ {owner', timed_out'} \subseteq BOOLEAN
    BY DEF PermissionsTypeOK, EditRole, GiveRole, TakeRole, TimeOut, TransferOwnership
  <1> QED BY <1>1, <1>2, <1>3 DEF PermissionsTypeOK, OverwritesDisjoint, UnchangedByGuild

OverwritesInv == PermissionsTypeOK /\ OverwritesDisjoint

(* PermissionOverwrite.set_allow, set_deny and reset keep allow and deny   *)
(* disjoint in every order, and nothing leaves its type.                   *)
THEOREM Disjoint == PermissionsSpec => [](PermissionsTypeOK /\ OverwritesDisjoint)
  <1>1. PermissionsInit => OverwritesInv
    <2> SUFFICES ASSUME PermissionsInit PROVE OverwritesInv
      OBVIOUS
    <2>1. /\ role_perms \in [Roles \cup {Everyone} -> SUBSET Perms]
          /\ allow \in [Targets -> SUBSET Perms] /\ deny \in [Targets -> SUBSET Perms]
      BY DEF PermissionsInit
    <2>2. \A t \in Targets : allow[t] \cap deny[t] = {}
      BY DEF PermissionsInit
    <2>3. edits \in 0 .. MaxEdits
      BY PermissionConstants DEF PermissionsInit
    <2>4. {owner, timed_out, listed} \subseteq BOOLEAN /\ roles \subseteq Roles /\ present \subseteq Targets
      BY DEF PermissionsInit
    <2> QED BY <2>1, <2>2, <2>3, <2>4 DEF OverwritesInv, PermissionsTypeOK, OverwritesDisjoint
  <1>2. OverwritesInv /\ [PermissionsNext]_permissionVars => OverwritesInv'
    <2> SUFFICES ASSUME OverwritesInv, [PermissionsNext]_permissionVars PROVE OverwritesInv'
      OBVIOUS
    <2>1. CASE UNCHANGED permissionVars
      BY <2>1 DEF OverwritesInv, PermissionsTypeOK, OverwritesDisjoint, permissionVars
    <2>2. CASE \E t \in Targets, p \in Perms :
                   set_allow(t, {p}) \/ set_deny(t, {p}) \/ reset(t, {p})
      BY <2>2, OverwriteStep DEF OverwritesInv
    <2>3. CASE \/ \E r \in Roles \cup {Everyone}, ps \in SUBSET Perms : EditRole(r, ps)
               \/ \E r \in Roles : GiveRole(r) \/ TakeRole(r)
               \/ TimeOut \/ TransferOwnership
      BY <2>3, GuildStep DEF OverwritesInv
    <2> QED BY <2>1, <2>2, <2>3 DEF PermissionsNext
  <1> QED BY <1>1, <1>2, PTL DEF PermissionsSpec, OverwritesInv

-----------------------------------------------------------------------------
(* The hierarchy.                                                          *)

(* A flag survives a layer of overwrites when the layer allows it, or does *)
(* not deny it and it was there before.                                    *)
LEMMA LayerDecides ==
    ASSUME NEW perms, NEW ids, NEW p
    PROVE  p \in Overwritten(perms, Of(deny, ids), Of(allow, ids))
           <=> Allowed(p, ids) \/ (NotDenied(p, ids) /\ p \in perms)
  BY DEF Overwritten, Of, Allowed, NotDenied

LEMMA LayeredState == PermissionsTypeOK => EffectiveIsLayered
  <1> SUFFICES ASSUME PermissionsTypeOK, NEW p \in Perms
               PROVE  p \in compute_effective_permissions <=> Decision(p)
    BY DEF EffectiveIsLayered
  <1> DEFINE base == compute_base_permissions
             e == Overwritten(base, Of(deny, {Everyone}), Of(allow, {Everyone}))
             r == Overwritten(e, Of(deny, roles), Of(allow, roles))
             m == Overwritten(r, Of(deny, {Member}), Of(allow, {Member}))
  <1>1. CASE owner \/ Administrator \in Granted
    BY <1>1, PermissionConstants
       DEF compute_effective_permissions, compute_overwrites, compute_base_permissions, Decision
  <1>2. CASE ~(owner \/ Administrator \in Granted)
    <2>1. Administrator \notin base
      BY <1>2, PermissionConstants DEF compute_base_permissions
    <2>2. compute_effective_permissions = m
      BY <2>1 DEF compute_effective_permissions, compute_overwrites
    <2>3. p \in e <=> Allowed(p, {Everyone}) \/ (NotDenied(p, {Everyone}) /\ p \in base)
      BY LayerDecides
    <2>4. p \in r <=> Allowed(p, roles) \/ (NotDenied(p, roles) /\ p \in e)
      BY LayerDecides
    <2>5. p \in m <=> Allowed(p, {Member}) \/ (NotDenied(p, {Member}) /\ p \in r)
      BY LayerDecides
    <2>6. /\ NotDenied(p, {Member} \cup roles) <=> NotDenied(p, {Member}) /\ NotDenied(p, roles)
          /\ NotDenied(p, {Member, Everyone} \cup roles)
             <=> NotDenied(p, {Member}) /\ NotDenied(p, roles) /\ NotDenied(p, {Everyone})
      BY DEF NotDenied
    <2>7. p \in m <=> \/ Allowed(p, {Member})
                      \/ NotDenied(p, {Member}) /\ Allowed(p, roles)
                      \/ NotDenied(p, {Member} \cup roles) /\ Allowed(p, {Everyone})
                      \/ NotDenied(p, {Member, Everyone} \cup roles) /\ p \in base
      <3> HIDE DEF base, e, r, m
      <3> QED BY <2>3, <2>4, <2>5, <2>6
    <2> QED BY <1>2, <2>2, <2>7 DEF Decision
  <1> QED BY <1>1, <1>2

(* Whatever was edited before, compute_effective_permissions answers as    *)
(* the documented hierarchy does, flag by flag, and no overwrite           *)
(* contradicts itself.                                                     *)
THEOREM Layered == PermissionsSpec => []PermissionsInv
  <1>1. OverwritesInv => PermissionsInv
    BY LayeredState DEF OverwritesInv, PermissionsInv
  <1> QED BY <1>1, Disjoint, PTL DEF OverwritesInv

-----------------------------------------------------------------------------
(* Roles.                                                                  *)

(* The calculator answers with flags of Permissions only.                  *)
LEMMA EffectiveType == PermissionsTypeOK => compute_effective_permissions \subseteq Perms
  <1> SUFFICES ASSUME PermissionsTypeOK PROVE compute_effective_permissions \subseteq Perms
    OBVIOUS
  <1>1. Granted \subseteq Perms
    BY PermissionConstants DEF PermissionsTypeOK, Granted, FromRoles
  <1>2. compute_base_permissions \subseteq Perms
    BY <1>1, PermissionConstants DEF compute_base_permissions
  <1>3. \A ids \in SUBSET Targets : Of(allow, ids) \subseteq Perms
    BY DEF PermissionsTypeOK, Of
  <1>4. roles \subseteq Targets /\ {Everyone} \subseteq Targets /\ {Member} \subseteq Targets
    BY DEF PermissionsTypeOK, Targets
  <1> QED BY <1>2, <1>3, <1>4 DEF compute_effective_permissions, compute_overwrites, Overwritten

(* Taken from the hierarchy: another role can only add permissions and     *)
(* allowances when its own overwrite denies nothing.                       *)
LEMMA GiveRoleStep ==
    ASSUME PermissionsTypeOK, PermissionsTypeOK', NEW q \in Roles, GiveRole(q), q \in present => deny[q] = {}
    PROVE  compute_effective_permissions \subseteq compute_effective_permissions'
  <1>0. /\ UNCHANGED <<owner, timed_out, role_perms, listed, present, allow, deny>>
        /\ roles' = roles \cup {q}
    BY DEF GiveRole, UnchangedByGuild
  <1>1. EffectiveIsLayered
    BY LayeredState
  <1>2. EffectiveIsLayered'
    BY LayeredState, PTL
  <1>3. Granted \subseteq Granted'
    BY <1>0 DEF Granted, FromRoles
  <1>4. SUFFICES ASSUME NEW p \in Perms, Decision(p) PROVE Decision(p)'
    BY <1>1, <1>2, EffectiveType DEF EffectiveIsLayered
  <1>5. CASE owner \/ Administrator \in Granted
    BY <1>0, <1>3, <1>5 DEF Decision
  <1>6. CASE Allowed(p, {Member})
    <2>1. Allowed(p, {Member})'
      BY <1>0, <1>6 DEF Allowed
    <2> QED BY <2>1 DEF Decision
  <1>7. CASE NotDenied(p, {Member}) /\ Allowed(p, roles)
    <2>1. NotDenied(p, {Member})' /\ Allowed(p, roles)'
      BY <1>0, <1>7 DEF Allowed, NotDenied
    <2> QED BY <2>1 DEF Decision
  <1>8. CASE NotDenied(p, {Member} \cup roles) /\ Allowed(p, {Everyone})
    <2>1. NotDenied(p, {Member} \cup roles)' /\ Allowed(p, {Everyone})'
      BY <1>0, <1>8 DEF Allowed, NotDenied
    <2> QED BY <2>1 DEF Decision
  <1>9. CASE NotDenied(p, {Member, Everyone} \cup roles) /\ p \in compute_base_permissions
    <2>1. NotDenied(p, {Member, Everyone} \cup roles)'
      BY <1>0, <1>9 DEF NotDenied
    <2>2. (owner \/ Administrator \in Granted)' \/ p \in compute_base_permissions'
      BY <1>0, <1>3, <1>9 DEF compute_base_permissions
    <2> QED BY <2>1, <2>2 DEF Decision
  <1> QED BY <1>4, <1>5, <1>6, <1>7, <1>8, <1>9 DEF Decision

(* Giving a role that no overwrite restricts takes no permission away.     *)
THEOREM RolesOnlyAdd == PermissionsSpec => RoleTakesNothing
  <1>1. PermissionsTypeOK /\ PermissionsTypeOK' /\ [PermissionsNext]_permissionVars
        => [\A r \in Roles :
              GiveRole(r) /\ (r \in present => deny[r] = {})
              => compute_effective_permissions \subseteq compute_effective_permissions']_permissionVars
    BY GiveRoleStep
  <1> QED BY <1>1, Disjoint, PTL DEF PermissionsSpec, RoleTakesNothing
=============================================================================
