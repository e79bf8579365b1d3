------------------------------- MODULE RestPy -------------------------------
(***************************************************************************)
(* REST requests of the Python SDK: HTTPClient.request                     *)
(* (vaidcord-py/src/vaidcord/http/client.py) with its RateLimitManager and *)
(* RetryPolicy.  Every call is one asyncio task; what a task does between  *)
(* two awaits is one step.  An asyncio.Lock hands itself on in the order   *)
(* its waiters came, so a lock is the queue of its holder and waiters.     *)
(* The snapshots update_route keeps are never read and are left out.       *)
(***************************************************************************)
EXTENDS DiscordBucket, ApiRoutes, Integers, Sequences, SequencesExt

CONSTANTS
    Calls,         \* calls of request
    Bases, Paths,  \* the routes they use are those of ApiRoutes with these
    Items,         \* values of a path's further parameters
    GlobalWindow,  \* longest X-RateLimit-Reset of a global limit
    MaxRetries,    \* HTTPConfig.max_retries
    MaxFaults      \* bound: global limits, 5xx, missing headers, network
                   \* errors and cancellations

ASSUME RestAssumption ==
    /\ MaxRetries \in Nat \ {0} /\ GlobalWindow \in Nat /\ MaxFaults \in Nat

(* A power of two is a natural number: the proofs need it of the delays,   *)
(* and the provers know nothing of ^.                                      *)
ASSUME PowersOfTwo == \A n \in 1 .. MaxRetries : 2 ^ (n - 1) \in Nat

Used == {r \in Routes : r.base \in Bases /\ r.path \in Paths}
Requests ==
    UNION {IF r.perItem THEN {[route |-> r, item |-> {i}] : i \in Items}
                        ELSE {[route |-> r, item |-> {}]} : r \in Used}

(* The lock is found by the endpoint, a path without the method; Discord   *)
(* counts per method and path, for all items together.                     *)
Endpoint(q) == <<q.route.base, q.route.path, q.item>>
BucketOf(q) == <<q.route.method, q.route.base, q.route.path>>
Endpoints == {Endpoint(q) : q \in Requests}
Buckets   == {BucketOf(q) : q \in Requests}

VARIABLES
    pc,          \* pc[c]: where the call is
    req,         \* req[c]: its request
    attempt,     \* attempt[c], 1-based
    sleepIn,     \* time left to asyncio.sleep
    resp,        \* resp[c]: the response on its way back or in hand
    result,      \* result[c]: what request returned or raised
    globalLock,  \* _global_lock
    routeLock,   \* _route_locks[endpoint]
    globalIn     \* time left to global_reset

VARIABLES srv, faults    \* Discord's windows; faults so far

VARIABLES
    started,     \* history: the calls in the order they were made
    blind        \* history: two requests of the bucket overlapped, or one
                 \* was counted and its headers were not waited for

locks == <<globalLock, routeLock>>
vars == <<pc, req, attempt, sleepIn, resp, result, globalLock, routeLock, globalIn, srv, faults,
          started, blind>>

Places == {"idle", "gate", "gsleep", "route", "wire", "resp", "reset", "backoff", "over"}
InRetryLoop == {"wire", "resp", "reset", "backoff"}
Statuses == {200, 400, 429, 500}
Resps == [status : Statuses, remaining : 0 .. Limit, after : 0 .. Window,
          global : BOOLEAN, reset : 0 .. GlobalWindow]
NoResp == [status |-> 200, remaining |-> 0, after |-> 0, global |-> FALSE, reset |-> 0]

(* create_discord_error: the class a status is raised as.                  *)
create_discord_error(status) ==
    CASE status = 401 -> "AuthenticationError"
      [] status = 403 -> "ForbiddenError"
      [] status = 404 -> "NotFoundError"
      [] status = 429 -> "RateLimitError"
      [] status >= 500 -> "VaidCordError"
      [] OTHER -> "DiscordAPIError"

Results == {"none", "ok", "network", "cancelled"} \cup {create_discord_error(s) : s \in Statuses}

(* Every variable keeps its type, and no call queues twice for a lock.     *)
CallTypes ==
    /\ pc \in [Calls -> Places]
    /\ req \in [Calls -> Requests]
    /\ attempt \in [Calls -> 1 .. MaxRetries]
    /\ sleepIn \in [Calls -> Nat]
    /\ resp \in [Calls -> Resps]
    /\ result \in [Calls -> Results]
LockTypes ==
    /\ globalLock \in Seq(Calls)
    /\ routeLock \in [Endpoints -> Seq(Calls)]
    /\ started \in Seq(Calls)
WindowTypes ==
    /\ globalIn \in 0 .. GlobalWindow
    /\ srv \in [Buckets -> Windows]
    /\ faults \in 0 .. MaxFaults
    /\ blind \in [Buckets -> BOOLEAN]
QueuedOnce == IsInjective(globalLock) /\ \A e \in Endpoints : IsInjective(routeLock[e])
TypeOK == CallTypes /\ LockTypes /\ WindowTypes /\ QueuedOnce

Init ==
    /\ pc = [c \in Calls |-> "idle"]
    /\ req \in [Calls -> Requests]
    /\ attempt = [c \in Calls |-> 1]
    /\ sleepIn = [c \in Calls |-> 0]
    /\ resp = [c \in Calls |-> NoResp]
    /\ result = [c \in Calls |-> "none"]
    /\ globalLock = <<>> /\ routeLock = [e \in Endpoints |-> <<>>]
    /\ globalIn = 0
    /\ srv = [b \in Buckets |-> NoWindow]
    /\ faults = 0 /\ started = <<>>
    /\ blind = [b \in Buckets |-> FALSE]

Fault == faults < MaxFaults /\ faults' = faults + 1
EndpointOf(c) == Endpoint(req[c])
Bucket(c)     == BucketOf(req[c])

Goto(c, p) == pc' = [pc EXCEPT ![c] = p]
Sleep(c, p, t) == Goto(c, p) /\ sleepIn' = [sleepIn EXCEPT ![c] = t]

(* session.request: the bucket is out of sight when another request of it  *)
(* is on its way or still waited for.                                      *)
Sends(c) ==
    /\ Goto(c, "wire")
    /\ blind' = [blind EXCEPT ![Bucket(c)] =
                   @ \/ \E d \in Calls \ {c} : Bucket(d) = Bucket(c) /\ pc[d] \in {"wire", "resp", "reset"}]

(* A free lock is taken without giving way to another task.                *)
LocksRoute(c) ==
    /\ routeLock' = [routeLock EXCEPT ![EndpointOf(c)] = Append(@, c)]
    /\ \/ routeLock[EndpointOf(c)] = <<>> /\ Sends(c)
       \/ routeLock[EndpointOf(c)] # <<>> /\ Goto(c, "route") /\ UNCHANGED blind

-----------------------------------------------------------------------------
(* wait_for_global, then the lock of the route.                            *)

Call(c) ==
    /\ pc[c] = "idle" /\ Goto(c, "gate")
    /\ globalLock' = Append(globalLock, c)
    /\ started' = Append(started, c)
    /\ UNCHANGED <<req, attempt, sleepIn, resp, result, routeLock, globalIn, srv, faults, blind>>

wait_for_global(c) ==
    /\ pc[c] = "gate" /\ Head(globalLock) = c
    /\ \/ /\ globalIn = 0
          /\ LocksRoute(c)
          /\ globalLock' = Tail(globalLock)
          /\ UNCHANGED sleepIn
       \/ /\ globalIn > 0
          /\ Sleep(c, "gsleep", globalIn)
          /\ UNCHANGED <<locks, blind>>
    /\ UNCHANGED <<req, attempt, resp, result, globalIn, srv, faults, started>>

GlobalSleepEnds(c) ==
    /\ pc[c] = "gsleep" /\ sleepIn[c] = 0
    /\ LocksRoute(c)
    /\ globalLock' = Tail(globalLock)
    /\ UNCHANGED <<req, attempt, sleepIn, resp, result, globalIn, srv, faults, started>>

(* A waiter is woken when the lock is its own.                             *)
get_route_lock(c) ==
    /\ pc[c] = "route" /\ Head(routeLock[EndpointOf(c)]) = c
    /\ Sends(c)
    /\ UNCHANGED <<req, attempt, sleepIn, resp, result, locks, globalIn, srv, faults, started>>

-----------------------------------------------------------------------------
(* Discord (external).  A request is counted when it is served.            *)

Answer(c, m) == Goto(c, "resp") /\ resp' = [resp EXCEPT ![c] = m]

SrvServes(c, status, hdr) ==
    LET w == Consumed(srv[Bucket(c)]) IN
    /\ pc[c] = "wire" /\ Admits(srv[Bucket(c)])
    /\ srv' = [srv EXCEPT ![Bucket(c)] = w]
    /\ Answer(c, [NoResp EXCEPT !.status = status,
                                !.remaining = IF hdr THEN w.left ELSE 0,
                                !.after = IF hdr THEN w.windowIn ELSE 0])
    /\ IF hdr /\ status < 500 THEN UNCHANGED faults ELSE Fault
    /\ blind' = [blind EXCEPT ![Bucket(c)] = @ \/ ~hdr]
    /\ UNCHANGED <<req, attempt, sleepIn, result, locks, globalIn, started>>

SrvLimits(c) ==
    LET w == srv[Bucket(c)] IN
    /\ pc[c] = "wire" /\ ~Admits(w)
    /\ Answer(c, [NoResp EXCEPT !.status = 429, !.after = w.windowIn])
    /\ UNCHANGED <<req, attempt, sleepIn, result, locks, globalIn, srv, faults, started, blind>>

(* X-RateLimit-Global with or without X-RateLimit-Reset.                   *)
SrvGlobal(c, reset) ==
    /\ pc[c] = "wire" /\ Fault
    /\ Answer(c, [NoResp EXCEPT !.status = 429, !.global = TRUE, !.reset = reset])
    /\ UNCHANGED <<req, attempt, sleepIn, result, locks, globalIn, srv, started, blind>>

-----------------------------------------------------------------------------
(* The retry loop.                                                         *)

(* The call is over: both locks are left, and what it knew of the bucket   *)
(* goes with it.                                                           *)
LeaveLocked(c, r) ==
    /\ Goto(c, "over")
    /\ result' = [result EXCEPT ![c] = r]
    /\ resp' = [resp EXCEPT ![c] = NoResp]
    /\ UNCHANGED locks
Leave(c, r) ==
    /\ Goto(c, "over")
    /\ result' = [result EXCEPT ![c] = r]
    /\ resp' = [resp EXCEPT ![c] = NoResp]
    /\ globalLock' = RemoveFirst(globalLock, c)
    /\ routeLock' = [routeLock EXCEPT ![EndpointOf(c)] = RemoveFirst(@, c)]

(* _check_rate_limit: the last global reset counts, and a response that    *)
(* leaves nothing makes the task sleep with the lock in hand.  Missing     *)
(* headers read as zero.                                                   *)
ResetDelayNone(m) == 0
ResetDelay(m) == IF m.remaining = 0 THEN m.after ELSE 0

_check_rate_limit(c) ==
    /\ pc[c] = "resp"
    /\ globalIn' = IF resp[c].global THEN resp[c].reset ELSE globalIn
    /\ Sleep(c, "reset", ResetDelay(resp[c]))
    /\ UNCHANGED <<req, attempt, resp, result, locks, srv, faults, started, blind>>

(* should_retry and delay_for.                                             *)
should_retry(n) == n < MaxRetries
delay_for(n) == 2 ^ (n - 1)

BacksOffUnlocked(c) ==
    /\ Sleep(c, "backoff", delay_for(attempt[c]))
    /\ resp' = [resp EXCEPT ![c] = NoResp]
    /\ routeLock' = [routeLock EXCEPT ![EndpointOf(c)] = Append(RemoveFirst(@, c), c)]
    /\ UNCHANGED <<globalLock, result>>
BacksOff(c) ==
    /\ Sleep(c, "backoff", delay_for(attempt[c]))
    /\ resp' = [resp EXCEPT ![c] = NoResp]
    /\ UNCHANGED <<locks, result>>

Respond(c) ==
    /\ pc[c] = "reset" /\ sleepIn[c] = 0
    /\ \/ resp[c].status >= 500 /\ should_retry(attempt[c]) /\ BacksOff(c)
       \/ /\ resp[c].status >= 400 /\ ~(resp[c].status >= 500 /\ should_retry(attempt[c]))
          /\ Leave(c, create_discord_error(resp[c].status)) /\ UNCHANGED sleepIn
       \/ resp[c].status < 400 /\ Leave(c, "ok") /\ UNCHANGED sleepIn
    /\ UNCHANGED <<req, attempt, globalIn, srv, faults, started, blind>>

(* TimeoutError or ClientError before the response is there, or while its  *)
(* body is read.                                                           *)
RequestFails(c) ==
    /\ pc[c] \in {"wire", "resp"} \/ (pc[c] = "reset" /\ sleepIn[c] = 0)
    /\ Fault
    /\ \/ should_retry(attempt[c]) /\ BacksOff(c)
       \/ ~should_retry(attempt[c]) /\ Leave(c, "network") /\ UNCHANGED sleepIn
    /\ blind' = [blind EXCEPT ![Bucket(c)] = @ \/ pc[c] = "resp"]
    /\ UNCHANGED <<req, attempt, globalIn, srv, started>>

BackoffEnds(c) ==
    /\ pc[c] = "backoff" /\ sleepIn[c] = 0
    /\ Sends(c)
    /\ attempt' = [attempt EXCEPT ![c] = @ + 1]
    /\ UNCHANGED <<req, sleepIn, resp, result, locks, globalIn, srv, faults, started>>

(* The task is cancelled at an await.                                      *)
Cancelled(c) ==
    /\ pc[c] \notin {"idle", "over"} /\ Fault
    /\ Leave(c, "cancelled")
    /\ blind' = [blind EXCEPT ![Bucket(c)] = @ \/ pc[c] \in {"resp", "reset"}]
    /\ UNCHANGED <<req, attempt, sleepIn, globalIn, srv, started>>

-----------------------------------------------------------------------------
Tick ==
    /\ sleepIn' = [c \in Calls |-> Elapsed(sleepIn[c])]
    /\ globalIn' = Elapsed(globalIn)
    /\ srv' = [b \in Buckets |-> Aged(srv[b])]
    /\ UNCHANGED <<pc, req, attempt, resp, result, locks, faults, started, blind>>

Task(c) ==
    \/ wait_for_global(c) \/ GlobalSleepEnds(c) \/ get_route_lock(c)
    \/ _check_rate_limit(c) \/ Respond(c) \/ BackoffEnds(c)

Discord(c) ==
    \/ \E s \in {200, 400, 500}, h \in BOOLEAN : SrvServes(c, s, h)
    \/ SrvLimits(c)
    \/ \E t \in 0 .. GlobalWindow : SrvGlobal(c, t)

Next ==
    \/ Tick
    \/ \E c \in Calls : Call(c) \/ Task(c) \/ Discord(c) \/ RequestFails(c) \/ Cancelled(c)

Spec == Init /\ [][Next]_vars

(* The event loop runs what is ready, time passes, and a request is        *)
(* answered: the session's total timeout ends one that is not.             *)
FairSpec == Spec /\ WF_vars(Tick) /\ \A c \in Calls : WF_vars(Task(c)) /\ WF_vars(Discord(c))

-----------------------------------------------------------------------------
(* Properties.                                                             *)

(* The queues of the locks.  A call is in the queue of the gate, then in   *)
(* that of its endpoint, then in none; who is in the retry loop, or sleeps *)
(* for a global reset, heads its queue; and calls stand in a queue, and    *)
(* pass from one to the next, in the order they were made.                 *)
AtGate  == {"gate", "gsleep"}
AtRoute == {"route"} \cup InRetryLoop
Before(c, d) ==
    \E i, j \in DOMAIN started : i < j /\ started[i] = c /\ started[j] = d
InOrder(q) == \A i, j \in DOMAIN q : i < j => Before(q[i], q[j])

MadeOnce ==
    /\ IsInjective(started)
    /\ \A c \in Calls : pc[c] # "idle" <=> c \in Range(started)
GateQueue ==
    /\ InOrder(globalLock)
    /\ \A c \in Calls : pc[c] \in AtGate <=> c \in Range(globalLock)
    /\ \A c \in Calls : pc[c] = "gsleep" => globalLock[1] = c
RouteQueues ==
    /\ \A e \in Endpoints : InOrder(routeLock[e])
    /\ \A c \in Calls, e \in Endpoints :
         (pc[c] \in AtRoute /\ EndpointOf(c) = e) <=> c \in Range(routeLock[e])
    /\ \A c \in Calls : pc[c] \in InRetryLoop => routeLock[EndpointOf(c)][1] = c
GateBeforeRoute ==
    \A c, d \in Calls : pc[c] \in AtRoute /\ pc[d] \in AtGate => Before(c, d)
RetriesLeft == \A c \in Calls : pc[c] = "backoff" => attempt[c] < MaxRetries
Queues == MadeOnce /\ GateQueue /\ RouteQueues /\ GateBeforeRoute
QueueInv == Queues /\ RetriesLeft

(* Calls for one endpoint (the messages of a channel) reach Discord in the *)
(* order they were made: none is sent while an earlier one is sleeping,    *)
(* retried or waiting, whatever the global gate did to them.               *)
SentInOrder ==
    \A i, j \in DOMAIN started :
        (i < j /\ EndpointOf(started[i]) = EndpointOf(started[j])
               /\ pc[started[j]] \in InRetryLoop) => pc[started[i]] = "over"
CallOrderKept == SentInOrder /\ QueueInv

(* Discord refuses a request (429 of the route) only when two requests of  *)
(* the bucket overlapped - which two items or two methods of a path can,   *)
(* their locks being others - or one that was counted escaped.             *)
LimitedOnlyWhenBlind ==
    \A c \in Calls :
        pc[c] \in {"resp", "reset"} /\ resp[c].status = 429 /\ ~resp[c].global => blind[Bucket(c)]

(* The inductive form: while nothing escaped, at most one request of the   *)
(* bucket is out, and the next one is not sent before the window has room. *)
Outstanding(b) == {c \in Calls : Bucket(c) = b /\ pc[c] \in {"wire", "resp", "reset"}}
HasRoom(w) == w.windowIn = 0 \/ w.left > 0
WindowInv ==
    \A b \in Buckets : ~blind[b] =>
        /\ \A c, d \in Outstanding(b) : c = d
        /\ Outstanding(b) = {} => HasRoom(srv[b])
        /\ \A c \in Outstanding(b) :
             \/ pc[c] = "wire" /\ HasRoom(srv[b])
             \/ pc[c] = "resp" /\ (HasRoom(srv[b]) \/ srv[b].windowIn <= ResetDelay(resp[c]))
             \/ pc[c] = "reset" /\ (HasRoom(srv[b]) \/ srv[b].windowIn <= sleepIn[c])

(* Both: the lock of an endpoint and the sleep for its reset keep a bucket *)
(* that nothing escapes within Discord's window.                           *)
WindowRespected == TypeOK /\ LimitedOnlyWhenBlind /\ WindowInv

(* Every call returns or raises, however the locks are shared.             *)
CallsReturn == \A c \in Calls : pc[c] = "gate" ~> pc[c] = "over"

(* "a single global lock that pauses every route while a global rate limit *)
(* window is active".                                                      *)
GlobalPausesEveryRoute ==
    [][\A c \in Calls : pc[c] # "wire" /\ pc'[c] = "wire" => globalIn = 0]_vars

(* "so concurrent requests to the same bucket don't trample one another".  *)
BucketsDoNotOverlap ==
    \A c, d \in Calls :
        c # d /\ Bucket(c) = Bucket(d) => ~(pc[c] \in {"wire", "resp"} /\ pc[d] \in {"wire", "resp"})
=============================================================================
