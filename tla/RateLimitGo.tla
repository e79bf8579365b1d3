---------------------------- MODULE RateLimitGo ----------------------------
(***************************************************************************)
(* REST requests of the Go SDK: Client.DoJSON (vaidcord-go/client.go) with *)
(* the rateLimiter it shares among goroutines (vaidcord-go/ratelimit.go).  *)
(* Every request is one call of DoJSON in a goroutine of its own; a        *)
(* critical section of the limiter's mutexes is one step.  Time is counted *)
(* down by Tick, so resetAt and globalUntil are the time left to them, and *)
(* a goroutine may stay asleep longer than its timer says.                 *)
(***************************************************************************)
EXTENDS DiscordBucket, Integers

CONSTANTS
    Requests,      \* calls of DoJSON
    Routes,        \* bucket keys (routeBucketKey)
    GlobalWindow,  \* Retry-After of a global 429
    MaxRetries,    \* Config.MaxRetries
    MaxFaults      \* bound: global 429s, 5xx, missing headers, network errors
                   \* and cancellations

ASSUME ConstantsAssumption ==
    /\ GlobalWindow \in Nat \ {0}
    /\ MaxRetries \in Nat
    /\ MaxFaults \in Nat

VARIABLES
    pc,        \* pc[r]: where the call is
    route,     \* route[r]: its key
    attempt,   \* attempt[r]
    backoff,   \* backoff[r], in time units
    sleepIn,   \* time left to the timer of sleepContext
    resp,      \* resp[r]: the response on its way back
    bucket,    \* bucket[k]: rateLimitBucket
    globalIn   \* time left to globalUntil

VARIABLES srv, faults     \* Discord's windows; faults so far

VARIABLES
    announced, passed,    \* history: the slots last announced for the route
                          \* and the calls of wait that returned since
    blind                 \* history: the limiter cannot know the window: two
                          \* requests of the route overlapped, or one was
                          \* counted and its headers did not arrive

callVars == <<route, attempt, backoff>>
history  == <<announced, passed, blind>>
vars == <<pc, route, attempt, backoff, sleepIn, resp, bucket, globalIn, srv, faults,
          announced, passed, blind>>

Places == {"idle", "global", "gsleep", "bucket", "bsleep", "wire", "resp", "limited", "retry",
           "done", "failed"}
Statuses == {"ok", "client", "server", "limited", "global"}
Resps == [status : Statuses, hdr : BOOLEAN, remaining : 0 .. Limit, after : Nat]
NoResp == [status |-> "ok", hdr |-> FALSE, remaining |-> 0, after |-> 0]
Buckets == [remaining : 0 .. Limit, known : BOOLEAN, resetIn : Nat]

(* Every variable keeps its type; a bucket never goes below zero.          *)
TypeOK ==
    /\ pc \in [Requests -> Places]
    /\ route \in [Requests -> Routes]
    /\ attempt \in [Requests -> 0 .. MaxRetries]
    /\ backoff \in [Requests -> Nat]
    /\ sleepIn \in [Requests -> Nat]
    /\ resp \in [Requests -> Resps]
    /\ bucket \in [Routes -> Buckets]
    /\ globalIn \in Nat
    /\ srv \in [Routes -> Windows]
    /\ faults \in 0 .. MaxFaults
    /\ announced \in [Routes -> 0 .. Limit]
    /\ passed \in [Routes -> Nat]
    /\ blind \in [Routes -> BOOLEAN]

Init ==
    /\ pc = [r \in Requests |-> "idle"]
    /\ route \in [Requests -> Routes]
    /\ attempt = [r \in Requests |-> 0]
    /\ backoff = [r \in Requests |-> 1]
    /\ sleepIn = [r \in Requests |-> 0]
    /\ resp = [r \in Requests |-> NoResp]
    /\ bucket = [k \in Routes |-> [remaining |-> 1, known |-> FALSE, resetIn |-> 0]]
    /\ globalIn = 0
    /\ srv = [k \in Routes |-> NoWindow]
    /\ faults = 0
    /\ announced = [k \in Routes |-> 0]
    /\ passed = [k \in Routes |-> 0]
    /\ blind = [k \in Routes |-> FALSE]

Fault == faults < MaxFaults /\ faults' = faults + 1

Goto(r, p) == pc' = [pc EXCEPT ![r] = p]
Sleep(r, p, t) == Goto(r, p) /\ sleepIn' = [sleepIn EXCEPT ![r] = t]

-----------------------------------------------------------------------------
(* wait and waitGlobal.                                                    *)

Start(r) ==
    /\ pc[r] = "idle"
    /\ Goto(r, "global")
    /\ UNCHANGED <<callVars, sleepIn, resp, bucket, globalIn, srv, faults, history>>

waitGlobal(r) ==
    /\ pc[r] = "global"
    /\ \/ globalIn = 0 /\ Goto(r, "bucket") /\ UNCHANGED sleepIn
       \/ globalIn > 0 /\ Sleep(r, "gsleep", globalIn)
    /\ UNCHANGED <<callVars, resp, bucket, globalIn, srv, faults, history>>

Outstanding(k) == {r \in Requests : route[r] = k /\ pc[r] \in {"wire", "resp"}}

(* wait returns: a known bucket loses a slot.                              *)
SlotNotTaken(b) == b
Taken(b) == IF b.known THEN [b EXCEPT !.remaining = @ - 1] ELSE b

Passes(r, b) ==
    /\ Goto(r, "wire")
    /\ bucket' = [bucket EXCEPT ![route[r]] = Taken(b)]
    /\ passed' = [passed EXCEPT ![route[r]] = IF b.resetIn > 0 THEN @ + 1 ELSE @]
    /\ blind' = [blind EXCEPT ![route[r]] = @ \/ Outstanding(route[r]) # {}]
    /\ UNCHANGED <<sleepIn, announced>>

Exhausted(b) == b.known /\ b.remaining <= 0

ResetNeverPassed(b) == FALSE
ResetPassed(b) == b.resetIn = 0

(* The critical section of wait: a bucket whose reset has passed is not    *)
(* known any more, and an exhausted one makes the caller sleep.            *)
wait(r) ==
    LET b == bucket[route[r]] IN
    /\ pc[r] = "bucket"
    /\ \/ ~Exhausted(b) /\ Passes(r, b)
       \/ /\ Exhausted(b) /\ ResetPassed(b)
          /\ Passes(r, [b EXCEPT !.remaining = 1, !.known = FALSE])
       \/ /\ Exhausted(b) /\ ~ResetPassed(b)
          /\ Sleep(r, "bsleep", b.resetIn)
          /\ UNCHANGED <<bucket, passed, announced, blind>>
    /\ UNCHANGED <<callVars, resp, globalIn, srv, faults>>

(* sleepContext returns nil; both loops look again.                        *)
Wakes(r) ==
    /\ sleepIn[r] = 0
    /\ \/ pc[r] = "gsleep" /\ Goto(r, "global")
       \/ pc[r] = "bsleep" /\ Goto(r, "bucket")
    /\ UNCHANGED <<callVars, sleepIn, resp, bucket, globalIn, srv, faults, history>>

-----------------------------------------------------------------------------
(* Discord (external) answers a request.                                   *)

Answer(r, m) == Goto(r, "resp") /\ resp' = [resp EXCEPT ![r] = m]

SrvServes(r, status) ==
    LET w == Consumed(srv[route[r]]) IN
    /\ pc[r] = "wire" /\ Admits(srv[route[r]])
    /\ srv' = [srv EXCEPT ![route[r]] = w]
    /\ \E h \in BOOLEAN :
         /\ Answer(r, [status |-> status, hdr |-> h, remaining |-> w.left, after |-> w.windowIn])
         /\ IF h /\ status # "server" THEN UNCHANGED faults ELSE Fault
    /\ UNCHANGED <<callVars, sleepIn, bucket, globalIn, history>>

SrvLimits(r) ==
    LET w == srv[route[r]] IN
    /\ pc[r] = "wire" /\ ~Admits(w)
    /\ Answer(r, [status |-> "limited", hdr |-> TRUE, remaining |-> 0, after |-> w.windowIn])
    /\ UNCHANGED <<callVars, sleepIn, bucket, globalIn, srv, faults, history>>

SrvGlobal(r) ==
    /\ pc[r] = "wire" /\ Fault
    /\ \E t \in 1 .. GlobalWindow :
         Answer(r, [status |-> "global", hdr |-> FALSE, remaining |-> 0, after |-> t])
    /\ UNCHANGED <<callVars, sleepIn, bucket, globalIn, srv, history>>

-----------------------------------------------------------------------------
(* DoJSON after c.http.Do.                                                 *)

Forget(r) == resp' = [resp EXCEPT ![r] = NoResp]

(* A request that was counted and whose headers are lost.                  *)
Lost(r) == blind' = [blind EXCEPT ![route[r]] = @ \/ pc[r] = "resp"]

DoFails(r) ==
    /\ pc[r] \in {"wire", "resp"} /\ Fault
    /\ Sleep(r, "retry", backoff[r])
    /\ backoff' = [backoff EXCEPT ![r] = 2 * @]
    /\ Lost(r) /\ Forget(r)
    /\ UNCHANGED <<route, attempt, bucket, globalIn, srv, announced, passed>>

Announces(r, b) ==
    /\ bucket' = [bucket EXCEPT ![route[r]] = b]
    /\ announced' = [announced EXCEPT ![route[r]] = b.remaining]
    /\ passed' = [passed EXCEPT ![route[r]] = 0]

(* limiter.update, then the switch on the status.                          *)
updateOffByOne(m) == [remaining |-> m.remaining + 1, known |-> TRUE, resetIn |-> m.after]
update(m) == [remaining |-> m.remaining, known |-> TRUE, resetIn |-> m.after]

Respond(r) ==
    LET m == resp[r] IN
    /\ pc[r] = "resp"
    /\ \/ m.hdr /\ Announces(r, update(m)) /\ UNCHANGED blind
       \/ ~m.hdr /\ blind' = [blind EXCEPT ![route[r]] = @ \/ m.status # "global"]
          /\ UNCHANGED <<bucket, announced, passed>>
    /\ \/ /\ m.status \in {"limited", "global"}
          /\ Goto(r, "limited")
          /\ UNCHANGED <<sleepIn, backoff, resp>>
       \/ /\ m.status = "server"
          /\ Sleep(r, "retry", backoff[r])
          /\ backoff' = [backoff EXCEPT ![r] = 2 * @]
          /\ Forget(r)
       \/ /\ m.status \in {"ok", "client"}
          /\ Goto(r, IF m.status = "ok" THEN "done" ELSE "failed")
          /\ Forget(r)
          /\ UNCHANGED <<sleepIn, backoff>>
    /\ UNCHANGED <<route, attempt, globalIn, srv, faults>>

(* The later of two global windows counts.                                 *)
GlobalUntil(t) == IF t > globalIn THEN t ELSE globalIn

(* limiter.handle429, a critical section after that of update.             *)
handle429(r) ==
    LET m == resp[r] IN
    /\ pc[r] = "limited"
    /\ \/ /\ m.status = "global"
          /\ globalIn' = GlobalUntil(m.after)
          /\ UNCHANGED <<bucket, announced, passed>>
       \/ /\ m.status = "limited"
          /\ Announces(r, [remaining |-> 0, known |-> TRUE, resetIn |-> m.after])
          /\ UNCHANGED globalIn
    /\ Sleep(r, "retry", m.after) /\ Forget(r)
    /\ UNCHANGED <<callVars, srv, faults, blind>>

(* The next attempt, or lastErr.                                           *)
Retry(r) ==
    /\ pc[r] = "retry" /\ sleepIn[r] = 0
    /\ \/ /\ attempt[r] < MaxRetries
          /\ attempt' = [attempt EXCEPT ![r] = @ + 1]
          /\ Goto(r, "global")
       \/ /\ attempt[r] = MaxRetries
          /\ Goto(r, "failed")
          /\ UNCHANGED attempt
    /\ UNCHANGED <<route, backoff, sleepIn, resp, bucket, globalIn, srv, faults, history>>

(* ctx is cancelled: sleepContext and http.Do return its error.            *)
Cancelled(r) ==
    /\ pc[r] \in {"gsleep", "bsleep", "retry", "wire", "resp"} /\ Fault
    /\ Goto(r, "failed")
    /\ Lost(r) /\ Forget(r)
    /\ UNCHANGED <<callVars, sleepIn, bucket, globalIn, srv, announced, passed>>

-----------------------------------------------------------------------------
Tick ==
    /\ sleepIn' = [r \in Requests |-> Elapsed(sleepIn[r])]
    /\ bucket' = [k \in Routes |-> [bucket[k] EXCEPT !.resetIn = Elapsed(@)]]
    /\ globalIn' = Elapsed(globalIn)
    /\ srv' = [k \in Routes |-> Aged(srv[k])]
    /\ UNCHANGED <<pc, callVars, resp, faults, history>>

DoJSON(r) ==
    \/ Start(r) \/ waitGlobal(r) \/ wait(r) \/ Wakes(r)
    \/ DoFails(r) \/ Respond(r) \/ handle429(r) \/ Retry(r) \/ Cancelled(r)

Discord(r) ==
    \/ \E s \in {"ok", "client", "server"} : SrvServes(r, s)
    \/ SrvLimits(r) \/ SrvGlobal(r)

Next == Tick \/ \E r \in Requests : DoJSON(r) \/ Discord(r)

Spec == Init /\ [][Next]_vars

(* Goroutines are scheduled, time passes and Discord answers.  The default *)
(* http.Client has no timeout: a server that never answers would keep the  *)
(* call until ctx ends.                                                    *)
Fairness ==
    /\ WF_vars(Tick)
    /\ \A r \in Requests :
         /\ WF_vars(waitGlobal(r)) /\ WF_vars(wait(r)) /\ WF_vars(Wakes(r))
         /\ WF_vars(Respond(r)) /\ WF_vars(handle429(r)) /\ WF_vars(Retry(r))
         /\ WF_vars(Discord(r))

FairSpec == Spec /\ Fairness

-----------------------------------------------------------------------------
(* Properties.                                                             *)

(* wait "optimistically consumes a slot": between two announcements for a  *)
(* route, and before its reset, no more calls of wait return than slots    *)
(* were announced, however many goroutines sleep on the bucket.            *)
NotMoreThanAnnounced ==
    \A k \in Routes : bucket[k].resetIn > 0 => passed[k] <= announced[k]

(* A 429 for the route is never the limiter's own doing: while requests of *)
(* the route follow one another and every answer has its headers, Discord  *)
(* has no reason to refuse one.                                            *)
LimitedOnlyWhenBlind ==
    \A r \in Requests :
        pc[r] \in {"resp", "limited"} /\ resp[r].status = "limited" => blind[route[r]]

(* The inductive form of NotMoreThanAnnounced: the slots taken and the     *)
(* slots left are those announced.                                         *)
SlotsInv ==
    \A k \in Routes :
        /\ ~bucket[k].known => bucket[k].resetIn = 0
        /\ bucket[k].resetIn > 0 => passed[k] + bucket[k].remaining <= announced[k]

(* The bucket promises n slots no later and no more than Discord's window  *)
(* grants.                                                                 *)
Agrees(b, w, n) ==
    \/ w.windowIn = 0
    \/ b.known /\ n <= w.left /\ w.windowIn <= b.resetIn

(* The inductive form of LimitedOnlyWhenBlind: while nothing escaped the   *)
(* limiter, its bucket agrees with Discord's window, with the slot of the  *)
(* request on the wire set aside, and so do the headers on their way back. *)
WindowInv ==
    /\ LimitedOnlyWhenBlind
    /\ \A k \in Routes : ~blind[k] =>
         /\ \A q, r \in Outstanding(k) : q = r
         /\ Outstanding(k) = {} => Agrees(bucket[k], srv[k], bucket[k].remaining)
         /\ \A r \in Outstanding(k) :
              \/ /\ pc[r] = "wire" \/ (resp[r].status = "global" /\ ~resp[r].hdr)
                 /\ Agrees(bucket[k], srv[k], bucket[k].remaining + 1)
              \/ /\ pc[r] = "resp" /\ resp[r].status # "global"
                 /\ resp[r].hdr =>
                      Agrees(update(resp[r]), srv[k], resp[r].remaining)

(* Every call of DoJSON returns.                                           *)
CallsReturn == \A r \in Requests : pc[r] = "global" ~> pc[r] \in {"done", "failed"}

(* "wait blocks until the route bucket (and the global window) allow one   *)
(* more request": no request leaves while the limiter knows of a global    *)
(* window.                                                                 *)
GlobalRespected ==
    [][\A r \in Requests : pc[r] = "bucket" /\ pc'[r] = "wire" => globalIn = 0]_vars
=============================================================================
