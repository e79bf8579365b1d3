------------------------- MODULE RateLimitGoProofs -------------------------
(***************************************************************************)
(* Proofs about RateLimitGo for any number of requests, routes, slots,     *)
(* retries and faults: type correctness, NotMoreThanAnnounced through      *)
(* SlotsInv, and LimitedOnlyWhenBlind through WindowInv.                   *)
(***************************************************************************)
EXTENDS RateLimitGo, TLAPS

-----------------------------------------------------------------------------
(* Type correctness.                                                       *)

(* Timers stay natural numbers when time passes.                           *)
LEMMA ElapsedNat ==
    ASSUME NEW t \in Nat
    PROVE  /\ Elapsed(t) \in Nat
           /\ Elapsed(t) <= t
           /\ t > 0 => Elapsed(t) = t - 1
           /\ t = 0 => Elapsed(t) = 0
  BY DEF Elapsed

(* Discord's window keeps its shape when a request opens or uses it.       *)
LEMMA WindowTypes ==
    ASSUME NEW w \in Windows
    PROVE  /\ NoWindow \in Windows
           /\ Opened(w) \in Windows
           /\ Admits(w) => Consumed(w) \in Windows
           /\ Aged(w) \in Windows
  <1>0. Limit \in Nat \ {0} /\ Window \in Nat \ {0}
    BY BucketAssumption
  <1>1. NoWindow \in Windows
    BY <1>0 DEF NoWindow, Windows
  <1>2. Opened(w) \in Windows
    BY <1>0 DEF Opened, Windows
  <1>3. Admits(w) => Consumed(w) \in Windows
    BY <1>0, <1>2 DEF Admits, Consumed, Windows
  <1>4. Aged(w) \in Windows
    BY <1>0 DEF Aged, Windows, Elapsed
  <1> QED BY <1>1, <1>2, <1>3, <1>4

(* update and handle429 store well-formed buckets; so do wait and Tick.    *)
LEMMA BucketTypes ==
    /\ \A m \in Resps : update(m) \in Buckets
    /\ \A m \in Resps : [remaining |-> 0, known |-> TRUE, resetIn |-> m.after] \in Buckets
    /\ \A b \in Buckets : [b EXCEPT !.remaining = 1, !.known = FALSE] \in Buckets
    /\ \A b \in Buckets : ~Exhausted(b) => Taken(b) \in Buckets
    /\ \A b \in Buckets : Taken([b EXCEPT !.remaining = 1, !.known = FALSE]) \in Buckets
    /\ \A b \in Buckets : [b EXCEPT !.resetIn = Elapsed(@)] \in Buckets
  <1>0. Limit \in Nat \ {0}
    BY BucketAssumption
  <1>1. \A m \in Resps : update(m) \in Buckets
    BY <1>0 DEF Resps, update, Buckets
  <1>2. \A m \in Resps : [remaining |-> 0, known |-> TRUE, resetIn |-> m.after] \in Buckets
    BY <1>0 DEF Resps, Buckets
  <1>3. \A b \in Buckets : [b EXCEPT !.remaining = 1, !.known = FALSE] \in Buckets
    <2>1. 1 \in 0 .. Limit
      BY <1>0
    <2>2. \A b \in Buckets : [b EXCEPT !.remaining = 1] \in Buckets
      BY <2>1 DEF Buckets
    <2>3. \A b \in Buckets : [b EXCEPT !.known = FALSE] \in Buckets
      BY Zenon DEF Buckets
    <2> QED BY <2>2, <2>3, Zenon
  <1>4. \A b \in Buckets : ~Exhausted(b) => Taken(b) \in Buckets
    <2> SUFFICES ASSUME NEW b \in Buckets, ~Exhausted(b) PROVE Taken(b) \in Buckets
      OBVIOUS
    <2>1. CASE b.known
      <3>1. b.remaining \in 1 .. Limit
        BY <1>0, <2>1 DEF Buckets, Exhausted
      <3>2. [b EXCEPT !.remaining = @ - 1] \in Buckets
        BY <1>0, <3>1 DEF Buckets
      <3> QED BY <2>1, <3>2 DEF Taken
    <2>2. CASE ~b.known
      BY <2>2 DEF Taken
    <2> QED BY <2>1, <2>2
  <1>5. \A b \in Buckets : Taken([b EXCEPT !.remaining = 1, !.known = FALSE]) \in Buckets
    <2> SUFFICES ASSUME NEW b \in Buckets
                 PROVE  Taken([b EXCEPT !.remaining = 1, !.known = FALSE]) \in Buckets
      OBVIOUS
    <2>1. [b EXCEPT !.remaining = 1, !.known = FALSE].known = FALSE
      BY Zenon DEF Buckets
    <2> QED BY <1>3, <2>1 DEF Taken
  <1>6. \A b \in Buckets : [b EXCEPT !.resetIn = Elapsed(@)] \in Buckets
    BY <1>0, ElapsedNat DEF Buckets
  <1> QED BY <1>1, <1>2, <1>3, <1>4, <1>5, <1>6

(* What a call of wait does when it returns: it goes on to the wire, the   *)
(* bucket stays well-formed, the pass is counted and the overlap noted.    *)
LEMMA PassesTypes ==
    ASSUME TypeOK, NEW r \in Requests, NEW b, Taken(b) \in Buckets, b.resetIn \in Nat,
           Passes(r, b)
    PROVE  /\ pc' \in [Requests -> Places]
           /\ bucket' \in [Routes -> Buckets]
           /\ passed' \in [Routes -> Nat]
           /\ blind' \in [Routes -> BOOLEAN]
           /\ UNCHANGED <<sleepIn, announced>>
  <1>1. pc' \in [Requests -> Places]
    BY DEF Passes, Goto, TypeOK, Places
  <1>2. bucket' \in [Routes -> Buckets]
    BY DEF Passes, TypeOK
  <1>3. passed' \in [Routes -> Nat]
    BY DEF Passes, TypeOK
  <1>4. blind' \in [Routes -> BOOLEAN]
    BY Zenon DEF Passes, TypeOK
  <1> QED BY <1>1, <1>2, <1>3, <1>4 DEF Passes

(* Init gives every variable its type.                                     *)
LEMMA TypeInit == Init => TypeOK
  <1> SUFFICES ASSUME Init PROVE TypeOK
    OBVIOUS
  <1>0. Limit \in Nat \ {0} /\ MaxRetries \in Nat /\ MaxFaults \in Nat
    BY BucketAssumption, ConstantsAssumption
  <1>1. NoResp \in Resps
    BY <1>0 DEF NoResp, Resps, Statuses
  <1>2. [remaining |-> 1, known |-> FALSE, resetIn |-> 0] \in Buckets
    BY <1>0 DEF Buckets
  <1>3. NoWindow \in Windows
    BY BucketAssumption DEF NoWindow, Windows
  <1>4. /\ pc \in [Requests -> Places] /\ route \in [Requests -> Routes]
        /\ attempt \in [Requests -> 0 .. MaxRetries] /\ backoff \in [Requests -> Nat]
        /\ sleepIn \in [Requests -> Nat] /\ resp \in [Requests -> Resps]
    BY <1>0, <1>1 DEF Init, Places
  <1>5. /\ bucket \in [Routes -> Buckets] /\ globalIn \in Nat
        /\ srv \in [Routes -> Windows] /\ faults \in 0 .. MaxFaults
    BY <1>0, <1>2, <1>3 DEF Init
  <1>6. announced \in [Routes -> 0 .. Limit] /\ passed \in [Routes -> Nat]
    BY <1>0 DEF Init
  <1>7. blind \in [Routes -> BOOLEAN]
    BY Zenon DEF Init
  <1> QED BY <1>4, <1>5, <1>6, <1>7 DEF TypeOK

(* Every step keeps the types, action by action.                           *)
LEMMA TypeStep == TypeOK /\ [Next]_vars => TypeOK'
  <1> SUFFICES ASSUME TypeOK, [Next]_vars PROVE TypeOK'
    OBVIOUS
  <1>0. Limit \in Nat \ {0} /\ MaxRetries \in Nat /\ MaxFaults \in Nat /\ GlobalWindow \in Nat
    BY BucketAssumption, ConstantsAssumption
  <1>n. NoResp \in Resps
    BY <1>0 DEF NoResp, Resps, Statuses
  <1>1. ASSUME NEW r \in Requests, Start(r) PROVE TypeOK'
    BY <1>1 DEF Start, Goto, TypeOK, Places, callVars, history
  <1>2. ASSUME NEW r \in Requests, waitGlobal(r) PROVE TypeOK'
    <2>1. pc' \in [Requests -> Places] /\ sleepIn' \in [Requests -> Nat]
      BY <1>2 DEF waitGlobal, Goto, Sleep, TypeOK, Places
    <2> QED BY <1>2, <2>1 DEF waitGlobal, TypeOK, callVars, history
  <1>3. ASSUME NEW r \in Requests, wait(r) PROVE TypeOK'
    <2>0. bucket[route[r]] \in Buckets
      BY DEF TypeOK
    <2>1. CASE ~Exhausted(bucket[route[r]]) /\ Passes(r, bucket[route[r]])
      <3>1. Taken(bucket[route[r]]) \in Buckets /\ bucket[route[r]].resetIn \in Nat
        BY <2>0, <2>1, BucketTypes DEF Buckets
      <3>2. /\ pc' \in [Requests -> Places] /\ bucket' \in [Routes -> Buckets]
            /\ passed' \in [Routes -> Nat] /\ blind' \in [Routes -> BOOLEAN]
            /\ UNCHANGED <<sleepIn, announced>>
        BY <2>1, <3>1, PassesTypes
      <3> QED BY <1>3, <3>2 DEF wait, TypeOK, callVars
    <2>2. CASE Passes(r, [bucket[route[r]] EXCEPT !.remaining = 1, !.known = FALSE])
      <3> DEFINE b == [bucket[route[r]] EXCEPT !.remaining = 1, !.known = FALSE]
      <3>1. Taken(b) \in Buckets /\ b.resetIn \in Nat
        BY <2>0, BucketTypes DEF Buckets
      <3>2. /\ pc' \in [Requests -> Places] /\ bucket' \in [Routes -> Buckets]
            /\ passed' \in [Routes -> Nat] /\ blind' \in [Routes -> BOOLEAN]
            /\ UNCHANGED <<sleepIn, announced>>
        BY <2>2, <3>1, PassesTypes
      <3> QED BY <1>3, <3>2 DEF wait, TypeOK, callVars
    <2>3. CASE /\ Sleep(r, "bsleep", bucket[route[r]].resetIn)
               /\ UNCHANGED <<bucket, passed, announced, blind>>
      <3>1. pc' \in [Requests -> Places] /\ sleepIn' \in [Requests -> Nat]
        BY <2>0, <2>3 DEF Sleep, Goto, TypeOK, Places, Buckets
      <3> QED BY <1>3, <2>3, <3>1 DEF wait, TypeOK, callVars
    <2> QED BY <1>3, <2>1, <2>2, <2>3 DEF wait
  <1>4. ASSUME NEW r \in Requests, Wakes(r) PROVE TypeOK'
    <2>1. pc' \in [Requests -> Places]
      BY <1>4 DEF Wakes, Goto, TypeOK, Places
    <2> QED BY <1>4, <2>1 DEF Wakes, TypeOK, callVars, history
  <1>5. ASSUME NEW r \in Requests, DoFails(r) PROVE TypeOK'
    <2>1. pc' \in [Requests -> Places] /\ sleepIn' \in [Requests -> Nat]
      BY <1>5 DEF DoFails, Sleep, Goto, TypeOK, Places
    <2>2. backoff' \in [Requests -> Nat] /\ faults' \in 0 .. MaxFaults
      BY <1>0, <1>5 DEF DoFails, Fault, TypeOK
    <2>3. resp' \in [Requests -> Resps]
      BY <1>n, <1>5 DEF DoFails, Forget, TypeOK
    <2>4. blind' \in [Routes -> BOOLEAN]
      BY <1>5, Zenon DEF DoFails, Lost, TypeOK
    <2> QED BY <1>5, <2>1, <2>2, <2>3, <2>4 DEF DoFails, TypeOK
  <1>6. ASSUME NEW r \in Requests, Respond(r) PROVE TypeOK'
    <2>0. resp[r] \in Resps
      BY DEF TypeOK
    <2>1. pc' \in [Requests -> Places] /\ sleepIn' \in [Requests -> Nat]
      BY <1>6 DEF Respond, Sleep, Goto, TypeOK, Places
    <2>2. backoff' \in [Requests -> Nat]
      BY <1>6 DEF Respond, TypeOK
    <2>3. resp' \in [Requests -> Resps]
      BY <1>n, <1>6 DEF Respond, Forget, TypeOK
    <2>4. /\ bucket' \in [Routes -> Buckets]
          /\ announced' \in [Routes -> 0 .. Limit]
          /\ passed' \in [Routes -> Nat]
      <3>1. update(resp[r]) \in Buckets /\ update(resp[r]).remaining \in 0 .. Limit
        BY <2>0, BucketTypes DEF Buckets
      <3> QED BY <1>6, <3>1 DEF Respond, Announces, TypeOK
    <2>5. blind' \in [Routes -> BOOLEAN]
      BY <1>6, Zenon DEF Respond, TypeOK
    <2> QED BY <1>6, <2>1, <2>2, <2>3, <2>4, <2>5 DEF Respond, TypeOK
  <1>7. ASSUME NEW r \in Requests, handle429(r) PROVE TypeOK'
    <2>0. resp[r] \in Resps
      BY DEF TypeOK
    <2>1. pc' \in [Requests -> Places] /\ sleepIn' \in [Requests -> Nat]
      BY <1>7, <2>0 DEF handle429, Sleep, Goto, TypeOK, Places, Resps
    <2>2. resp' \in [Requests -> Resps]
      BY <1>n, <1>7 DEF handle429, Forget, TypeOK
    <2>3. globalIn' \in Nat
      BY <1>7, <2>0 DEF handle429, GlobalUntil, TypeOK, Resps
    <2>4. /\ bucket' \in [Routes -> Buckets]
          /\ announced' \in [Routes -> 0 .. Limit]
          /\ passed' \in [Routes -> Nat]
      <3>1. [remaining |-> 0, known |-> TRUE, resetIn |-> resp[r].after] \in Buckets
        BY <2>0, BucketTypes
      <3>2. CASE UNCHANGED <<bucket, announced, passed>>
        BY <3>2 DEF TypeOK
      <3>3. CASE Announces(r, [remaining |-> 0, known |-> TRUE, resetIn |-> resp[r].after])
        BY <1>0, <3>1, <3>3 DEF Announces, TypeOK
      <3> QED BY <1>7, <3>2, <3>3 DEF handle429
    <2> QED BY <1>7, <2>1, <2>2, <2>3, <2>4 DEF handle429, TypeOK, callVars
  <1>8. ASSUME NEW r \in Requests, Retry(r) PROVE TypeOK'
    <2>1. pc' \in [Requests -> Places] /\ attempt' \in [Requests -> 0 .. MaxRetries]
      BY <1>0, <1>8 DEF Retry, Goto, TypeOK, Places
    <2> QED BY <1>8, <2>1 DEF Retry, TypeOK, history
  <1>9. ASSUME NEW r \in Requests, Cancelled(r) PROVE TypeOK'
    <2>1. pc' \in [Requests -> Places] /\ faults' \in 0 .. MaxFaults
      BY <1>0, <1>9 DEF Cancelled, Goto, Fault, TypeOK, Places
    <2>2. resp' \in [Requests -> Resps]
      BY <1>n, <1>9 DEF Cancelled, Forget, TypeOK
    <2>3. blind' \in [Routes -> BOOLEAN]
      BY <1>9, Zenon DEF Cancelled, Lost, TypeOK
    <2> QED BY <1>9, <2>1, <2>2, <2>3 DEF Cancelled, TypeOK, callVars
  <1>10. ASSUME NEW r \in Requests, NEW s \in {"ok", "client", "server"}, SrvServes(r, s)
         PROVE  TypeOK'
    <2>0. srv[route[r]] \in Windows
      BY DEF TypeOK
    <2>1. Consumed(srv[route[r]]) \in Windows
      BY <1>10, <2>0, WindowTypes DEF SrvServes
    <2>2. srv' \in [Routes -> Windows]
      BY <1>10, <2>1 DEF SrvServes, TypeOK
    <2>3. \A h \in BOOLEAN : [status |-> s, hdr |-> h, remaining |-> Consumed(srv[route[r]]).left,
                              after |-> Consumed(srv[route[r]]).windowIn] \in Resps
      BY <1>0, <2>1, BucketAssumption DEF Resps, Statuses, Windows
    <2>4. pc' \in [Requests -> Places] /\ resp' \in [Requests -> Resps]
      BY <1>10, <2>3 DEF SrvServes, Answer, Goto, TypeOK, Places
    <2>5. faults' \in 0 .. MaxFaults
      BY <1>0, <1>10 DEF SrvServes, Fault, TypeOK
    <2> QED BY <1>10, <2>2, <2>4, <2>5 DEF SrvServes, TypeOK, callVars, history
  <1>11. ASSUME NEW r \in Requests, SrvLimits(r) PROVE TypeOK'
    <2>1. [status |-> "limited", hdr |-> TRUE, remaining |-> 0,
           after |-> srv[route[r]].windowIn] \in Resps
      BY <1>0, BucketAssumption DEF Resps, Statuses, Windows, TypeOK
    <2>2. pc' \in [Requests -> Places] /\ resp' \in [Requests -> Resps]
      BY <1>11, <2>1 DEF SrvLimits, Answer, Goto, TypeOK, Places
    <2> QED BY <1>11, <2>2 DEF SrvLimits, TypeOK, callVars, history
  <1>12. ASSUME NEW r \in Requests, SrvGlobal(r) PROVE TypeOK'
    <2>1. \A t \in 1 .. GlobalWindow :
            [status |-> "global", hdr |-> FALSE, remaining |-> 0, after |-> t] \in Resps
      BY <1>0 DEF Resps, Statuses
    <2>2. pc' \in [Requests -> Places] /\ resp' \in [Requests -> Resps]
      BY <1>12, <2>1 DEF SrvGlobal, Answer, Goto, TypeOK, Places
    <2>3. faults' \in 0 .. MaxFaults
      BY <1>0, <1>12 DEF SrvGlobal, Fault, TypeOK
    <2> QED BY <1>12, <2>2, <2>3 DEF SrvGlobal, TypeOK, callVars, history
  <1>13. CASE Tick
    <2>1. sleepIn' \in [Requests -> Nat] /\ globalIn' \in Nat
      BY <1>13, ElapsedNat DEF Tick, TypeOK
    <2>2. bucket' \in [Routes -> Buckets]
      BY <1>13, BucketTypes DEF Tick, TypeOK
    <2>3. srv' \in [Routes -> Windows]
      BY <1>13, WindowTypes DEF Tick, TypeOK
    <2> QED BY <1>13, <2>1, <2>2, <2>3 DEF Tick, TypeOK, callVars, history
  <1>14. CASE UNCHANGED vars
    BY <1>14 DEF vars, TypeOK
  <1> QED BY <1>1, <1>2, <1>3, <1>4, <1>5, <1>6, <1>7, <1>8, <1>9, <1>10, <1>11, <1>12, <1>13,
             <1>14 DEF Next, DoJSON, Discord

(* Every variable of DoJSON and the limiter keeps its type; in particular  *)
(* no interleaving of wait takes a bucket below zero.                      *)
THEOREM TypeCorrect == Spec => []TypeOK
  BY TypeInit, TypeStep, PTL DEF Spec

-----------------------------------------------------------------------------
(* The slots of a route.                                                   *)

(* The part of SlotsInv about one route, over its bucket and counters.     *)
Slots(b, p, a) ==
    /\ ~b.known => b.resetIn = 0
    /\ b.resetIn > 0 => p + b.remaining <= a

(* A call of wait that returns moves a slot from remaining to passed.      *)
LEMMA SlotTaken ==
    ASSUME NEW b \in Buckets, NEW p \in Nat, NEW a \in Nat, Slots(b, p, a), ~Exhausted(b)
    PROVE  Slots(Taken(b), IF b.resetIn > 0 THEN p + 1 ELSE p, a)
  <1>0. b.remaining \in Nat /\ b.resetIn \in Nat
    BY BucketAssumption DEF Buckets
  <1>1. CASE b.known
    <2>1. /\ Taken(b).remaining = b.remaining - 1
          /\ Taken(b).resetIn = b.resetIn
      BY <1>1 DEF Taken, Buckets
    <2>2. Taken(b).known
      BY <1>1, Zenon DEF Taken, Buckets
    <2> QED BY <1>0, <2>1, <2>2 DEF Slots
  <1>2. CASE ~b.known
    BY <1>0, <1>2 DEF Taken, Slots
  <1> QED BY <1>1, <1>2

(* A bucket that is reset promises nothing.                                *)
LEMMA SlotReset ==
    ASSUME NEW b \in Buckets, b.resetIn = 0, NEW p \in Nat, NEW a \in Nat
    PROVE  LET c == [b EXCEPT !.remaining = 1, !.known = FALSE] IN
           /\ Taken(c) = c
           /\ c.resetIn = 0
           /\ Slots(c, p, a)
  <1> DEFINE c == [b EXCEPT !.remaining = 1, !.known = FALSE]
  <1>1. c.resetIn = 0
    BY DEF Buckets
  <1>2. ~c.known
    BY Zenon DEF Buckets
  <1> HIDE DEF c
  <1>3. Taken(c) = c
    BY <1>2 DEF Taken
  <1>4. Slots(c, p, a)
    BY <1>1 DEF Slots
  <1> QED BY <1>1, <1>3, <1>4 DEF c

(* An announcement starts a new count.                                     *)
LEMMA SlotsAnnounced ==
    ASSUME TypeOK, SlotsInv, NEW r \in Requests, NEW b \in Buckets, b.known, Announces(r, b)
    PROVE  SlotsInv'
  <1> SUFFICES ASSUME NEW k \in Routes
               PROVE  /\ ~bucket'[k].known => bucket'[k].resetIn = 0
                      /\ bucket'[k].resetIn > 0 => passed'[k] + bucket'[k].remaining <= announced'[k]
    BY DEF SlotsInv
  <1>1. CASE k = route[r]
    <2>1. bucket'[k] = b /\ passed'[k] = 0 /\ announced'[k] = b.remaining
      BY <1>1 DEF Announces, TypeOK
    <2>2. b.remaining \in Nat
      BY BucketAssumption DEF Buckets
    <2> QED BY <2>1, <2>2
  <1>2. CASE k # route[r]
    <2>1. bucket'[k] = bucket[k] /\ passed'[k] = passed[k] /\ announced'[k] = announced[k]
      BY <1>2 DEF Announces, TypeOK
    <2> QED BY <2>1 DEF SlotsInv
  <1> QED BY <1>1, <1>2

(* A call of wait that returns keeps the count.                            *)
LEMMA SlotsPassed ==
    ASSUME TypeOK, SlotsInv, NEW r \in Requests, NEW b, Passes(r, b),
           Slots(Taken(b), IF b.resetIn > 0 THEN passed[route[r]] + 1 ELSE passed[route[r]],
                 announced[route[r]])
    PROVE  SlotsInv'
  <1> SUFFICES ASSUME NEW k \in Routes
               PROVE  /\ ~bucket'[k].known => bucket'[k].resetIn = 0
                      /\ bucket'[k].resetIn > 0 => passed'[k] + bucket'[k].remaining <= announced'[k]
    BY DEF SlotsInv
  <1>1. CASE k = route[r]
    <2>1. /\ bucket'[k] = Taken(b)
          /\ passed'[k] = IF b.resetIn > 0 THEN passed[route[r]] + 1 ELSE passed[route[r]]
          /\ announced'[k] = announced[route[r]]
      BY <1>1 DEF Passes, TypeOK
    <2> QED BY <2>1 DEF Slots
  <1>2. CASE k # route[r]
    <2>1. bucket'[k] = bucket[k] /\ passed'[k] = passed[k] /\ announced'[k] = announced[k]
      BY <1>2 DEF Passes, TypeOK
    <2> QED BY <2>1 DEF SlotsInv
  <1> QED BY <1>1, <1>2

(* SlotsInv is inductive: only wait, update, handle429 and time touch it.  *)
LEMMA SlotsStep == TypeOK /\ SlotsInv /\ [Next]_vars => SlotsInv'
  <1> SUFFICES ASSUME TypeOK, SlotsInv, [Next]_vars PROVE SlotsInv'
    OBVIOUS
  <1>1. CASE UNCHANGED <<bucket, announced, passed>>
    BY <1>1 DEF SlotsInv
  <1>2. ASSUME NEW r \in Requests, wait(r) PROVE SlotsInv'
    <2> DEFINE b == bucket[route[r]]
               c == [b EXCEPT !.remaining = 1, !.known = FALSE]
    <2>0. /\ route[r] \in Routes /\ b \in Buckets
          /\ passed[route[r]] \in Nat /\ announced[route[r]] \in Nat
      BY BucketAssumption DEF TypeOK
    <2>1. CASE ~Exhausted(b) /\ Passes(r, b)
      <3>1. Slots(b, passed[route[r]], announced[route[r]])
        BY <2>0 DEF SlotsInv, Slots
      <3>2. Slots(Taken(b), IF b.resetIn > 0 THEN passed[route[r]] + 1 ELSE passed[route[r]],
                  announced[route[r]])
        BY <2>0, <2>1, <3>1, SlotTaken
      <3> QED BY <2>1, <3>2, SlotsPassed
    <2>2. CASE ResetPassed(b) /\ Passes(r, c)
      <3>1. Taken(c) = c /\ c.resetIn = 0 /\ Slots(c, passed[route[r]], announced[route[r]])
        BY <2>0, <2>2, SlotReset DEF ResetPassed
      <3>2. Slots(Taken(c), IF c.resetIn > 0 THEN passed[route[r]] + 1 ELSE passed[route[r]],
                  announced[route[r]])
        BY <3>1
      <3> QED BY <2>2, <3>2, SlotsPassed
    <2>3. CASE UNCHANGED <<bucket, passed, announced, blind>>
      BY <1>1, <2>3
    <2> QED BY <1>2, <2>1, <2>2, <2>3 DEF wait
  <1>3. ASSUME NEW r \in Requests, Respond(r) PROVE SlotsInv'
    <2>1. update(resp[r]) \in Buckets
      BY BucketTypes DEF TypeOK
    <2>2. update(resp[r]).known
      BY DEF update
    <2> QED BY <1>1, <1>3, <2>1, <2>2, SlotsAnnounced DEF Respond
  <1>4. ASSUME NEW r \in Requests, handle429(r) PROVE SlotsInv'
    <2>1. [remaining |-> 0, known |-> TRUE, resetIn |-> resp[r].after] \in Buckets
      BY BucketTypes DEF TypeOK
    <2> QED BY <1>1, <1>4, <2>1, SlotsAnnounced DEF handle429
  <1>5. CASE Tick
    <2> SUFFICES ASSUME NEW k \in Routes
                 PROVE  /\ ~bucket'[k].known => bucket'[k].resetIn = 0
                        /\ bucket'[k].resetIn > 0
                             => passed'[k] + bucket'[k].remaining <= announced'[k]
      BY DEF SlotsInv
    <2>1. bucket[k] \in Buckets /\ bucket[k].resetIn \in Nat
      BY DEF TypeOK, Buckets
    <2>2. /\ bucket'[k].resetIn = Elapsed(bucket[k].resetIn)
          /\ bucket'[k].remaining = bucket[k].remaining
      BY <1>5, <2>1 DEF Tick, Buckets
    <2>3. bucket'[k].known = bucket[k].known
      BY <1>5, <2>1, Zenon DEF Tick, Buckets
    <2>4. passed'[k] = passed[k] /\ announced'[k] = announced[k]
      BY <1>5 DEF Tick, history
    <2> QED BY <2>1, <2>2, <2>3, <2>4, ElapsedNat DEF SlotsInv
  <1>6. ASSUME NEW r \in Requests,
               Start(r) \/ waitGlobal(r) \/ Wakes(r) \/ DoFails(r) \/ Retry(r) \/ Cancelled(r)
        PROVE  SlotsInv'
    BY <1>1, <1>6 DEF Start, waitGlobal, Wakes, DoFails, Retry, Cancelled, history
  <1>7. ASSUME NEW r \in Requests, Discord(r) PROVE SlotsInv'
    BY <1>1, <1>7 DEF Discord, SrvServes, SrvLimits, SrvGlobal, history
  <1>8. CASE UNCHANGED vars
    BY <1>1, <1>8 DEF vars
  <1> QED BY <1>2, <1>3, <1>4, <1>5, <1>6, <1>7, <1>8 DEF Next, DoJSON

(* SlotsInv holds at first and in every reachable state.                   *)
LEMMA SlotsInvariant == Spec => []SlotsInv
  <1>1. Init => SlotsInv
    BY DEF Init, SlotsInv
  <1> QED BY <1>1, SlotsStep, TypeCorrect, PTL DEF Spec

(* Between two announcements of a route's slots, and before the announced  *)
(* reset, no more calls of wait return than slots were announced, for any  *)
(* number of goroutines asleep on the bucket.                              *)
THEOREM AnnouncedSlots == Spec => []NotMoreThanAnnounced
  <1>1. TypeOK /\ SlotsInv => NotMoreThanAnnounced
    <2> SUFFICES ASSUME TypeOK, SlotsInv, NEW k \in Routes, bucket[k].resetIn > 0
                 PROVE  passed[k] <= announced[k]
      BY DEF NotMoreThanAnnounced
    <2>1. bucket[k].remaining \in Nat /\ passed[k] \in Nat /\ announced[k] \in Nat
      BY BucketAssumption DEF TypeOK, Buckets
    <2> QED BY <2>1 DEF SlotsInv
  <1> QED BY <1>1, TypeCorrect, SlotsInvariant, PTL

-----------------------------------------------------------------------------
(* The bucket and Discord's window.                                        *)

(* The part of WindowInv about one route.                                  *)
RouteInv(k) ==
    ~blind[k] =>
        /\ \A q, r \in Outstanding(k) : q = r
        /\ Outstanding(k) = {} => Agrees(bucket[k], srv[k], bucket[k].remaining)
        /\ \A r \in Outstanding(k) :
             \/ /\ pc[r] = "wire" \/ (resp[r].status = "global" /\ ~resp[r].hdr)
                /\ Agrees(bucket[k], srv[k], bucket[k].remaining + 1)
             \/ /\ pc[r] = "resp" /\ resp[r].status # "global"
                /\ resp[r].hdr => Agrees(update(resp[r]), srv[k], resp[r].remaining)

(* WindowInv is LimitedOnlyWhenBlind and one part per route.               *)
LEMMA WindowInvParts ==
    /\ WindowInv <=> LimitedOnlyWhenBlind /\ \A k \in Routes : RouteInv(k)
    /\ WindowInv' <=> LimitedOnlyWhenBlind' /\ \A k \in Routes : RouteInv(k)'
  BY DEF WindowInv, RouteInv

(* A slot that is set aside and not used is still promised.                *)
LEMMA AgreesWeaken ==
    ASSUME NEW b \in Buckets, NEW w \in Windows, Agrees(b, w, b.remaining + 1)
    PROVE  Agrees(b, w, b.remaining)
  <1>1. b.remaining \in Nat /\ w.left \in Nat
    BY BucketAssumption DEF Buckets, Windows
  <1> QED BY <1>1 DEF Agrees

(* Discord admits a request whose slot is promised.                        *)
LEMMA AgreesAdmits ==
    ASSUME NEW b \in Buckets, NEW w \in Windows, Agrees(b, w, b.remaining + 1)
    PROVE  Admits(w)
  <1>1. b.remaining \in Nat /\ w.left \in Nat /\ Limit \in Nat \ {0}
    BY BucketAssumption DEF Buckets, Windows
  <1>2. CASE w.windowIn = 0
    BY <1>1, <1>2 DEF Admits, Opened
  <1>3. CASE w.windowIn # 0
    <2>1. Opened(w) = w
      BY <1>3 DEF Opened
    <2>2. b.remaining + 1 <= w.left
      BY <1>3 DEF Agrees
    <2> QED BY <1>1, <2>1, <2>2 DEF Admits
  <1> QED BY <1>2, <1>3

(* Time does not make a promise false: Discord's window ends no later.     *)
LEMMA AgreesAged ==
    ASSUME NEW b \in Buckets, NEW w \in Windows, NEW n, Agrees(b, w, n)
    PROVE  /\ Agrees(b, Aged(w), n)
           /\ Agrees([b EXCEPT !.resetIn = Elapsed(@)], Aged(w), n)
  <1>1. b.resetIn \in Nat /\ w.windowIn \in Nat
    BY BucketAssumption DEF Buckets, Windows
  <1>2. Aged(w).windowIn = Elapsed(w.windowIn) /\ Aged(w).left = w.left
    BY DEF Aged, Windows
  <1>3. [b EXCEPT !.resetIn = Elapsed(@)].resetIn = Elapsed(b.resetIn)
    BY DEF Buckets
  <1>4. [b EXCEPT !.resetIn = Elapsed(@)].known = b.known
    BY Zenon DEF Buckets
  <1>5. /\ w.windowIn = 0 => Elapsed(w.windowIn) = 0
        /\ w.windowIn <= b.resetIn => Elapsed(w.windowIn) <= b.resetIn
        /\ w.windowIn <= b.resetIn => Elapsed(w.windowIn) <= Elapsed(b.resetIn)
    BY <1>1 DEF Elapsed
  <1> QED BY <1>2, <1>3, <1>4, <1>5 DEF Agrees

(* A step that touches nothing of the route keeps its part.                *)
LEMMA RouteFrame ==
    ASSUME NEW k \in Routes, RouteInv(k),
           bucket'[k] = bucket[k], srv'[k] = srv[k], blind'[k] = blind[k],
           Outstanding(k)' = Outstanding(k),
           \A q \in Outstanding(k) : pc'[q] = pc[q] /\ resp'[q] = resp[q]
    PROVE  RouteInv(k)'
  BY DEF RouteInv

(* The request that was outstanding is answered or gone: the route is at   *)
(* rest, and its bucket must agree with Discord's window.                  *)
LEMMA RouteRests ==
    ASSUME TypeOK, NEW r \in Requests, RouteInv(route[r]), r \in Outstanding(route[r]),
           route' = route, blind[route[r]] => blind'[route[r]],
           \A q \in Requests \ {r} : pc'[q] = pc[q],
           pc'[r] \notin {"wire", "resp"},
           ~blind'[route[r]] => Agrees(bucket'[route[r]], srv'[route[r]],
                                       bucket'[route[r]].remaining)
    PROVE  RouteInv(route[r])'
  <1> SUFFICES ASSUME ~blind'[route[r]] PROVE Outstanding(route[r])' = {}
    BY DEF RouteInv
  <1>1. \A q \in Outstanding(route[r]) : q = r
    BY DEF RouteInv
  <1> QED BY <1>1 DEF Outstanding

(* Only r moves, and it is not outstanding before or after, or it belongs  *)
(* to another route.                                                       *)
LEMMA OutstandingFrame ==
    ASSUME NEW r \in Requests, NEW k \in Routes, route' = route,
           \A q \in Requests \ {r} : pc'[q] = pc[q],
           \/ k # route[r]
           \/ pc[r] \notin {"wire", "resp"} /\ pc'[r] \notin {"wire", "resp"}
    PROVE  Outstanding(k)' = Outstanding(k) /\ r \notin Outstanding(k)
  BY DEF Outstanding

(* Goto moves one call.                                                    *)
LEMMA GotoFrame ==
    ASSUME TypeOK, NEW r \in Requests, NEW p, Goto(r, p)
    PROVE  pc'[r] = p /\ \A q \in Requests \ {r} : pc'[q] = pc[q]
  BY DEF Goto, TypeOK

(* Answer and Forget change one response.                                  *)
LEMMA RespFrame ==
    ASSUME TypeOK, NEW r \in Requests, NEW m, resp' = [resp EXCEPT ![r] = m]
    PROVE  resp'[r] = m /\ \A q \in Requests \ {r} : resp'[q] = resp[q]
  BY DEF TypeOK

(* A call that is not outstanding, before or after, leaves every route     *)
(* alone unless it touches a bucket or a window.                           *)
LEMMA Quiet ==
    ASSUME TypeOK, WindowInv, NEW r \in Requests, UNCHANGED <<route, bucket, srv, blind>>,
           \A q \in Requests \ {r} : pc'[q] = pc[q] /\ resp'[q] = resp[q],
           pc[r] \notin {"wire", "resp"}, pc'[r] \notin {"wire", "resp"},
           pc'[r] # "limited"
    PROVE  WindowInv'
  <1>1. LimitedOnlyWhenBlind'
    BY WindowInvParts DEF LimitedOnlyWhenBlind
  <1>2. ASSUME NEW k \in Routes PROVE RouteInv(k)'
    <2>1. Outstanding(k)' = Outstanding(k) /\ r \notin Outstanding(k)
      BY OutstandingFrame
    <2>2. \A q \in Outstanding(k) : pc'[q] = pc[q] /\ resp'[q] = resp[q]
      BY <2>1 DEF Outstanding
    <2>3. RouteInv(k)
      BY WindowInvParts
    <2> QED BY <2>1, <2>2, <2>3, RouteFrame
  <1> QED BY <1>1, <1>2, WindowInvParts

(* The routes of the other calls.                                          *)
LEMMA OtherRoutes ==
    ASSUME TypeOK, WindowInv, NEW r \in Requests, route' = route,
           \A q \in Requests \ {r} : pc'[q] = pc[q] /\ resp'[q] = resp[q],
           NEW k \in Routes, k # route[r],
           bucket'[k] = bucket[k], srv'[k] = srv[k], blind'[k] = blind[k]
    PROVE  RouteInv(k)'
  <1>1. Outstanding(k)' = Outstanding(k) /\ r \notin Outstanding(k)
    BY OutstandingFrame
  <1>2. \A q \in Outstanding(k) : pc'[q] = pc[q] /\ resp'[q] = resp[q]
    BY <1>1 DEF Outstanding
  <1>3. RouteInv(k)
    BY WindowInvParts
  <1> QED BY <1>1, <1>2, <1>3, RouteFrame

(* A call of wait that returns sets its slot aside.                        *)
LEMMA WindowPasses ==
    ASSUME TypeOK, WindowInv, NEW r \in Requests, NEW b, Passes(r, b), pc[r] = "bucket",
           UNCHANGED <<route, resp, srv>>,
           Agrees(bucket[route[r]], srv[route[r]], bucket[route[r]].remaining)
             => Agrees(Taken(b), srv[route[r]], Taken(b).remaining + 1)
    PROVE  WindowInv'
  <1>1. pc'[r] = "wire" /\ \A q \in Requests \ {r} : pc'[q] = pc[q]
    BY GotoFrame DEF Passes
  <1>2. route[r] \in Routes
    BY DEF TypeOK
  <1>3. /\ bucket'[route[r]] = Taken(b)
        /\ blind'[route[r]] <=> (blind[route[r]] \/ Outstanding(route[r]) # {})
        /\ \A k \in Routes \ {route[r]} : bucket'[k] = bucket[k] /\ blind'[k] = blind[k]
    <2>1. /\ bucket'[route[r]] = Taken(b)
          /\ \A k \in Routes \ {route[r]} : bucket'[k] = bucket[k]
      BY <1>2 DEF Passes, TypeOK
    <2>2. blind'[route[r]] = (blind[route[r]] \/ Outstanding(route[r]) # {})
      BY <1>2, Zenon DEF Passes, TypeOK
    <2>3. \A k \in Routes \ {route[r]} : blind'[k] = blind[k]
      BY <1>2, Zenon DEF Passes, TypeOK
    <2> QED BY <2>1, <2>2, <2>3
  <1>4. LimitedOnlyWhenBlind'
    <2> SUFFICES ASSUME NEW q \in Requests, pc'[q] \in {"resp", "limited"},
                        resp'[q].status = "limited"
                 PROVE  blind'[route'[q]]
      BY DEF LimitedOnlyWhenBlind
    <2>1. q # r /\ pc[q] \in {"resp", "limited"} /\ resp[q].status = "limited"
      BY <1>1
    <2>2. blind[route[q]] /\ route[q] \in Routes
      BY <2>1, WindowInvParts DEF LimitedOnlyWhenBlind, TypeOK
    <2> QED BY <1>3, <2>2
  <1>5. RouteInv(route[r])'
    <2> SUFFICES ASSUME ~blind'[route[r]]
                 PROVE  /\ Outstanding(route[r])' = {r}
                        /\ Agrees(bucket'[route[r]], srv[route[r]],
                                  bucket'[route[r]].remaining + 1)
      BY <1>1 DEF RouteInv
    <2>1. ~blind[route[r]] /\ Outstanding(route[r]) = {}
      BY <1>3
    <2>2. Outstanding(route[r])' = {r}
      BY <1>1, <2>1 DEF Outstanding
    <2>3. Agrees(bucket[route[r]], srv[route[r]], bucket[route[r]].remaining)
      BY <1>2, <2>1, WindowInvParts DEF RouteInv
    <2> QED BY <1>3, <2>2, <2>3
  <1>6. \A k \in Routes \ {route[r]} : RouteInv(k)'
    BY <1>1, <1>3, OtherRoutes
  <1> QED BY <1>2, <1>4, <1>5, <1>6, WindowInvParts

(* A call whose request is answered, lost or cancelled lets its route      *)
(* rest, with a bucket that agrees with Discord's window.                  *)
LEMMA WindowRests ==
    ASSUME TypeOK, WindowInv, NEW r \in Requests, pc[r] \in {"wire", "resp"},
           pc'[r] \notin {"wire", "resp"},
           pc'[r] = "limited" => resp'[r] = resp[r] /\ pc[r] = "resp",
           \A q \in Requests \ {r} : pc'[q] = pc[q] /\ resp'[q] = resp[q],
           UNCHANGED <<route, srv>>,
           \A k \in Routes \ {route[r]} : bucket'[k] = bucket[k] /\ blind'[k] = blind[k],
           blind[route[r]] => blind'[route[r]],
           ~blind'[route[r]] => Agrees(bucket'[route[r]], srv[route[r]],
                                       bucket'[route[r]].remaining)
    PROVE  WindowInv'
  <1>1. route[r] \in Routes /\ r \in Outstanding(route[r])
    BY DEF TypeOK, Outstanding
  <1>2. LimitedOnlyWhenBlind'
    <2> SUFFICES ASSUME NEW q \in Requests, pc'[q] \in {"resp", "limited"},
                        resp'[q].status = "limited"
                 PROVE  blind'[route'[q]]
      BY DEF LimitedOnlyWhenBlind
    <2>1. pc[q] \in {"resp", "limited"} /\ resp[q].status = "limited"
      OBVIOUS
    <2>2. blind[route[q]] /\ route[q] \in Routes
      BY <2>1, WindowInvParts DEF LimitedOnlyWhenBlind, TypeOK
    <2> QED BY <2>2
  <1>3. RouteInv(route[r])'
    <2>1. RouteInv(route[r])
      BY <1>1, WindowInvParts
    <2> QED BY <1>1, <2>1, RouteRests
  <1>4. \A k \in Routes \ {route[r]} : RouteInv(k)'
    BY OtherRoutes
  <1> QED BY <1>1, <1>2, <1>3, <1>4, WindowInvParts

(* Discord's answer to the request on the wire.                            *)
LEMMA WindowAnswered ==
    ASSUME TypeOK, WindowInv, NEW r \in Requests, NEW m, Answer(r, m), pc[r] = "wire",
           UNCHANGED <<route, bucket, blind>>,
           \A k \in Routes \ {route[r]} : srv'[k] = srv[k],
           m.status = "limited" => blind[route[r]],
           \/ m.status = "global" /\ ~m.hdr /\ srv'[route[r]] = srv[route[r]]
           \/ m.status # "global" /\ (m.hdr => Agrees(update(m), srv'[route[r]], m.remaining))
    PROVE  WindowInv'
  <1>1. /\ pc'[r] = "resp" /\ resp'[r] = m
        /\ \A q \in Requests \ {r} : pc'[q] = pc[q] /\ resp'[q] = resp[q]
    BY GotoFrame, RespFrame DEF Answer
  <1>2. route[r] \in Routes /\ r \in Outstanding(route[r])
    BY DEF TypeOK, Outstanding
  <1>3. LimitedOnlyWhenBlind'
    BY <1>1, WindowInvParts DEF LimitedOnlyWhenBlind
  <1>4. RouteInv(route[r])'
    <2> SUFFICES ASSUME ~blind[route[r]] PROVE RouteInv(route[r])'
      BY DEF RouteInv
    <2>1. RouteInv(route[r])
      BY <1>2, WindowInvParts
    <2>2. Outstanding(route[r]) = {r}
      BY <1>2, <2>1 DEF RouteInv
    <2>3. Outstanding(route[r])' = {r}
      BY <1>1, <2>2 DEF Outstanding
    <2>4. Agrees(bucket[route[r]], srv[route[r]], bucket[route[r]].remaining + 1)
      BY <1>2, <2>1 DEF RouteInv
    <2> QED BY <1>1, <2>3, <2>4 DEF RouteInv
  <1>5. \A k \in Routes \ {route[r]} : RouteInv(k)'
    BY <1>1, OtherRoutes
  <1> QED BY <1>2, <1>3, <1>4, <1>5, WindowInvParts

(* WindowInv is inductive, action by action.                               *)
LEMMA WindowStep == TypeOK /\ WindowInv /\ [Next]_vars => WindowInv'
  <1> SUFFICES ASSUME TypeOK, WindowInv, [Next]_vars PROVE WindowInv'
    OBVIOUS
  <1>1. ASSUME NEW r \in Requests, Start(r) \/ waitGlobal(r) \/ Wakes(r) \/ Retry(r)
        PROVE  WindowInv'
    <2>1. /\ pc[r] \notin {"wire", "resp"} /\ pc'[r] \notin {"wire", "resp", "limited"}
          /\ \A q \in Requests \ {r} : pc'[q] = pc[q]
      BY <1>1, GotoFrame DEF Start, waitGlobal, Wakes, Retry, Sleep
    <2>2. UNCHANGED <<route, bucket, srv, blind, resp>>
      BY <1>1 DEF Start, waitGlobal, Wakes, Retry, callVars, history
    <2> QED BY <2>1, <2>2, Quiet
  <1>2. ASSUME NEW r \in Requests, wait(r) PROVE WindowInv'
    <2> DEFINE b == bucket[route[r]]
               c == [b EXCEPT !.remaining = 1, !.known = FALSE]
               w == srv[route[r]]
    <2>0. b \in Buckets /\ w \in Windows
      BY DEF TypeOK
    <2>1. pc[r] = "bucket" /\ UNCHANGED <<route, resp, srv>>
      BY <1>2 DEF wait, callVars
    <2>2. CASE ~Exhausted(b) /\ Passes(r, b)
      <3>1. Agrees(b, w, b.remaining) => Agrees(Taken(b), w, Taken(b).remaining + 1)
        <4>1. CASE b.known
          <5>1. b.remaining \in Nat /\ b.remaining > 0
            BY <2>0, <2>2, <4>1, BucketAssumption DEF Buckets, Exhausted
          <5>2. Taken(b).remaining = b.remaining - 1 /\ Taken(b).resetIn = b.resetIn
            BY <2>0, <4>1 DEF Taken, Buckets
          <5>3. Taken(b).known
            BY <2>0, <4>1, Zenon DEF Taken, Buckets
          <5> QED BY <5>1, <5>2, <5>3 DEF Agrees
        <4>2. CASE ~b.known
          BY <4>2 DEF Agrees
        <4> QED BY <4>1, <4>2
      <3> QED BY <2>1, <2>2, <3>1, WindowPasses
    <2>3. CASE ResetPassed(b) /\ Passes(r, c)
      <3>1. Agrees(b, w, b.remaining) => w.windowIn = 0
        BY <2>0, <2>3, BucketAssumption DEF Agrees, ResetPassed, Windows
      <3>2. Agrees(b, w, b.remaining) => Agrees(Taken(c), w, Taken(c).remaining + 1)
        BY <3>1 DEF Agrees
      <3> QED BY <2>1, <2>3, <3>2, WindowPasses
    <2>4. CASE Sleep(r, "bsleep", b.resetIn) /\ UNCHANGED <<bucket, passed, announced, blind>>
      <3>1. pc'[r] = "bsleep" /\ \A q \in Requests \ {r} : pc'[q] = pc[q]
        BY <2>4, GotoFrame DEF Sleep
      <3> QED BY <2>1, <2>4, <3>1, Quiet
    <2> QED BY <1>2, <2>2, <2>3, <2>4 DEF wait
  <1>3. ASSUME NEW r \in Requests, NEW p, Goto(r, p), p \in {"retry", "failed"},
               Lost(r), Forget(r), UNCHANGED <<route, bucket, srv>>,
               pc[r] \in {"gsleep", "bsleep", "retry", "wire", "resp"}
        PROVE  WindowInv'
    <2>1. /\ pc'[r] = p
          /\ \A q \in Requests \ {r} : pc'[q] = pc[q] /\ resp'[q] = resp[q]
      BY <1>3, GotoFrame, RespFrame DEF Forget
    <2>2. route[r] \in Routes
      BY DEF TypeOK
    <2>3. /\ blind'[route[r]] = (blind[route[r]] \/ pc[r] = "resp")
          /\ \A k \in Routes \ {route[r]} : blind'[k] = blind[k]
      BY <1>3, <2>2, Zenon DEF Lost, TypeOK
    <2>4. CASE pc[r] \in {"wire", "resp"}
      <3>1. ~blind'[route[r]] =>
               Agrees(bucket'[route[r]], srv[route[r]], bucket'[route[r]].remaining)
        <4> SUFFICES ASSUME ~blind'[route[r]]
                     PROVE  Agrees(bucket[route[r]], srv[route[r]], bucket[route[r]].remaining)
          BY <1>3
        <4>1. pc[r] = "wire" /\ ~blind[route[r]]
          BY <2>3, <2>4
        <4>2. r \in Outstanding(route[r])
          BY <2>4 DEF Outstanding
        <4>3. Agrees(bucket[route[r]], srv[route[r]], bucket[route[r]].remaining + 1)
          BY <2>2, <4>1, <4>2, WindowInvParts DEF RouteInv
        <4> QED BY <2>2, <4>3, AgreesWeaken DEF TypeOK
      <3> QED BY <1>3, <2>1, <2>2, <2>3, <2>4, <3>1, WindowRests
    <2>5. CASE pc[r] \notin {"wire", "resp"}
      <3>1. blind' = blind
        BY <1>3, <2>2, <2>5, Zenon DEF Lost, TypeOK
      <3> QED BY <1>3, <2>1, <2>5, <3>1, Quiet
    <2> QED BY <2>4, <2>5
  <1>4. ASSUME NEW r \in Requests, DoFails(r) \/ Cancelled(r) PROVE WindowInv'
    BY <1>3, <1>4 DEF DoFails, Cancelled, Sleep, callVars
  <1>5. ASSUME NEW r \in Requests, Respond(r) PROVE WindowInv'
    <2> DEFINE m == resp[r]
    <2>0. pc[r] = "resp" /\ UNCHANGED <<route, srv>>
      BY <1>5 DEF Respond
    <2>1. /\ pc'[r] \in {"limited", "retry", "done", "failed"}
          /\ \A q \in Requests \ {r} : pc'[q] = pc[q] /\ resp'[q] = resp[q]
          /\ pc'[r] = "limited" => resp'[r] = resp[r]
      BY <1>5, GotoFrame, RespFrame DEF Respond, Sleep, Forget
    <2>2. route[r] \in Routes /\ m \in Resps /\ r \in Outstanding(route[r])
      BY <2>0 DEF TypeOK, Outstanding
    <2>3. RouteInv(route[r])
      BY <2>2, WindowInvParts
    <2>4. CASE m.hdr /\ Announces(r, update(m)) /\ UNCHANGED blind
      <3>1. /\ bucket'[route[r]] = update(m)
            /\ \A k \in Routes \ {route[r]} : bucket'[k] = bucket[k]
        BY <2>2, <2>4 DEF Announces, TypeOK
      <3>2. update(m).remaining = m.remaining
        BY DEF update
      <3>3. ~blind[route[r]] => Agrees(update(m), srv[route[r]], m.remaining)
        BY <2>0, <2>2, <2>3, <2>4 DEF RouteInv
      <3> QED BY <2>0, <2>1, <2>4, <3>1, <3>2, <3>3, WindowRests
    <2>5. CASE /\ ~m.hdr /\ blind' = [blind EXCEPT ![route[r]] = @ \/ m.status # "global"]
               /\ UNCHANGED <<bucket, announced, passed>>
      <3>1. /\ blind'[route[r]] = (blind[route[r]] \/ m.status # "global")
            /\ \A k \in Routes \ {route[r]} : blind'[k] = blind[k]
        BY <2>2, <2>5, Zenon DEF TypeOK
      <3>2. ~blind'[route[r]] =>
               Agrees(bucket[route[r]], srv[route[r]], bucket[route[r]].remaining)
        <4> SUFFICES ASSUME ~blind'[route[r]]
                     PROVE  Agrees(bucket[route[r]], srv[route[r]], bucket[route[r]].remaining)
          OBVIOUS
        <4>1. m.status = "global" /\ ~blind[route[r]]
          BY <3>1
        <4>2. Agrees(bucket[route[r]], srv[route[r]], bucket[route[r]].remaining + 1)
          BY <2>2, <2>3, <4>1 DEF RouteInv
        <4> QED BY <2>2, <4>2, AgreesWeaken DEF TypeOK
      <3> QED BY <2>0, <2>1, <2>2, <2>5, <3>1, <3>2, WindowRests
    <2> QED BY <1>5, <2>4, <2>5 DEF Respond
  <1>6. ASSUME NEW r \in Requests, handle429(r) PROVE WindowInv'
    <2> DEFINE c == [remaining |-> 0, known |-> TRUE, resetIn |-> resp[r].after]
    <2>1. /\ pc[r] = "limited" /\ pc'[r] = "retry"
          /\ \A q \in Requests \ {r} : pc'[q] = pc[q] /\ resp'[q] = resp[q]
          /\ UNCHANGED <<route, srv, blind>>
      BY <1>6, GotoFrame, RespFrame DEF handle429, Sleep, Forget, callVars
    <2>2. CASE UNCHANGED bucket
      BY <2>1, <2>2, Quiet
    <2>3. CASE resp[r].status = "limited" /\ Announces(r, c)
      <3>1. route[r] \in Routes /\ blind[route[r]]
        BY <2>1, <2>3, WindowInvParts DEF LimitedOnlyWhenBlind, TypeOK
      <3>2. LimitedOnlyWhenBlind'
        BY <2>1, WindowInvParts DEF LimitedOnlyWhenBlind
      <3>3. RouteInv(route[r])'
        BY <2>1, <3>1 DEF RouteInv
      <3>4. \A k \in Routes \ {route[r]} : bucket'[k] = bucket[k]
        BY <2>3 DEF Announces, TypeOK
      <3>5. \A k \in Routes \ {route[r]} : RouteInv(k)'
        BY <2>1, <3>4, OtherRoutes
      <3> QED BY <2>1, <3>1, <3>2, <3>3, <3>5, WindowInvParts
    <2> QED BY <1>6, <2>2, <2>3 DEF handle429
  <1>7. ASSUME NEW r \in Requests, NEW s \in {"ok", "client", "server"}, SrvServes(r, s)
        PROVE  WindowInv'
    <2> DEFINE w == Consumed(srv[route[r]])
               m(h) == [status |-> s, hdr |-> h, remaining |-> w.left, after |-> w.windowIn]
    <2>1. PICK h \in BOOLEAN : Answer(r, m(h))
      BY <1>7 DEF SrvServes
    <2>2. /\ pc[r] = "wire" /\ UNCHANGED <<route, bucket, blind>>
          /\ route[r] \in Routes
          /\ srv'[route[r]] = w
          /\ \A k \in Routes \ {route[r]} : srv'[k] = srv[k]
      BY <1>7 DEF SrvServes, callVars, history, TypeOK
    <2>3. w \in Windows
      BY <1>7, WindowTypes DEF SrvServes, TypeOK
    <2>4. w.left <= w.left /\ w.windowIn <= w.windowIn
      BY <2>3, BucketAssumption DEF Windows
    <2>5. Agrees(update(m(h)), w, m(h).remaining)
      BY <2>4 DEF Agrees, update
    <2>6. m(h).status = s /\ s # "global" /\ s # "limited"
      OBVIOUS
    <2> QED BY <2>1, <2>2, <2>5, <2>6, WindowAnswered
  <1>8. ASSUME NEW r \in Requests, SrvLimits(r) PROVE WindowInv'
    <2> DEFINE m == [status |-> "limited", hdr |-> TRUE, remaining |-> 0,
                     after |-> srv[route[r]].windowIn]
    <2>1. /\ pc[r] = "wire" /\ Answer(r, m) /\ UNCHANGED <<route, bucket, blind, srv>>
          /\ route[r] \in Routes /\ r \in Outstanding(route[r]) /\ ~Admits(srv[route[r]])
      BY <1>8 DEF SrvLimits, callVars, history, TypeOK, Outstanding
    <2>2. blind[route[r]]
      <3> SUFFICES ASSUME ~blind[route[r]] PROVE FALSE
        OBVIOUS
      <3>1. Agrees(bucket[route[r]], srv[route[r]], bucket[route[r]].remaining + 1)
        BY <2>1, WindowInvParts DEF RouteInv
      <3> QED BY <2>1, <3>1, AgreesAdmits DEF TypeOK
    <2>3. ASSUME NEW k \in Routes, k # route[r] PROVE RouteInv(k)'
      <3>1. \A q \in Requests \ {r} : pc'[q] = pc[q] /\ resp'[q] = resp[q]
        BY <2>1, GotoFrame, RespFrame DEF Answer
      <3> QED BY <2>1, <2>3, <3>1, OtherRoutes
    <2>4. RouteInv(route[r])'
      BY <2>1, <2>2 DEF RouteInv
    <2>5. LimitedOnlyWhenBlind'
      <3>1. \A q \in Requests \ {r} : pc'[q] = pc[q] /\ resp'[q] = resp[q]
        BY <2>1, GotoFrame, RespFrame DEF Answer
      <3> QED BY <2>1, <2>2, <3>1, WindowInvParts DEF LimitedOnlyWhenBlind
    <2> QED BY <2>1, <2>3, <2>4, <2>5, WindowInvParts
  <1>9. ASSUME NEW r \in Requests, SrvGlobal(r) PROVE WindowInv'
    <2> DEFINE m(t) == [status |-> "global", hdr |-> FALSE, remaining |-> 0, after |-> t]
    <2>1. PICK t \in 1 .. GlobalWindow : Answer(r, m(t))
      BY <1>9 DEF SrvGlobal
    <2>2. pc[r] = "wire" /\ UNCHANGED <<route, bucket, blind, srv>>
      BY <1>9 DEF SrvGlobal, callVars, history
    <2>3. m(t).status = "global" /\ ~m(t).hdr
      BY Zenon
    <2> QED BY <2>1, <2>2, <2>3, WindowAnswered
  <1>10. CASE Tick
    <2>1. UNCHANGED <<pc, route, resp, blind>>
      BY <1>10 DEF Tick, callVars, history
    <2>2. LimitedOnlyWhenBlind'
      BY <2>1, WindowInvParts DEF LimitedOnlyWhenBlind
    <2>3. ASSUME NEW k \in Routes PROVE RouteInv(k)'
      <3>1. bucket'[k] = [bucket[k] EXCEPT !.resetIn = Elapsed(@)] /\ srv'[k] = Aged(srv[k])
        BY <1>10 DEF Tick
      <3>2. bucket[k] \in Buckets /\ srv[k] \in Windows
        BY DEF TypeOK
      <3>3. bucket'[k].remaining = bucket[k].remaining
        BY <3>1, <3>2 DEF Buckets
      <3>4. \A n : Agrees(bucket[k], srv[k], n) => Agrees(bucket'[k], srv'[k], n)
        BY <3>1, <3>2, AgreesAged
      <3>5. \A r \in Requests : Agrees(update(resp[r]), srv[k], resp[r].remaining)
               => Agrees(update(resp[r]), srv'[k], resp[r].remaining)
        <4> SUFFICES ASSUME NEW r \in Requests,
                            Agrees(update(resp[r]), srv[k], resp[r].remaining)
                     PROVE  Agrees(update(resp[r]), Aged(srv[k]), resp[r].remaining)
          BY <3>1
        <4>1. update(resp[r]) \in Buckets
          BY BucketTypes DEF TypeOK
        <4> QED BY <3>2, <4>1, AgreesAged
      <3>6. Outstanding(k)' = Outstanding(k) /\ Outstanding(k) \subseteq Requests
        BY <2>1 DEF Outstanding
      <3>7. RouteInv(k)
        BY WindowInvParts
      <3> QED BY <2>1, <3>3, <3>4, <3>5, <3>6, <3>7 DEF RouteInv
    <2> QED BY <2>2, <2>3, WindowInvParts
  <1>11. CASE UNCHANGED vars
    BY <1>11 DEF vars, WindowInv, LimitedOnlyWhenBlind, Outstanding
  <1> QED BY <1>1, <1>2, <1>4, <1>5, <1>6, <1>7, <1>8, <1>9, <1>10, <1>11
          DEF Next, DoJSON, Discord

(* WindowInv holds at first and in every reachable state.                  *)
LEMMA WindowInvariant == Spec => []WindowInv
  <1>1. Init => WindowInv
    BY DEF Init, WindowInv, LimitedOnlyWhenBlind, Outstanding, Agrees, NoWindow
  <1> QED BY <1>1, WindowStep, TypeCorrect, PTL DEF Spec

(* Discord refuses a request of a route only after two of its requests     *)
(* overlapped or the headers of a counted one were lost, for any limit and *)
(* window and any number of callers.                                       *)
THEOREM RefusedOnlyWhenBlind == Spec => []LimitedOnlyWhenBlind
  <1>1. WindowInv => LimitedOnlyWhenBlind
    BY DEF WindowInv
  <1> QED BY <1>1, WindowInvariant, PTL
=============================================================================
