--------------------------- MODULE DiscordBucket ---------------------------
(***************************************************************************)
(* The rate limit Discord keeps for a route (external, as the SDKs read it *)
(* from the X-RateLimit-* headers): Limit requests per window of Window    *)
(* time units, the window opening with the first request.  Time is counted *)
(* down: a timer holds what is left of it.                                 *)
(***************************************************************************)
EXTENDS Naturals

CONSTANTS Limit, Window

ASSUME BucketAssumption == Limit \in Nat \ {0} /\ Window \in Nat \ {0}

(* What is left of a timer one time unit later.                            *)
Elapsed(t) == IF t > 0 THEN t - 1 ELSE 0

Windows == [windowIn : 0 .. Window, left : 0 .. Limit]
NoWindow == [windowIn |-> 0, left |-> Limit]

(* A request that finds no window open opens one.                          *)
Opened(w) == IF w.windowIn = 0 THEN [windowIn |-> Window, left |-> Limit] ELSE w

Admits(w)   == Opened(w).left > 0
Consumed(w) == [Opened(w) EXCEPT !.left = @ - 1]
Aged(w)     == [w EXCEPT !.windowIn = Elapsed(@)]
=============================================================================
