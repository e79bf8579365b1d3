---------------------------- MODULE EventStream ----------------------------
(***************************************************************************)
(* What a gateway client promises its handlers, whatever happens to the    *)
(* websockets underneath.  A session is a numbered stream of dispatches    *)
(* (op 0 frames with "s" = 1, 2, 3, ...).  The handlers see, of each       *)
(* session, the events 1, 2, 3, ... in that order: none is repeated, none  *)
(* is skipped and none is handed over before Discord emitted it.  RESUME,  *)
(* reconnects, heartbeats and close codes do not appear here.              *)
(***************************************************************************)
EXTENDS Naturals, Sequences

CONSTANT Sessions

VARIABLES
    emitted,    \* emitted[s]: how many events Discord numbered in session s
    delivered   \* delivered[s]: the sequence numbers the handlers were given

vars == <<emitted, delivered>>

Init ==
    /\ emitted = [s \in Sessions |-> 0]
    /\ delivered = [s \in Sessions |-> <<>>]

Emit(s) ==
    /\ emitted' = [emitted EXCEPT ![s] = @ + 1]
    /\ UNCHANGED delivered

Deliver(s) ==
    /\ Len(delivered[s]) < emitted[s]
    /\ delivered' = [delivered EXCEPT ![s] = Append(@, Len(@) + 1)]
    /\ UNCHANGED emitted

Next == \E s \in Sessions : Emit(s) \/ Deliver(s)

Spec == Init /\ [][Next]_vars
=============================================================================
