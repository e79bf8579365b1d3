---------------------------- MODULE FsmStoragePy ----------------------------
(***************************************************************************)
(* The FSM storages of the Python SDK (vaidcord-py/src/vaidcord/fsm):      *)
(* FSMContext calls of several tasks on one storage.  The memory storage,  *)
(* Redis and MongoDB keep the state and the data of a key apart, SQLite    *)
(* and PostgreSQL as one row.  Redis, MongoDB and PostgreSQL await every   *)
(* access; the memory storage and SQLite never wait, so no other task runs *)
(* before the call is over.  A datum is the set of its fields.             *)
(***************************************************************************)
EXTENDS Integers

CONSTANTS
    Callers,    \* the tasks that use the storage
    Keys,
    Fields,     \* fields of the data of a key
    States,     \* FSM states
    NoState,    \* None
    MaxCalls,   \* bound: calls
    MaxRaises   \* bound: accesses that raise

ASSUME StorageAssumption == MaxCalls \in Nat /\ MaxRaises \in Nat /\ NoState \notin States

AtomicBackends == {"memory", "sqlite"}
FieldBackends  == {"memory", "redis", "mongo"}
RowBackends    == {"sqlite", "postgres"}
Backends == FieldBackends \cup RowBackends

VARIABLES
    backend,
    rows,     \* rows[k]: the state and the data stored for the key
    call,     \* call[t]: the call a task is in (NoCall: none)
    at,       \* at[t]: the access of that call that is next
    loc,      \* loc[t]: the local variables of that call
    snap,     \* the snapshot exported last
    shared,   \* keys whose data the snapshot and the storage share
    calls, raised

VARIABLES     \* history
    spec,     \* what a storage of atomic calls would hold
    tainted,  \* keys of calls that overlapped or raised, and what came of them
    asked,    \* asked[k]: the state asked for last, as it reached the store
    taken,    \* the rows when the snapshot was exported
    newer     \* keys updated since then

storageVars == <<backend, rows, call, at, loc, snap, shared, calls, raised, spec, tainted, asked, taken, newer>>

Row == [state : States \cup {NoState}, data : SUBSET Fields]
Empty == [state |-> NoState, data |-> {}]

(* The calls.  set_many_states is at the key to, has the keys left before  *)
(* it, and gives every key a state of its own.                             *)
NoCall == [name |-> "none"]
StateCalls == [name : {"set_state"}, to : Keys, state : States \cup {NoState}]
DataCalls  == [name : {"set_data", "update_data"}, to : Keys, data : SUBSET Fields]
ClearCalls == [name : {"clear"}, to : Keys]
ManyCalls  == [name : {"set_many_states"}, keys : SUBSET Keys, to : Keys, left : SUBSET Keys,
               states : [Keys -> States \cup {NoState}]]
MoveCalls  == [name : {"transition_data"}, from : Keys, to : Keys, clear : BOOLEAN, merge : BOOLEAN]
CallSet == StateCalls \cup DataCalls \cup ClearCalls \cup ManyCalls \cup MoveCalls

(* As they are made: set_many_states at some key, transition_data to       *)
(* another key.                                                            *)
FirstCalls ==
    {c \in CallSet : /\ c.name = "set_many_states" => c.to \in c.keys /\ c.left = c.keys \ {c.to}
                                                       /\ \A k \in Keys \ c.keys : c.states[k] = NoState
                     /\ c.name = "transition_data" => c.from # c.to}

StateFor(c, k) == IF c.name = "set_many_states" THEN c.states[k] ELSE c.state

KeysOf(c) ==
    CASE c.name = "none" -> {}
      [] c.name = "set_many_states" -> c.keys
      [] c.name = "transition_data" -> {c.from, c.to}
      [] OTHER -> {c.to}

-----------------------------------------------------------------------------
(* An operation is the order of its accesses: its operator names the one   *)
(* that follows a, from "begin" to "end".                                  *)

Accesses == {"read_data", "merge_data", "read_state", "write_state", "write_data", "write_row", "delete"}

(* set_state: an assignment of the field, or of the row with the data that *)
(* was read before.  set_data likewise.                                    *)
set_state(b, a) ==
    CASE a = "begin" -> IF b \in RowBackends THEN "read_data" ELSE "write_state"
      [] a = "read_data" -> "write_row"
      [] OTHER -> "end"
set_dataBlind(b, a) ==
    IF a = "begin" THEN IF b \in RowBackends THEN "write_row" ELSE "write_data" ELSE "end"
set_data(b, a) ==
    CASE a = "begin" -> IF b \in RowBackends THEN "read_state" ELSE "write_data"
      [] a = "read_state" -> "write_row"
      [] OTHER -> "end"
update_data(b, a) ==
    CASE a = "begin" -> "merge_data"
      [] a = "merge_data" -> set_data(b, "begin")
      [] OTHER -> set_data(b, a)
clear(a) == IF a = "begin" THEN "delete" ELSE "end"

transition_dataClearsFirst(b, c, a) ==
    CASE a = "begin" -> "read_data"
      [] a = "read_data" /\ c.clear -> "delete"
      [] a \in {"read_data", "delete"} -> IF c.merge THEN "merge_data" ELSE set_data(b, "begin")
      [] a = "merge_data" -> set_data(b, "begin")
      [] OTHER -> set_data(b, a)
transition_data(b, c, a) ==
    CASE a = "begin" -> "read_data"
      [] a = "read_data" -> IF c.merge THEN "merge_data" ELSE set_data(b, "begin")
      [] a = "merge_data" -> set_data(b, "begin")
      [] a \in {"write_data", "write_row"} /\ c.clear -> clear("begin")
      [] OTHER -> set_data(b, a)

Follows(b, c, a) ==
    CASE c.name \in {"set_state", "set_many_states"} -> set_state(b, a)
      [] c.name = "set_data" -> set_data(b, a)
      [] c.name = "update_data" -> update_data(b, a)
      [] c.name = "clear" -> clear(a)
      [] c.name = "transition_data" -> transition_data(b, c, a)

(* The key of an access: transition_data reads and clears the source.      *)
KeyAt(c, a) == IF c.name = "transition_data" /\ a \in {"read_data", "delete"} THEN c.from ELSE c.to

(* The local variables at the start: the arguments.                        *)
Arguments(c) ==
    [state |-> IF c.name \in {"set_state", "set_many_states"} THEN StateFor(c, c.to) ELSE NoState,
     data |-> IF c.name \in {"set_data", "update_data"} THEN c.data ELSE {}]

(* An access to the row r, with the local variables l: the row and the     *)
(* local variables it leaves.                                              *)
Stored(r, l, a) ==
    CASE a = "write_state" -> [r EXCEPT !.state = l.state]
      [] a = "write_data" -> [r EXCEPT !.data = l.data]
      [] a = "write_row" -> l
      [] a = "delete" -> Empty
      [] OTHER -> r
Loaded(r, l, a) ==
    CASE a = "read_data" -> [l EXCEPT !.data = r.data]
      [] a = "merge_data" -> [l EXCEPT !.data = @ \cup r.data]
      [] a = "read_state" -> [l EXCEPT !.state = r.state]
      [] OTHER -> l

-----------------------------------------------------------------------------
(* What a call is to do, in one step.                                      *)
Specified(rs, c) ==
    CASE c.name = "set_state" -> [rs EXCEPT ![c.to].state = c.state]
      [] c.name = "set_data" -> [rs EXCEPT ![c.to].data = c.data]
      [] c.name = "update_data" -> [rs EXCEPT ![c.to].data = @ \cup c.data]
      [] c.name = "clear" -> [rs EXCEPT ![c.to] = Empty]
      [] c.name = "set_many_states" ->
           [k \in Keys |-> IF k \in c.keys THEN [rs[k] EXCEPT !.state = c.states[k]] ELSE rs[k]]
      [] c.name = "transition_data" ->
           [k \in Keys |->
              CASE k = c.to -> [rs[k] EXCEPT !.data = rs[c.from].data \cup (IF c.merge THEN @ ELSE {})]
                [] k = c.from /\ c.clear -> Empty
                [] OTHER -> rs[k]]

StorageInit ==
    /\ backend \in Backends
    /\ rows = [k \in Keys |-> Empty] /\ spec = rows
    /\ call = [t \in Callers |-> NoCall] /\ at = [t \in Callers |-> "end"]
    /\ loc = [t \in Callers |-> Empty]
    /\ snap = rows /\ taken = rows /\ shared = {} /\ newer = {}
    /\ calls = 0 /\ raised = 0 /\ tainted = {} /\ asked = [k \in Keys |-> NoState]

(* A call that never waits is over before anybody else runs.               *)
Free == backend \in AtomicBackends => \A t \in Callers : call[t] = NoCall

(* A call begins.                                                          *)
Calls(t, c) ==
    LET others == {u \in Callers : KeysOf(call[u]) \cap KeysOf(c) # {}} IN
    /\ Free /\ calls < MaxCalls /\ calls' = calls + 1
    /\ call[t] = NoCall
    /\ call' = [call EXCEPT ![t] = c] /\ at' = [at EXCEPT ![t] = Follows(backend, c, "begin")]
    /\ loc' = [loc EXCEPT ![t] = Arguments(c)]
    /\ tainted' = IF others = {} /\ KeysOf(c) \cap tainted = {} THEN tainted
                  ELSE tainted \cup KeysOf(c) \cup UNION {KeysOf(call[u]) : u \in others}
    /\ UNCHANGED <<backend, rows, snap, shared, raised, spec, asked, taken, newer>>

(* update_data of the memory storage changes the dict in place, which the  *)
(* exported snapshot still refers to; set_data and clear replace it.       *)
InPlaceSetToo(c) == backend = "memory" /\ c.name \in {"update_data", "set_data"}
InPlace(c) == backend = "memory" /\ c.name = "update_data"

(* The access of t to the key k.                                           *)
Reaches(t, k) ==
    /\ rows' = [rows EXCEPT ![k] = Stored(@, loc[t], at[t])]
    /\ asked' = [asked EXCEPT ![k] =
                    IF at[t] = "delete" THEN NoState
                    ELSE IF call[t].name \in {"set_state", "set_many_states"} /\ at[t] # "read_data"
                    THEN StateFor(call[t], k) ELSE @]
    /\ snap' = IF at[t] = "write_data" /\ InPlace(call[t]) /\ k \in shared
               THEN [snap EXCEPT ![k].data = loc[t].data] ELSE snap
    /\ shared' = IF at[t] = "delete" \/ (at[t] = "write_data" /\ ~InPlace(call[t]))
                 THEN shared \ {k} ELSE shared
    /\ newer' = IF at[t] \in {"write_data", "write_row"} /\ call[t].name = "update_data"
                THEN newer \cup {k} ELSE newer

(* Behind the last access set_many_states turns to the next key.           *)
ManyLeft(t) == call[t].name = "set_many_states" /\ call[t].left # {}

GoesOn(t) ==
    /\ Follows(backend, call[t], at[t]) # "end"
    /\ at' = [at EXCEPT ![t] = Follows(backend, call[t], @)]
    /\ loc' = [loc EXCEPT ![t] = Loaded(rows[KeyAt(call[t], at[t])], @, at[t])]
    /\ UNCHANGED <<call, spec>>

set_many_states(t) ==
    /\ Follows(backend, call[t], at[t]) = "end" /\ ManyLeft(t)
    /\ \E k \in call[t].left :
         /\ call' = [call EXCEPT ![t].to = k, ![t].left = @ \ {k}]
         /\ loc' = [loc EXCEPT ![t].state = StateFor(call[t], k)]
    /\ at' = [at EXCEPT ![t] = Follows(backend, call[t], "begin")]
    /\ UNCHANGED spec

CallReturns(t) ==
    /\ Follows(backend, call[t], at[t]) = "end" /\ ~ManyLeft(t)
    /\ call' = [call EXCEPT ![t] = NoCall] /\ at' = [at EXCEPT ![t] = "end"]
    /\ loc' = [loc EXCEPT ![t] = Empty]
    /\ spec' = Specified(spec, call[t])

Accessing(t) ==
    /\ call[t] # NoCall
    /\ Reaches(t, KeyAt(call[t], at[t]))
    /\ GoesOn(t) \/ set_many_states(t) \/ CallReturns(t)
    /\ UNCHANGED <<backend, calls, raised, tainted, taken>>

(* The access raises, and with it the call: before it has its effect, or   *)
(* behind it, when only its reply is lost.                                 *)
Raises(t) ==
    /\ call[t] # NoCall /\ backend # "memory" /\ raised < MaxRaises /\ raised' = raised + 1
    /\ Reaches(t, KeyAt(call[t], at[t])) \/ UNCHANGED <<rows, snap, shared, asked, newer>>
    /\ call' = [call EXCEPT ![t] = NoCall] /\ at' = [at EXCEPT ![t] = "end"]
    /\ loc' = [loc EXCEPT ![t] = Empty]
    /\ tainted' = tainted \cup KeysOf(call[t])
    /\ UNCHANGED <<backend, calls, spec, taken>>

(* The memory storage hands out its dicts of data, SQLite rows of text.  A *)
(* key without data has an empty dict or none.                             *)
export_snapshot ==
    /\ backend \in AtomicBackends /\ Free /\ taken # rows
    /\ snap' = rows /\ taken' = rows /\ newer' = {}
    /\ \E dicts \in SUBSET Keys :
         /\ \A k \in Keys \ dicts : rows[k].data = {}
         /\ shared' = IF backend = "memory" THEN dicts ELSE {}
    /\ UNCHANGED <<backend, rows, call, at, loc, calls, raised, spec, tainted, asked>>

import_snapshot ==
    /\ backend \in AtomicBackends /\ Free /\ rows # snap
    /\ rows' = snap /\ spec' = snap /\ shared' = {}
    /\ asked' = [k \in Keys |-> snap[k].state]
    /\ UNCHANGED <<backend, call, at, loc, snap, calls, raised, tainted, taken, newer>>

StorageNext ==
    \/ \E t \in Callers : \E c \in FirstCalls : Calls(t, c)
    \/ \E t \in Callers : Accessing(t) \/ Raises(t)
    \/ export_snapshot \/ import_snapshot

StorageSpec == StorageInit /\ [][StorageNext]_storageVars

-----------------------------------------------------------------------------
(* Properties.                                                             *)

(* Every variable keeps its type.                                          *)
StorageTypeOK ==
    /\ backend \in Backends
    /\ {rows, spec, snap, taken} \subseteq [Keys -> Row]
    /\ asked \in [Keys -> States \cup {NoState}]
    /\ call \in [Callers -> CallSet \cup {NoCall}] /\ loc \in [Callers -> Row]
    /\ at \in [Callers -> Accesses \cup {"end"}]
    /\ tainted \subseteq Keys /\ shared \subseteq Keys /\ newer \subseteq Keys
    /\ calls \in 0 .. MaxCalls /\ raised \in 0 .. MaxRaises

(* Which access a call can be at, and what its local variables hold.       *)
AtDataWrite(b, a) == IF b \in RowBackends THEN a \in {"read_state", "write_row"} ELSE a = "write_data"
AtStateWrite(b, a) == IF b \in RowBackends THEN a \in {"read_data", "write_row"} ELSE a = "write_state"
PlaceOf(b, c, a) ==
    CASE c.name = "none" -> a = "end"
      [] c.name \in {"set_state", "set_many_states"} -> AtStateWrite(b, a)
      [] c.name = "set_data" -> AtDataWrite(b, a)
      [] c.name = "update_data" -> a = "merge_data" \/ AtDataWrite(b, a)
      [] c.name = "clear" -> a = "delete"
      [] c.name = "transition_data" ->
           \/ a = "read_data" \/ (c.merge /\ a = "merge_data") \/ AtDataWrite(b, a)
           \/ c.clear /\ a = "delete"

Proper(b, c, a, l) ==
    /\ PlaceOf(b, c, a)
    /\ c.name \in {"set_state", "set_many_states"} => l.state = StateFor(c, c.to)
    /\ c.name = "set_many_states" => c.to \in c.keys \ c.left /\ c.left \subseteq c.keys
    /\ c.name = "transition_data" => c.from # c.to

CallsAreProper == \A t \in Callers : Proper(backend, call[t], at[t], loc[t])

(* Two calls about one key taint all their keys, and so does a call about  *)
(* a tainted key.                                                          *)
OverlapTaints ==
    /\ \A t \in Callers : KeysOf(call[t]) \cap tainted # {} => KeysOf(call[t]) \subseteq tainted
    /\ \A t, u \in Callers :
         t # u /\ KeysOf(call[t]) \cap KeysOf(call[u]) # {} => KeysOf(call[t]) \subseteq tainted

(* How far a call has come that is alone with its keys: what it has read   *)
(* is what is stored, and the rows it is done with are as specified.       *)
Halfway(rs, sp, c, a, l) ==
    /\ \A k \in KeysOf(c) :
         \/ c.name = "set_many_states" /\ k \notin c.left \cup {c.to}
         \/ c.name = "transition_data" /\ a = "delete" /\ k = c.to
         \/ rs[k] = sp[k]
    /\ c.name = "set_many_states" =>
         \A k \in c.keys \ (c.left \cup {c.to}) : rs[k] = [sp[k] EXCEPT !.state = c.states[k]]
    /\ c.name \in {"set_state", "set_many_states"} /\ a = "write_row" => l.data = rs[c.to].data
    /\ c.name \in {"set_data", "update_data", "transition_data"} /\ a = "write_row"
         => l.state = rs[c.to].state
    /\ c.name = "set_data" => l.data = c.data
    /\ c.name = "update_data" => l.data = c.data \cup (IF a = "merge_data" THEN {} ELSE rs[c.to].data)
    /\ c.name = "transition_data" =>
         /\ a = "merge_data" => l.data = rs[c.from].data
         /\ a \in {"read_state", "write_data", "write_row"} =>
              l.data = rs[c.from].data \cup (IF c.merge THEN rs[c.to].data ELSE {})
         /\ a = "delete" => rs[c.to] = Specified(sp, c)[c.to]

AloneIsHalfway ==
    \A t \in Callers :
        call[t] # NoCall /\ KeysOf(call[t]) \cap tainted = {}
            => Halfway(rows, spec, call[t], at[t], loc[t])

(* Calls that do not overlap and do not raise are the atomic calls of the  *)
(* specification, on every storage: a key no call is at work on holds what *)
(* was asked for.                                                          *)
CallsAreAtomic ==
    \A k \in Keys \ tainted :
        (\A t \in Callers : k \notin KeysOf(call[t])) => rows[k] = spec[k]

(* Where the state has a place of its own (memory, Redis, MongoDB) it is   *)
(* never undone by a call about data, however calls overlap or fail: it is *)
(* the one asked for last.                                                 *)
StateSurvives ==
    backend \in FieldBackends => \A k \in Keys : rows[k].state = asked[k]

(* What a key holds is what was asked for, as far as the storage promises; *)
(* with what makes it so.                                                  *)
RowsAsAsked ==
    /\ StorageTypeOK /\ CallsAreProper /\ OverlapTaints /\ AloneIsHalfway
    /\ CallsAreAtomic /\ StateSurvives

(* No step of transition_data, complete or raising, leaves the data of the *)
(* source in neither place, unless another call is at the same keys.       *)
TransitionKeepsData ==
    [][\A t \in Callers :
        (call[t].name = "transition_data" /\ at'[t] # at[t] /\ KeysOf(call[t]) \cap tainted = {})
            => rows[call[t].from].data \subseteq rows'[call[t].from].data \cup rows'[call[t].to].data]_storageVars

(* An exported snapshot stays what it was, but for the data of keys that   *)
(* were updated in place on the memory storage since.                      *)
SnapshotStays ==
    \A k \in Keys :
        /\ snap[k].state = taken[k].state
        /\ snap[k].data # taken[k].data => backend = "memory" /\ k \in newer

(* No update is lost.  (Not so for calls that overlap.)                    *)
NoUpdateLost ==
    (\A t \in Callers : call[t] = NoCall) /\ raised = 0 => rows = spec
=============================================================================
