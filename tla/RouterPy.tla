------------------------------ MODULE RouterPy ------------------------------
(***************************************************************************)
(* A tree of Routers of the Python SDK and the propagation of an event     *)
(* through it (vaidcord-py/src/vaidcord/router.py), with FSMMiddleware and *)
(* Router.state_filter.  Bot and Dispatcher are Routers too.               *)
(*                                                                         *)
(* Handlers, filters and middlewares are the application's coroutines: an  *)
(* event waits only inside one of them, and only then may somebody else    *)
(* register something.  A propagation is a stack of frames; ret is what    *)
(* the frame above returned or raised.                                     *)
(***************************************************************************)
EXTENDS Integers, Sequences, FiniteSets, SequencesExt

CONSTANTS
    Routers, Root,  \* the routers, and the one that events are fed to
    NoRouter,
    Types,          \* event types
    States,         \* FSM states
    Setup,          \* registrations made before the first event, in order
    Ops,            \* registrations that may be made later, each once
    MaxOps,         \* bound: how many of them are made
    MaxEvents       \* bound: events

ASSUME RouterAssumption ==
    /\ Root \in Routers /\ NoRouter \notin Routers /\ "any" \notin Types
    /\ MaxOps \in Nat /\ MaxEvents \in Nat

VARIABLES
    tree,     \* tree[r]: _parent, _routers, _handlers, middlewares, filters
              \* and dependencies
    cache     \* cache[r]: the resolution caches; {} is an entry not there

VARIABLES     \* the propagation of an event
    type, ctx, stack, ret, events

VARIABLES
    fsm,      \* the state in the FSM storage
    made      \* the later registrations made so far

VARIABLES     \* history of the event
    ran,      \* the handlers run, with what was injected
    skips,    \* the handlers not run for a filter or an inner middleware
    runs,     \* the outer middlewares invoked
    cut,      \* an exception or an outer middleware cut it short
    stopped,  \* somebody raised StopPropagation
    since,    \* what was registered since it was fed
    due       \* the handlers that were there then and were not cleared
              \* before the loop over them began

event == <<type, ctx, stack, ret, events>>
history == <<ran, skips, runs, cut, stopped, since, due>>
vars == <<tree, cache, event, fsm, made, history>>

NoContext == [dep |-> "none", snap |-> "unset"]
Chains == {"inner", "outer", "filters", "deps"}
NoCache == [k \in Chains |-> [t \in Types \cup {"any"} |-> {}]]
Fresh0 == [parent |-> NoRouter, kids |-> <<>>, lists |-> [t \in Types |-> <<>>],
           cur |-> [t \in Types |-> 0], inner |-> <<>>, outer |-> <<>>, filters |-> <<>>, deps |-> <<>>]

-----------------------------------------------------------------------------
(* Registration.  Every operation maps the tree to the new one.            *)

(* The decorators.  on_message, on_event and the shortcuts for the single  *)
(* types of events each register a handler; middlewares come in two layers.*)
_event_shortcut(r, t, h) == [op |-> "handler", r |-> r, type |-> t, h |-> h]
on_message(r, h) == _event_shortcut(r, "message", h)
on_command(r, h) == on_message(r, h)    \* its filter is one of GuardFails
middleware_layer(r, l, m) == [op |-> "middleware", r |-> r, layer |-> l, m |-> m]

(* append and sort(reverse=True), which is stable: behind its equals.      *)
ByPriority(s, m) ==
    SelectSeq(s, LAMBDA x : x.prio >= m.prio) \o <<m>> \o SelectSeq(s, LAMBDA x : x.prio < m.prio)

(* register_handler.  The list of a type is made when it is first needed   *)
(* and is changed in place: lists keeps the ones that were cleared, too,   *)
(* for an event may be in the middle of one.                               *)
register_handler(tr, o) ==
    LET c == tr[o.r].cur[o.type]  ls == tr[o.r].lists[o.type] IN
    IF c = 0 THEN [tr EXCEPT ![o.r].lists[o.type] = Append(@, <<o.h>>), ![o.r].cur[o.type] = Len(ls) + 1]
             ELSE [tr EXCEPT ![o.r].lists[o.type][c] = ByPriority(@, o.h)]

clear_handlersInPlace(tr, o) ==
    [tr EXCEPT ![o.r].cur = [t \in Types |-> 0], ![o.r].lists = [t \in Types |-> [i \in DOMAIN @[t] |-> <<>>]]]
clear_handlers(tr, o) == [tr EXCEPT ![o.r].cur = [t \in Types |-> 0]]

include_router(tr, o) == [tr EXCEPT ![o.child].parent = o.r, ![o.r].kids = Append(@, o.child)]
provide(tr, o) == [tr EXCEPT ![o.r].deps = <<[v |-> o.v, types |-> {"any"}]>>]
add_filter(tr, o) == [tr EXCEPT ![o.r].filters = ByPriority(@, o.m)]
register_middleware(tr, o) == [tr EXCEPT ![o.r][o.layer] = ByPriority(@, o.m)]

Registered(tr, o) ==
    CASE o.op = "handler" -> register_handler(tr, o)
      [] o.op = "clear" -> clear_handlers(tr, o)
      [] o.op = "include" -> include_router(tr, o)
      [] o.op = "provide" -> provide(tr, o)
      [] o.op = "filter" -> add_filter(tr, o)
      [] o.op = "middleware" -> register_middleware(tr, o)

(* include_router refuses a router that has a parent, and itself.          *)
Allowed(o) == o.op = "include" => tree[o.child].parent = NoRouter /\ o.child # o.r

RECURSIVE Below(_, _)
Below(tr, r) == {r} \cup UNION {Below(tr, k) : k \in ToSet(tr[r].kids)}

_invalidate_resolution_cachesShallow(tr, o) == [cache EXCEPT ![o.r] = NoCache]
_invalidate_resolution_caches(tr, o) ==
    IF o.op \in {"handler", "clear"} THEN cache
    ELSE [r \in Routers |-> IF r \in Below(tr, o.r) THEN NoCache ELSE cache[r]]

-----------------------------------------------------------------------------
(* _resolve_dependencies, _resolve_router_filter_configs and the two       *)
(* _resolve_..middleware_configs: the chain of the parent, then one's own. *)

(* From r upwards; a cached chain is taken as it is.                       *)
RECURSIVE Resolve(_, _, _, _)
Resolve(ca, k, r, t) ==
    IF ca[r][k][t] # {} THEN CHOOSE c \in ca[r][k][t] : TRUE
    ELSE (IF tree[r].parent = NoRouter THEN <<>> ELSE Resolve(ca, k, tree[r].parent, t))
         \o SelectSeq(tree[r][k], LAMBDA m : t \in m.types)

RECURSIVE Up(_)
Up(r) == {r} \cup (IF tree[r].parent = NoRouter THEN {} ELSE Up(tree[r].parent))

(* Every router that had to be asked keeps its answer.                     *)
Filled(ca, k, r, t) ==
    [a \in Routers |->
        IF a \in Up(r) /\ \A b \in Up(r) : a \in Up(b) => ca[b][k][t] = {}
        THEN [ca[a] EXCEPT ![k][t] = {Resolve(ca, k, a, t)}] ELSE ca[a]]

-----------------------------------------------------------------------------
(* Frames.                                                                 *)

(* call(i) of a chain: the middleware i, or what the chain is around: the  *)
(* body of propagate_event or the guarded handler.                         *)
Body(r) == [k |-> "body", r |-> r, ch |-> 0, hi |-> 0, l |-> -1, res |-> "none"]
Guard(r, h) == [k |-> "guard", r |-> r, h |-> h]
call(layer, chain, i, r, h) ==
    IF i <= Len(chain) THEN [k |-> "mw", layer |-> layer, chain |-> chain, i |-> i, r |-> r, h |-> h, called |-> FALSE]
    ELSE IF layer = "outer" THEN Body(r) ELSE Guard(r, h[1])

Top == Last(stack)
Pop == Front(stack)
Replace(f) == Append(Pop, f)

(* A middleware that is invoked is counted.                                *)
Invoked(f, rs) == runs' = IF f.k = "mw" /\ f.layer = "outer" THEN Append(rs, f.chain[f.i].id) ELSE rs

(* The dependencies of a router go into the context of the event.          *)
InContextOnce(c, deps) == IF deps = <<>> \/ c.dep # "none" THEN c ELSE [c EXCEPT !.dep = Last(deps).v]
InContext(c, deps) == IF deps = <<>> THEN c ELSE [c EXCEPT !.dep = Last(deps).v]

(* propagate_event of r on top of the frames s, up to the first middleware *)
(* or the body.                                                            *)
propagate_event(r, t, s, c, rs) ==
    LET ca == Filled(cache, "deps", r, "any")
        f == call("outer", Resolve(ca, "outer", r, t), 1, r, <<>>)
    IN /\ cache' = Filled(ca, "outer", r, t)
       /\ ctx' = InContext(c, Resolve(ca, "deps", r, "any"))
       /\ stack' = Append(s, f) /\ Invoked(f, rs)

-----------------------------------------------------------------------------
(* The order a tree promises: children first, priorities descending,       *)
(* handlers of one priority in the order of their registration.            *)
Current(r, t) == IF tree[r].cur[t] = 0 THEN <<>> ELSE tree[r].lists[t][tree[r].cur[t]]
RECURSIVE Order(_, _)
Order(r, t) ==
    FlattenSeq([i \in DOMAIN tree[r].kids |-> Order(tree[r].kids[i], t)]) \o Current(r, t)
Ids(s) == [i \in DOMAIN s |-> s[i].id]

(* The loop over the handlers of r is running.                             *)
InLoop(r) == \E i \in DOMAIN stack : stack[i].k = "body" /\ stack[i].r = r /\ stack[i].l # -1

-----------------------------------------------------------------------------
Init ==
    /\ tree = FoldLeft(Registered, [r \in Routers |-> Fresh0], Setup)
    /\ cache = [r \in Routers |-> NoCache]
    /\ type \in Types /\ ctx = NoContext
    /\ stack = <<>> /\ ret = "no" /\ events = 0
    /\ fsm \in States /\ made = {}
    /\ ran = <<>> /\ skips = {} /\ runs = <<>>
    /\ cut = FALSE /\ stopped = FALSE /\ since = {} /\ due = {}

(* The event is handed to the root router.                                 *)
feed_event(t) ==
    /\ stack = <<>> /\ events < MaxEvents
    /\ events' = events + 1 /\ type' = t /\ ret' = "no"
    /\ ran' = <<>> /\ skips' = {} /\ cut' = FALSE /\ stopped' = FALSE
    /\ since' = {} /\ due' = ToSet(Ids(Order(Root, t)))
    /\ propagate_event(Root, t, <<>>, NoContext, <<>>)
    /\ UNCHANGED <<tree, fsm, made>>

(* Somebody registers something while no event runs or while one waits.    *)
Registers(o) ==
    /\ o \notin made /\ Cardinality(made) < MaxOps /\ Allowed(o)
    /\ stack # <<>> => Top.k \in {"mw", "guard", "handler"} /\ ret \notin {"stop", "error"}
    /\ tree' = Registered(tree, o)
    /\ cache' = _invalidate_resolution_caches(Registered(tree, o), o)
    /\ made' = made \cup {o} /\ since' = since \cup {o}
    /\ due' = due \ (IF o.op = "clear" /\ ~InLoop(o.r) THEN ToSet(Ids(Current(o.r, type))) ELSE {})
    /\ UNCHANGED <<event, fsm, ran, skips, runs, cut, stopped>>

(* A middleware calls the next one.  FSMMiddleware has read the state into *)
(* the context before.                                                     *)
CallsNext ==
    /\ stack # <<>> /\ ret = "no" /\ Top.k = "mw" /\ ~Top.called
    /\ LET f == call(Top.layer, Top.chain, Top.i + 1, Top.r, Top.h)
       IN stack' = Append(Replace([Top EXCEPT !.called = TRUE]), f) /\ Invoked(f, runs)
    /\ ctx' = IF Top.chain[Top.i].id = "fsm" THEN [ctx EXCEPT !.snap = fsm] ELSE ctx
    /\ UNCHANGED <<tree, cache, type, ret, events, fsm, made, ran, skips, cut, stopped, since, due>>

(* Or does not, or raises: StopPropagation is None for its caller.         *)
Drops(x) ==
    /\ stack # <<>> /\ ret = "no" /\ Top.k = "mw" /\ ~Top.called /\ Top.chain[Top.i].id # "fsm"
    /\ stack' = Pop /\ ret' = IF x = "error" THEN x ELSE "none"
    /\ cut' = (cut \/ x = "error" \/ Top.layer = "outer") /\ stopped' = (stopped \/ x = "stop")
    /\ skips' = IF Top.layer = "inner" THEN skips \cup {Top.h[1].id} ELSE skips
    /\ UNCHANGED <<tree, cache, type, ctx, events, fsm, made, ran, runs, since, due>>

Returns ==
    /\ stack # <<>> /\ Top.k = "mw" /\ Top.called /\ ret \notin {"no", "stop", "error"}
    /\ stack' = Pop
    /\ UNCHANGED <<tree, cache, type, ctx, ret, events, fsm, made, history>>

(* The body: the children first, then the handlers of the type.  Both      *)
(* loops go over the live lists by an index; the list of handlers and the  *)
(* router filters are looked up behind the last child.  A child's None is  *)
(* ignored, a handler's is the result.                                     *)
Receives ==
    /\ stack # <<>> /\ Top.k = "body" /\ ret \notin {"no", "stop", "error"}
    /\ stack' = Replace([Top EXCEPT !.res = IF ret = "skipped" \/ (Top.l = -1 /\ ret = "none") THEN @ ELSE ret])
    /\ ret' = "no"
    /\ UNCHANGED <<tree, cache, type, ctx, events, fsm, made, history>>

EntersChild ==
    /\ stack # <<>> /\ Top.k = "body" /\ ret = "no" /\ Top.ch < Len(tree[Top.r].kids) /\ Top.l = -1
    /\ propagate_event(tree[Top.r].kids[Top.ch + 1], type, Replace([Top EXCEPT !.ch = @ + 1]), ctx, runs)
    /\ UNCHANGED <<tree, type, ret, events, fsm, made, ran, skips, cut, stopped, since, due>>

HandlersOf(r, l) == IF l = 0 THEN <<>> ELSE tree[r].lists[type][l]
EntersHandler ==
    /\ stack # <<>> /\ Top.k = "body" /\ ret = "no" /\ (Top.l # -1 \/ Top.ch = Len(tree[Top.r].kids))
    /\ LET l == IF Top.l = -1 THEN tree[Top.r].cur[type] ELSE Top.l
           ca == IF Top.l = -1 THEN Filled(cache, "filters", Top.r, type) ELSE cache
           hs == HandlersOf(Top.r, l)
       IN \/ /\ Top.hi < Len(hs)
             /\ cache' = Filled(ca, "inner", Top.r, type)
             /\ stack' = Append(Replace([Top EXCEPT !.l = l, !.hi = @ + 1]),
                                call("inner", Resolve(ca, "inner", Top.r, type), 1, Top.r, <<hs[Top.hi + 1]>>))
             /\ UNCHANGED ret
          \/ /\ Top.hi >= Len(hs)
             /\ cache' = ca /\ stack' = Pop /\ ret' = Top.res
    /\ UNCHANGED <<tree, type, ctx, events, fsm, made, history>>

(* The guarded handler.  A filter that fails or raises skips it; the       *)
(* filter of a state looks at the snapshot.                                *)
GuardFails ==
    /\ stack # <<>> /\ ret = "no" /\ Top.k = "guard"
    /\ stack' = Pop /\ ret' = "skipped" /\ skips' = skips \cup {Top.h.id}
    /\ UNCHANGED <<tree, cache, type, ctx, events, fsm, made, ran, runs, cut, stopped, since, due>>

state_filterFresh(h) == h.need \in {"any", fsm}
state_filter(h) == h.need \in {"any", ctx.snap}

(* _build_handler_kwargs: the context over the router's dependencies.      *)
_build_handler_kwargs(r) ==
    LET deps == Resolve(cache, "deps", r, "any") IN
    IF ctx.dep # "none" THEN ctx.dep ELSE IF deps = <<>> THEN "none" ELSE Last(deps).v

GuardPasses ==
    /\ stack # <<>> /\ ret = "no" /\ Top.k = "guard" /\ state_filter(Top.h)
    /\ cache' = Filled(cache, "deps", Top.r, "any")
    /\ stack' = Replace([Top EXCEPT !.k = "handler"])
    /\ ran' = Append(ran, [h |-> Top.h, r |-> Top.r, dep |-> _build_handler_kwargs(Top.r)])
    /\ UNCHANGED <<tree, type, ctx, ret, events, fsm, made, skips, runs, cut, stopped, since, due>>

(* A handler sets the state it is for, and returns or raises.              *)
HandlerEnds(x) ==
    /\ stack # <<>> /\ ret = "no" /\ Top.k = "handler"
    /\ stack' = Pop /\ ret' = x
    /\ fsm' = IF Top.h.sets = "keep" THEN fsm ELSE Top.h.sets
    /\ stopped' = (stopped \/ x = "stop")
    /\ UNCHANGED <<tree, cache, type, ctx, events, made, ran, skips, runs, cut, since, due>>

(* An exception ends every frame up to the next middleware, which turns    *)
(* StopPropagation into None and nothing else.                             *)
Unwinds ==
    /\ stack # <<>> /\ ret \in {"stop", "error"}
    /\ stack' = Pop
    /\ ret' = IF Top.k = "mw" /\ ret = "stop" THEN "none" ELSE ret
    /\ cut' = (cut \/ Top.k = "body" \/ (Top.k = "mw" /\ Top.layer = "outer"))
    /\ UNCHANGED <<tree, cache, type, ctx, events, fsm, made, ran, skips, runs, stopped, since, due>>

Next ==
    \/ \E t \in Types : feed_event(t)
    \/ \E o \in Ops : Registers(o)
    \/ CallsNext \/ Returns \/ Receives \/ EntersChild \/ EntersHandler
    \/ GuardFails \/ GuardPasses \/ Unwinds
    \/ \E x \in {"none", "stop", "error"} : Drops(x)
    \/ \E x \in {"none", "value", "stop", "error"} : HandlerEnds(x)

Spec == Init /\ [][Next]_vars

-----------------------------------------------------------------------------
(* Properties.                                                             *)

Over == events > 0 /\ stack = <<>>
RouterOps == {o \in Ops \cup ToSet(Setup) : o.op = "handler"}
Handlers == {o.h : o \in RouterOps}

(* Every variable keeps its type.                                          *)
TypeOK ==
    /\ \A r \in Routers :
         /\ tree[r].parent \in Routers \cup {NoRouter} /\ tree[r].kids \in Seq(Routers)
         /\ \A t \in Types : /\ tree[r].cur[t] \in 0 .. Len(tree[r].lists[t])
                             /\ tree[r].lists[t] \in Seq(Seq(Handlers))
    /\ type \in Types /\ fsm \in States /\ events \in 0 .. MaxEvents /\ made \subseteq Ops
    /\ ret \in {"no", "none", "value", "skipped", "stop", "error"}
    /\ \A i \in DOMAIN stack : stack[i].k \in {"mw", "body", "guard", "handler"}
    /\ skips \cup due \subseteq {h.id : h \in Handlers} /\ {cut, stopped} \subseteq BOOLEAN /\ since \subseteq made

(* What is resolved without the caches.                                    *)
RECURSIVE Uncached(_, _, _)
Uncached(k, r, t) ==
    (IF tree[r].parent = NoRouter THEN <<>> ELSE Uncached(k, tree[r].parent, t))
        \o SelectSeq(tree[r][k], LAMBDA m : t \in m.types)

(* No sequence of registrations and events leaves a stale cache: what is   *)
(* kept for a router and an event type is what the tree says now.          *)
CachesCoherent ==
    \A r \in Routers, k \in Chains, t \in Types \cup {"any"} :
        \A chain \in cache[r][k][t] : chain = Uncached(k, r, t)

(* An event that nothing cuts short and in which nobody raises             *)
(* StopPropagation runs every handler whose filters pass, once and in that *)
(* order; a middleware or a filter that drops a handler drops only it.     *)
RunsAll ==
    Over /\ since = {} /\ ~cut /\ ~stopped =>
        [i \in DOMAIN ran |-> ran[i].h.id] = SelectSeq(Ids(Order(Root, type)), LAMBDA h : h \notin skips)

(* Whatever is registered or cleared while an event walks over the live    *)
(* lists: no handler that was due is passed over, ...                      *)
SkipsNone == Over /\ ~cut /\ ~stopped => due \subseteq {ran[i].h.id : i \in DOMAIN ran} \cup skips

(* ... one runs again only when one of a higher priority was put before it *)
(* in the meantime, ...                                                    *)
RunsOnce ==
    \A i, j \in DOMAIN ran : i # j /\ ran[i].h = ran[j].h =>
        \E o \in since : o.op = "handler" /\ o.r = ran[i].r /\ o.h.prio > ran[i].h.prio

(* ... and within a router priorities hold, even for an event cut short.   *)
PriorityKept ==
    \A i, j \in DOMAIN ran : i < j /\ ran[i].r = ran[j].r => ran[i].h.prio >= ran[j].h.prio

(* The routers that an event has entered when the handlers of r run, in    *)
(* the order in which it did, and the value of the last one that has one.  *)
RECURSIVE Entered(_)
Entered(r) == <<r>> \o FlattenSeq([i \in DOMAIN tree[r].kids |-> Entered(tree[r].kids[i])])
RECURSIVE EnteredBefore(_)
EnteredBefore(r) ==
    LET p == tree[r].parent
        elder == SelectInSeq(tree[p].kids, LAMBDA k : k = r) - 1
    IN IF p = NoRouter THEN <<>>
       ELSE EnteredBefore(p) \o <<p>> \o FlattenSeq([i \in 1 .. elder |-> Entered(tree[p].kids[i])])
Provided(r) == LET deps == Uncached("deps", r, "any") IN IF deps = <<>> THEN "none" ELSE Last(deps).v
LastProvided(s) == LET vs == SelectSeq([i \in DOMAIN s |-> Provided(s[i])], LAMBDA v : v # "none")
                   IN IF vs = <<>> THEN "none" ELSE Last(vs)
Unmoved(ops) == \A o \in since : o.op \notin ops

(* A handler is given the value that the nearest router above it provides, *)
(* except that the routers of its own subtree, entered before it runs,     *)
(* leave theirs behind, and a router without a provider above it is given  *)
(* what the router entered last left behind.                               *)
NearestDependency ==
    Unmoved({"provide", "include"}) => \A i \in DOMAIN ran :
        LET r == ran[i].r IN
        /\ ~cut => ran[i].dep = LastProvided(EnteredBefore(r) \o Entered(r))
        /\ Provided(r) # "none" /\ (\A b \in Below(tree, r) \ {r} : tree[b].deps = <<>>)
               => ran[i].dep = Provided(r)

(* The handlers of one router that wait for an FSM state all see the state *)
(* from before the first of them ran: an event does not walk through two   *)
(* states in one router.                                                   *)
OneStatePerRouter ==
    \A i, j \in DOMAIN ran :
        ran[i].r = ran[j].r /\ "any" \notin {ran[i].h.need, ran[j].h.need}
            => ran[i].h.need = ran[j].h.need

(* An outer middleware of a router is invoked once for each router of its  *)
(* subtree, the chain of a child beginning with its parent's.              *)
OuterRunsPerRouter ==
    Over /\ ~cut /\ ~stopped /\ Unmoved({"middleware", "include"}) =>
        \A r \in Routers \cap Below(tree, Root) : \A m \in ToSet(tree[r].outer) :
            type \in m.types =>
                Cardinality({i \in DOMAIN runs : runs[i] = m.id}) = Cardinality(Below(tree, r))

(* StopPropagation leaves propagate_event only when the router that raised *)
(* it has no middleware of either layer.                                   *)
StopEscapesBare ==
    Over /\ ret = "stop" /\ Unmoved({"middleware", "include"}) =>
        LET r == Last(ran).r IN Uncached("outer", r, type) = <<>> /\ Uncached("inner", r, type) = <<>>

(* The walk of an event is complete and in order, over lists that change   *)
(* under it too, and StopPropagation leaves it only where the code lets it.*)
WalkIsComplete ==
    TypeOK /\ RunsAll /\ SkipsNone /\ RunsOnce /\ PriorityKept /\ OuterRunsPerRouter /\ StopEscapesBare

-----------------------------------------------------------------------------
(* What the documentation says and the code does not do; README.md lists   *)
(* them with the counterexamples.                                          *)

(* StopPropagation drops the event: no handler runs after it.              *)
StopDropsEvent == [][stopped /\ stopped' => ran' = ran]_vars

(* An inner middleware runs when the filters have passed.                  *)
InnerAfterFilters ==
    [][skips' # skips /\ Top.k = "guard" =>
           LET f == stack[Len(stack) - 1] IN f.k = "body" \/ f.layer = "outer"]_vars

(* A dependency comes from the router or its parents.                      *)
DependencyIsLocal == since = {} => \A i \in DOMAIN ran : ran[i].dep = Provided(ran[i].r)

(* An event walks through one FSM state, whatever routers handle it.       *)
OneStatePerEvent ==
    since = {} => \A i, j \in DOMAIN ran :
        "any" \notin {ran[i].h.need, ran[j].h.need} => ran[i].h.need = ran[j].h.need
=============================================================================
