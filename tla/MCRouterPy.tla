----------------------------- MODULE MCRouterPy -----------------------------
(* A bot, a dispatcher with its FSM middleware, and two routers.           *)
EXTENDS RouterPy

All == Types
Message == {"message"}
H(i, p, n, s) == [id |-> i, prio |-> p, need |-> n, sets |-> s]
Mw(r, l, i, p, ts) == middleware_layer(r, l, [id |-> i, prio |-> p, types |-> ts])
Include(r, c) == [op |-> "include", r |-> r, child |-> c]
Provide(r, v) == [op |-> "provide", r |-> r, v |-> v]

MCSetup == <<Mw("disp", "outer", "fsm", 0, All), Include("bot", "disp"), Include("disp", "a"),
             on_command("bot", H("h0", 0, "any", "keep")),
             on_message("a", H("h1", 0, "s1", "s2")), on_message("a", H("h2", 0, "s2", "s1")),
             on_message("b", H("h4", 0, "s2", "keep"))>>

MCOps == {Include("disp", "b"), on_message("a", H("h3", 1, "any", "keep")),
          Mw("bot", "inner", "m1", 0, Message), Mw("disp", "inner", "m2", 1, All), Mw("bot", "outer", "m3", 1, All),
          Provide("disp", "d1"), Provide("a", "d2"),
          [op |-> "filter", r |-> "disp", m |-> [id |-> "f1", prio |-> 0, types |-> Message]],
          [op |-> "clear", r |-> "a"]}
=============================================================================
