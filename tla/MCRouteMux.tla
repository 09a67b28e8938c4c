----------------------------- MODULE MCRouteMux -----------------------------
(* Instances of RouteMux for TLC.                                             *)
EXTENDS RouteMux

Ends(i, a) == [e \in End |-> IF e = "initiator" THEN i ELSE a]

\* A route competes with a flood of control frames.
Flood ==
    [mints |-> Ends({1}, {}), payloads |-> Ends(2, 0), talkers |-> {"initiator"},
     casters |-> {}, hangups |-> {}, max_routes |-> 2]

\* Two routes compete with each other.
Rivals ==
    [mints |-> Ends({1, 3}, {}), payloads |-> Ends(1, 0), talkers |-> {},
     casters |-> {}, hangups |-> {}, max_routes |-> 2]

\* One route carries more than its window; datagrams compete.
Long ==
    [mints |-> Ends({1}, {}), payloads |-> Ends(4, 0), talkers |-> {},
     casters |-> {"initiator"}, hangups |-> {}, max_routes |-> 2]

\* A frame is under way while either end may hang up.
Hangup ==
    [mints |-> Ends({1}, {}), payloads |-> Ends(1, 0), talkers |-> {},
     casters |-> {}, hangups |-> End, max_routes |-> 2]

\* Both ends open a route at once, and there is room for one.
Crossed ==
    [mints |-> Ends({1}, {2}), payloads |-> Ends(1, 1), talkers |-> {},
     casters |-> {}, hangups |-> {}, max_routes |-> 1]

MCWorlds == {Flood, Rivals, Long, Hangup, Crossed}
=============================================================================
