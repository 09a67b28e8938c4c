------------------------------ MODULE MCUplink ------------------------------
(* Instances of Uplink for TLC. Each world is a scenario.                     *)
EXTENDS Uplink

Quiet ==
    [capacity |-> 2, page |-> 9, records |-> 0, facts |-> 0, talks |-> 1, ops |-> <<>>,
     builds |-> 0, cuts |-> 0, lapses |-> 0, restarts |-> 0]

\* Reports while the connection breaks.
Reports == [Quiet EXCEPT !.facts = 2, !.talks = 0, !.cuts = 1]
\* Catch-up in several pages while it breaks, and across a restart with
\* heartbeats in the log.
Changes == [Quiet EXCEPT !.page = 2, !.records = 2, !.ops = <<TRUE>>, !.cuts = 1]
Rebirth == [Quiet EXCEPT !.page = 2, !.records = 3, !.ops = <<FALSE, TRUE>>, !.restarts = 1]
\* A build while the connection breaks.
Builds == [Quiet EXCEPT !.capacity = 3, !.builds = 1, !.cuts = 1]
\* The watchdog gives up on the daemon, and the session ends.
Lapse == [Quiet EXCEPT !.lapses = 1, !.facts = 1]

MCWorlds == {Reports, Changes, Rebirth, Builds, Lapse}

MCConns == 1..3
=============================================================================
