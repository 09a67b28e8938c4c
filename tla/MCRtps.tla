------------------------------- MODULE MCRtps -------------------------------
(* Instances of Rtps for TLC. Each world is a QoS and a number of samples.    *)
EXTENDS Rtps

Reliable ==
    [reliable |-> TRUE, durable |-> FALSE, wants |-> FALSE, depth |-> KeepAll, ceiling |-> 3,
     writes |-> 3, removals |-> 0, inflight |-> 1]

\* KEEP_ALL, VOLATILE: as many samples as fill the reader's table above a hole,
\* or as lie beyond its bitmap when it is matched in between.
Limits == Reliable
\* The same with datagrams that overtake each other.
Volatile == [Reliable EXCEPT !.ceiling = 2, !.writes = 2, !.inflight = 2]
\* A history that is full after one sample.
Full == [Reliable EXCEPT !.ceiling = 1, !.writes = 2]
\* KEEP_LAST, TRANSIENT_LOCAL: evicted, expired and forgotten samples.
Latched == [Reliable EXCEPT !.durable = TRUE, !.wants = TRUE, !.depth = 2, !.removals = 1]
\* More history than one call of `produce` sends.
BestEffort ==
    [Reliable EXCEPT !.reliable = FALSE, !.durable = TRUE, !.wants = TRUE, !.ceiling = 4,
                     !.writes = 4]

MCWorlds == {Limits, Volatile, Full, Latched, BestEffort}

=============================================================================
