---------------------------- MODULE CreditWindow ----------------------------
(* What the credit protocol of a route promises, for one direction of one     *)
(* route (crates/astrs-transport/src/mux/state.rs): a sender holds credit, the *)
(* receiver a buffer of as many frames as the window, and the receiver returns *)
(* what its application consumed in batches of at least Threshold frames.     *)
EXTENDS MuxConfig

VARIABLES
    phase,       \* "unopened", "open" or "closed"
    credit,      \* frames the sender may still write
    flying,      \* frames between the sender's writer and the receiver's demux
    missed,      \* frames that reached the peer before the route's RouteOpen did
    buffered,    \* frames in the inbound channel
    taken,       \* frames received by the application and not yet noted
    since,       \* consumed_since_grant
    granted      \* credit on its way back

cvars == <<phase, credit, flying, missed, buffered, taken, since, granted>>

Init ==
    /\ phase = "unopened" /\ credit = 0
    /\ flying = 0 /\ missed = 0 /\ buffered = 0
    /\ taken = 0 /\ since = 0 /\ granted = 0

Open ==
    /\ phase = "unopened" /\ phase' = "open" /\ credit' = Window
    /\ UNCHANGED <<flying, missed, buffered, taken, since, granted>>

Write ==
    /\ phase = "open" /\ credit > 0
    /\ credit' = credit - 1 /\ flying' = flying + 1
    /\ UNCHANGED <<phase, missed, buffered, taken, since, granted>>

Arrive ==
    /\ phase = "open" /\ flying > 0
    /\ flying' = flying - 1 /\ buffered' = buffered + 1
    /\ UNCHANGED <<phase, credit, missed, taken, since, granted>>

\* A frame that overtook the announcement of its route is dropped.
Miss ==
    /\ phase = "open" /\ flying > 0
    /\ flying' = flying - 1 /\ missed' = missed + 1
    /\ UNCHANGED <<phase, credit, buffered, taken, since, granted>>

Take ==
    /\ phase = "open" /\ buffered > 0
    /\ buffered' = buffered - 1 /\ taken' = taken + 1
    /\ UNCHANGED <<phase, credit, flying, missed, since, granted>>

Note ==
    /\ phase = "open" /\ taken > 0
    /\ taken' = taken - 1
    /\ IF since + 1 < Threshold
       THEN since' = since + 1 /\ UNCHANGED granted
       ELSE since' = 0 /\ granted' = granted + since + 1
    /\ UNCHANGED <<phase, credit, flying, missed, buffered>>

AddCredit ==
    /\ phase = "open"
    /\ \E delta \in 1..granted : granted' = granted - delta /\ credit' = credit + delta
    /\ UNCHANGED <<phase, flying, missed, buffered, taken, since>>

\* Once an end has closed the route nothing more is promised of its counters.
Close ==
    /\ phase' = "closed" /\ credit' = 0
    /\ flying' = 0 /\ missed' = 0 /\ buffered' = 0
    /\ taken' = 0 /\ since' = 0 /\ granted' = 0

Next == Open \/ Write \/ Arrive \/ Miss \/ Take \/ Note \/ AddCredit \/ Close

Spec == Init /\ [][Next]_cvars

-----------------------------------------------------------------------------
\* The counters of a RouteEntry are unsigned: no step takes one below zero.
TypeOK ==
    /\ phase \in {"unopened", "open", "closed"}
    /\ credit \in Nat /\ flying \in Nat /\ missed \in Nat /\ buffered \in Nat
    /\ taken \in Nat /\ since \in Nat /\ granted \in Nat

\* Credit is neither invented nor lost: every frame of the window is somewhere.
Conserved ==
    phase = "open" =>
        credit + flying + missed + buffered + taken + since + granted = Window

\* The buffer never overflows: a frame that arrives finds room for itself.
RoomForArrivals == phase = "open" => buffered + flying <= Window

\* A sender without credit has something to wait for: a frame still on its way
\* to the application or a grant on its way back. Only frames that were missed
\* can take that away.
NeverStuck ==
    phase = "open" /\ credit = 0 /\ missed = 0 => flying + buffered + taken + granted > 0
=============================================================================
