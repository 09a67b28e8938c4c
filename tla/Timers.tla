------------------------------- MODULE Timers -------------------------------
(* What a timer wheel promises (crates/astrs-scheduler/src/timer/wheel.rs): a   *)
(* timer stands for the points of its grid, anchor + k * period.  No point is   *)
(* delivered early; none is more than a millisecond late once the clock moves;  *)
(* and every point is delivered, by itself or counted as skipped, exactly once. *)
EXTENDS Naturals, FiniteSets, FiniteSetsExt

CONSTANTS
    Ms,            \* instants in a millisecond
    Horizon,       \* the last millisecond
    MaxTimers,     \* how many timers are registered in a behaviour
    Specs,         \* TimerSpec: [period, anchor, policy]
    BurstCap       \* burst_cap

VARIABLES
    clock,         \* milliseconds the wheel has seen go by
    entries,       \* the registered timers: [spec, next_due]
    next_id,
    fired          \* what the last call delivered

tvars == <<clock, entries, next_id, fired>>

Instants == 0 .. Horizon * Ms

(* The points up to the first that is beyond the horizon.                       *)
Grid(spec) == {spec.anchor + k * spec.period : k \in 0 .. ((Horizon * Ms) \div spec.period) + 1}
FirstAfter(spec, at) == Min({g \in Grid(spec) : g > at})

(* The points that have come: with burst, BurstCap of them are delivered one by *)
(* one; all others are one delivery, the first of them, with a count.           *)
Deliveries(id, now) ==
    LET spec == entries[id].spec
        points == {g \in Grid(spec) : entries[id].next_due <= g /\ g <= now}
        single == {g \in points : spec.policy = "burst"
                                  /\ Cardinality({h \in points : h < g}) < BurstCap}
        rest == points \ single
    IN  {[id |-> id, at |-> g, skipped |-> 0] : g \in single}
        \cup (IF rest = {} THEN {}
              ELSE {[id |-> id, at |-> Min(rest), skipped |-> Cardinality(rest) - 1]})

Init == clock = 0 /\ entries = <<>> /\ next_id = 1 /\ fired = {}

Insert(spec, now) ==
    /\ next_id' = next_id + 1
    /\ fired' = {}
    /\ entries' = [i \in DOMAIN entries \cup {next_id} |->
                     IF i = next_id THEN [spec |-> spec, next_due |-> FirstAfter(spec, now)]
                     ELSE entries[i]]
    /\ UNCHANGED clock

Cancel(id) ==
    /\ fired' = {}
    /\ UNCHANGED <<clock, next_id>>
    /\ entries' = [i \in DOMAIN entries \ {id} |-> entries[i]]

Advance(now) ==
    /\ now \div Ms > clock
    /\ clock' = now \div Ms
    /\ next_id' = next_id
    /\ \E due \in SUBSET DOMAIN entries :
       /\ \A i \in due : entries[i].next_due <= now
       /\ \A i \in DOMAIN entries \ due : entries[i].next_due > Ms * clock'
       /\ fired' = UNION {Deliveries(i, now) : i \in due}
       /\ entries' = [i \in DOMAIN entries |->
                        IF i \in due
                        THEN [entries[i] EXCEPT !.next_due = FirstAfter(entries[i].spec, now)]
                        ELSE entries[i]]

(* A clock that has not moved on delivers nothing.                              *)
Stale == fired' = {} /\ UNCHANGED <<clock, entries, next_id>>

Next ==
    \/ \E spec \in Specs, now \in Instants : Insert(spec, now)
    \/ \E id \in DOMAIN entries : Cancel(id)
    \/ \E now \in Instants : Advance(now)
    \/ Stale

Spec == Init /\ [][Next]_tvars
=============================================================================
