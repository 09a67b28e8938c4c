-------------------------------- MODULE HLC --------------------------------
(***************************************************************************)
(* The hybrid logical clock of astrs-time (src/crates/astrs-time/src/      *)
(* hlc.rs).  Several clocks, each shared by several callers through its    *)
(* mutex, stamp events with now() and merge the stamps of their peers with *)
(* update_with().  Both operations read the wall clock BEFORE they take    *)
(* the lock, so a call is two steps here: the read, which the wall clock   *)
(* and the other callers may overtake, and the critical section.           *)
(*                                                                         *)
(* The 64-bit physical component and the 32-bit logical counter are        *)
(* scaled down to MaxPhysical and MaxLogical, so that overflow of either   *)
(* happens in small instances.  Stamps travel between clocks through       *)
(* `wire', a set that is never emptied:   a stamp may be delivered late,   *)
(* out of order, many times or never.                                      *)
(***************************************************************************)
EXTENDS Integers, FiniteSets

CONSTANTS
    Clock,        \* the HlcClock instances (one per node)
    Caller,       \* the threads that call them
    ClockOf,      \* the clock each caller uses
    MaxPhysical,  \* u64::MAX, scaled
    MaxLogical,   \* u32::MAX, scaled
    MaxDrift,     \* HlcClock::max_drift, in ticks of the wall clock
    MaxWire       \* bound: how many stamps are sent to peers

ASSUME ClockOfAssumption == ClockOf \in [Caller -> Clock]
ASSUME WidthAssumption == MaxPhysical \in Nat /\ MaxLogical \in Nat
ASSUME DriftAssumption == MaxDrift \in Nat /\ MaxWire \in Nat

VARIABLES
    state,     \* state[k]: the HlcTimestamp behind the mutex
    call,      \* call[c]: the call the caller has in flight
    wire,      \* the stamps sent to peers, never removed
    horizon,   \* horizon[k]: the largest wall reading clock k has taken
    borrowed   \* borrowed[k]: the nanoseconds clock k borrowed on overflow

vars == <<state, call, wire, horizon, borrowed>>

Physical == 0 .. MaxPhysical
Logical == 0 .. MaxLogical
HlcTimestamp == [physical : Physical, logical : Logical]

Stamp(p, l) == [physical |-> p, logical |-> l]
EPOCH == Stamp(0, 0)
MAX == Stamp(MaxPhysical, MaxLogical)

\* The derived Ord of HlcTimestamp: physical first, then logical.
Lt(a, b) == \/ a.physical < b.physical
            \/ a.physical = b.physical /\ a.logical < b.logical

Larger(m, n) == IF m < n THEN n ELSE m

Calls == [op : {"idle", "now", "update"}, wall : Physical, remote : HlcTimestamp]
Pending(op, w, r) == [op |-> op, wall |-> w, remote |-> r]
Idle == Pending("idle", 0, EPOCH)

----------------------------------------------------------------------------

\* The timestamp after (p, l): bump the counter, or borrow a nanosecond, or
\* stay pinned at MAX when both components are exhausted.
Successor(p, l) ==
    IF l < MaxLogical THEN Stamp(p, l + 1)
    ELSE IF p < MaxPhysical THEN Stamp(p + 1, 0)
    ELSE MAX

\* Whether Successor(p, l) borrows.
Borrows(p, l) == l = MaxLogical /\ p < MaxPhysical

\* Mutated form: a stale wall reading is believed although it is not ahead.
SendRuleTies(s, w) ==
    IF w >= s.physical THEN Stamp(w, 0) ELSE Successor(s.physical, s.logical)

\* The send rule, given the state and the wall reading taken before the lock.
SendRule(s, w) ==
    IF w > s.physical THEN Stamp(w, 0) ELSE Successor(s.physical, s.logical)

\* Mutated form: on a three-way tie the peer's counter is forgotten.
ReceiveCounterForgets(s, w, r) == s.logical

\* The counter the receive rule bumps when the largest physical time is l_new,
\* or -1 when the wall clock alone holds it and the counter restarts at zero.
ReceiveCounter(s, w, r) ==
    LET l_new == Larger(Larger(w, s.physical), r.physical)
    IN  IF l_new = s.physical /\ l_new = r.physical
        THEN Larger(s.logical, r.logical)
        ELSE IF l_new = s.physical THEN s.logical
        ELSE IF l_new = r.physical THEN r.logical
        ELSE -1

\* The receive rule.
ReceiveRule(s, w, r) ==
    LET l_new == Larger(Larger(w, s.physical), r.physical)
        l == ReceiveCounter(s, w, r)
    IN  IF l = -1 THEN Stamp(l_new, 0) ELSE Successor(l_new, l)

\* Mutated form: the drift check is gone.
NoDriftCheck(r, w) == TRUE

\* update_with's check: saturating_sub, so a remote in the past always passes.
WithinDrift(r, w) == r.physical - w <= MaxDrift

----------------------------------------------------------------------------
Init ==
    /\ state = [k \in Clock |-> EPOCH]
    /\ call = [c \in Caller |-> Idle]
    /\ wire = {}
    /\ horizon = [k \in Clock |-> 0]
    /\ borrowed = [k \in Clock |-> 0]

\* now() and update_with() up to the lock: read the wall clock, which may stand
\* still, advance or step backward between any two readings (external: the
\* operating system's clock).
ReadWall(c, w, pending) ==
    /\ call[c] = Idle
    /\ call' = [call EXCEPT ![c] = pending]
    /\ horizon' = [horizon EXCEPT ![ClockOf[c]] = Larger(@, w)]
    /\ UNCHANGED <<state, wire, borrowed>>

NowReads(c) ==
    \E w \in Physical : ReadWall(c, w, Pending("now", w, EPOCH))

\* A remote beyond the drift bound is refused before the lock is taken, and
\* the call returns with nothing changed.
UpdateReads(c) ==
    \E w \in Physical, r \in wire :
        /\ WithinDrift(r, w)
        /\ ReadWall(c, w, Pending("update", w, r))

\* now(), inside the lock.  The stamp may be put on a message or kept.
NowIssues(c) ==
    LET k == ClockOf[c]
        s == state[k]
        new == SendRule(s, call[c].wall)
        borrow == call[c].wall <= s.physical /\ Borrows(s.physical, s.logical)
    IN  /\ call[c].op = "now"
        /\ state' = [state EXCEPT ![k] = new]
        /\ wire' \in {wire, wire \cup {new}} /\ Cardinality(wire') <= MaxWire
        /\ borrowed' = [borrowed EXCEPT ![k] = IF borrow THEN @ + 1 ELSE @]
        /\ call' = [call EXCEPT ![c] = Idle]
        /\ UNCHANGED horizon

\* update_with(), inside the lock.
UpdateMerges(c) ==
    LET k == ClockOf[c]
        s == state[k]
        r == call[c].remote
        w == call[c].wall
        new == ReceiveRule(s, w, r)
        l == ReceiveCounter(s, w, r)
        borrow == Borrows(Larger(Larger(w, s.physical), r.physical), l)
    IN  /\ call[c].op = "update"
        /\ state' = [state EXCEPT ![k] = new]
        /\ borrowed' = [borrowed EXCEPT ![k] = IF borrow THEN @ + 1 ELSE @]
        /\ call' = [call EXCEPT ![c] = Idle]
        /\ UNCHANGED <<wire, horizon>>

Next ==
    \E c \in Caller :
        \/ NowReads(c)
        \/ UpdateReads(c)
        \/ NowIssues(c)
        \/ UpdateMerges(c)

Spec == Init /\ [][Next]_vars

----------------------------------------------------------------------------
(* Every stamp stays within the widths of its two components, also when the *)
(* counter overflows into the physical part (successor).                     *)
TypeOK ==
    /\ state \in [Clock -> HlcTimestamp]
    /\ call \in [Caller -> Calls]
    /\ wire \subseteq HlcTimestamp
    /\ horizon \in [Clock -> Physical]
    /\ borrowed \in [Clock -> Nat]

\* No peer can drag a clock arbitrarily far ahead (HlcDriftError: a remote clock
\* "far in the future, left unchecked, could otherwise drag the entire cluster's
\* logical time forward"): a clock is never more than max_drift ahead of the
\* largest reading of its OWN wall clock, plus what its overflows borrowed, no
\* matter how wrong its peers' walls are and how they relay each other's stamps.
DriftContained ==
    \A k \in Clock : state[k].physical <= horizon[k] + MaxDrift + borrowed[k]

\* The state behind the mutex never moves backward, and a critical section
\* leaves it where it was only when the 96-bit space is exhausted.
StrictlyIncreasing ==
    [][\A c \in Caller :
          call[c] # Idle /\ call'[c] = Idle
          => LET k == ClockOf[c] IN \/ Lt(state[k], state'[k])
                                    \/ state[k] = MAX /\ state'[k] = MAX]_vars

\* The merged stamp orders after the stamp that was received (update_with:
\* "strictly greater than both the local clock's previous state and remote").
MergeExceedsRemote ==
    [][\A c \in Caller :
          call[c].op = "update" /\ call'[c] = Idle
          => LET k == ClockOf[c] IN \/ Lt(call[c].remote, state'[k])
                                    \/ state'[k] = MAX]_vars
=============================================================================
