----------------------------- MODULE TimerWheel -----------------------------
(* The hierarchical timing wheel behind astrs/timer/*                           *)
(* (crates/astrs-scheduler/src/timer/wheel.rs) with the grid arithmetic of      *)
(* crates/astrs-time/src/interval.rs.  Instants are Ms to the millisecond,      *)
(* counted from the wheel's epoch.                                              *)
EXTENDS Naturals, FiniteSets, FiniteSetsExt

CONSTANTS
    Ms,              \* instants in a millisecond
    Horizon,         \* the last millisecond
    MaxTimers,       \* how many timers are registered in a behaviour
    Specs,           \* TimerSpec: [period, anchor, policy]
    BurstCap,        \* burst_cap
    SlotsPerLevel,   \* SLOTS_PER_LEVEL
    Levels,          \* LEVELS
    MaxCatchup       \* MAX_CATCHUP_TICKS_MS

Instants == 0 .. Horizon * Ms
Level == 0 .. Levels - 1
Slot == 0 .. SlotsPerLevel - 1

ASSUME TimerWheelAssumption ==
    /\ {Ms, Horizon, MaxTimers, SlotsPerLevel, Levels} \subseteq Nat \ {0}
    /\ {BurstCap, MaxCatchup} \subseteq Nat
    /\ Specs \subseteq [period : Nat \ {0}, anchor : Nat, policy : {"burst", "skip"}]

VARIABLES
    current_ms,
    levels,          \* the ids in each slot of each level
    entries,         \* TimerEntry of the registered ids
    next_id,
    fired            \* what the last call returned

vars == <<current_ms, levels, entries, next_id, fired>>

(* TimerInterval.                                                               *)
next_tick(spec, after) ==
    IF after < spec.anchor THEN spec.anchor
    ELSE spec.anchor + ((after - spec.anchor) \div spec.period + 1) * spec.period

ticks_elapsed(spec, at) == IF at < spec.anchor THEN 0 ELSE (at - spec.anchor) \div spec.period

ticks_between(spec, from, to) ==
    IF to <= from THEN 0 ELSE ticks_elapsed(spec, to) - ticks_elapsed(spec, from)

ceil_ms(at) == (at + Ms - 1) \div Ms
floor_ms(at) == at \div Ms

(* LEVEL_WIDTHS.                                                                *)
Width[l \in Level] == IF l = 0 THEN 1 ELSE SlotsPerLevel * Width[l - 1]

LevelAndSlot(due, current) ==
    LET delay == IF due > current THEN due - current ELSE 1
        level == Max({l \in Level : l = 0 \/ delay >= Width[l]})
    IN  <<level, (due \div Width[level]) % SlotsPerLevel>>

(* A wheel w is [current, levels, entries, fired].  The ids of a slot do not    *)
(* touch one another's entries, and advance sorts what fired: their order is    *)
(* left out.                                                                    *)
Placed(w, at) ==
    [w EXCEPT !.levels = [l \in Level |-> [s \in Slot |->
        @[l][s] \cup {i \in DOMAIN at : LevelAndSlot(at[i], w.current) = <<l, s>>}]]]

(* A wrong version: a timer that is overdue is put where its due time was.      *)
ScheduledUnclamped(w, ids) ==
    Placed(w, [i \in ids |-> ceil_ms(w.entries[i].next_due)])

(* schedule_at, for the ids given.                                              *)
Scheduled(w, ids) ==
    Placed(w, [i \in ids |-> Max({ceil_ms(w.entries[i].next_due), w.current + 1})])

(* A wrong version: the last delivery counts itself among the skipped.          *)
SkipMiscounted(id, e, now) ==
    [entry |-> [e EXCEPT !.next_due = next_tick(e.spec, now)],
     fired |-> {[id |-> id, at |-> e.next_due, skipped |-> 1 + ticks_between(e.spec, e.next_due, now)]}]

(* The burst loop of resolve_due, after which the rest is coalesced.            *)
RECURSIVE Burst(_, _, _, _)
Burst(id, e, now, emitted) ==
    IF e.next_due > now THEN [entry |-> e, fired |-> {}]
    ELSE IF emitted < BurstCap
    THEN LET more == Burst(id, [e EXCEPT !.next_due = next_tick(e.spec, @)], now, emitted + 1)
         IN  [more EXCEPT !.fired = @ \cup {[id |-> id, at |-> e.next_due, skipped |-> 0]}]
    ELSE LET remaining == 1 + ticks_between(e.spec, e.next_due, now)
         IN  [entry |-> [e EXCEPT !.next_due = next_tick(e.spec, now)],
              fired |-> {[id |-> id, at |-> e.next_due, skipped |-> remaining - 1]}]

Skip(id, e, now) ==
    [entry |-> [e EXCEPT !.next_due = next_tick(e.spec, now)],
     fired |-> {[id |-> id, at |-> e.next_due, skipped |-> ticks_between(e.spec, e.next_due, now)]}]

(* resolve_due, for the ids of a slot; a cancelled one has no entry.            *)
Resolved(w, ids, now) ==
    LET due == {i \in ids \cap DOMAIN w.entries : w.entries[i].next_due <= now}
        out == [i \in due |-> IF w.entries[i].spec.policy = "burst"
                              THEN Burst(i, w.entries[i], now, 0)
                              ELSE Skip(i, w.entries[i], now)]
        done == [w EXCEPT !.entries = [i \in DOMAIN @ |-> IF i \in due THEN out[i].entry ELSE @[i]],
                          !.fired = @ \cup UNION {out[i].fired : i \in due}]
    IN  Scheduled(done, ids \cap DOMAIN w.entries)

(* The cascade of tick_one_ms, from a level upwards.                            *)
RECURSIVE Cascaded(_, _)
Cascaded(w, l) ==
    IF l = Levels \/ w.current % Width[l] # 0 THEN w
    ELSE LET s == (w.current \div Width[l]) % SlotsPerLevel
             ids == w.levels[l][s] \cap DOMAIN w.entries
             taken == [w EXCEPT !.levels[l][s] = {}]
         IN  Cascaded(Placed(taken, [i \in ids |-> ceil_ms(w.entries[i].next_due)]), l + 1)

tick_one_ms(w, now) ==
    LET on == Cascaded([w EXCEPT !.current = @ + 1], 1)
        s == on.current % SlotsPerLevel
    IN  Resolved([on EXCEPT !.levels[0][s] = {}], on.levels[0][s], now)

RECURSIVE Ticked(_, _)
Ticked(w, now) ==
    IF w.current < floor_ms(now) THEN Ticked(tick_one_ms(w, now), now) ELSE w

NoIds == [l \in Level |-> [s \in Slot |-> {}]]

resync(w, now) ==
    Resolved([w EXCEPT !.current = floor_ms(now), !.levels = NoIds], DOMAIN w.entries, now)

(* ---------------------------------- calls --------------------------------- *)

Wheel == [current |-> current_ms, levels |-> levels, entries |-> entries, fired |-> {}]

Becomes(w) ==
    /\ current_ms' = w.current
    /\ levels' = w.levels
    /\ entries' = w.entries
    /\ fired' = w.fired

Init == current_ms = 0 /\ levels = NoIds /\ entries = <<>> /\ next_id = 1 /\ fired = {}

insert(spec, now) ==
    LET e == [spec |-> spec, next_due |-> next_tick(spec, now)]
        with == [i \in DOMAIN entries \cup {next_id} |-> IF i = next_id THEN e ELSE entries[i]]
    IN  /\ next_id <= MaxTimers
        /\ Becomes(Scheduled([Wheel EXCEPT !.entries = with], {next_id}))
        /\ next_id' = next_id + 1

cancel(id) ==
    /\ Becomes([Wheel EXCEPT !.entries = [i \in DOMAIN entries \ {id} |-> entries[i]]])
    /\ UNCHANGED next_id

advance(now) ==
    /\ Becomes(IF floor_ms(now) <= current_ms THEN Wheel
               ELSE IF floor_ms(now) - current_ms > MaxCatchup THEN resync(Wheel, now)
               ELSE Ticked(Wheel, now))
    /\ UNCHANGED next_id

Next ==
    \/ \E spec \in Specs, now \in Instants : insert(spec, now)
    \/ \E id \in DOMAIN entries : cancel(id)
    \/ \E now \in Instants : advance(now)

Spec == Init /\ [][Next]_vars

(* ------------------------------- properties ------------------------------- *)

Promise == INSTANCE Timers WITH clock <- current_ms

(* The wheel keeps the promise of Timers, whatever the level a delay starts in, *)
(* however far a call jumps (the walk of tick_one_ms or resync), and for timers *)
(* beyond its range, registered late or cancelled with their id still in a slot.*)
KeepsPromise == Promise!Spec

(* The millisecond at which the cursor next takes the ids of a slot.            *)
Visit(l, s) ==
    Min({m \in current_ms + 1 .. current_ms + SlotsPerLevel * Width[l] :
           m % Width[l] = 0 /\ (m \div Width[l]) % SlotsPerLevel = s})

(* Every registered timer is in one slot of one level, and the cursor comes to  *)
(* that slot no later than the timer is due, or at once if it is overdue: none  *)
(* is left to wait for the cursor to come round again.                          *)
CursorComesInTime ==
    \A i \in DOMAIN entries :
       LET at == {<<l, s>> \in Level \X Slot : i \in levels[l][s]}
       IN  /\ Cardinality(at) = 1
           /\ \A p \in at :
                Visit(p[1], p[2]) <= Max({ceil_ms(entries[i].next_due), current_ms + 1})
=============================================================================
