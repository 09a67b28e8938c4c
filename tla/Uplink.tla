------------------------------- MODULE Uplink -------------------------------
(* A daemon's link to its coordinator: the daemon's outbox and reconnect loop *)
(* (crates/astrs-daemon/src/coordinator), the coordinator's session, registry, *)
(* watchdog and catch-up (crates/astrs-coordinator/src), and the mutation log  *)
(* of the store (crates/astrs-store/src/store) they resynchronise from. There  *)
(* is one daemon; its connections are numbered in the order it dials them, and *)
(* several may be alive at the coordinator at once.                           *)
EXTENDS Naturals, Sequences, FiniteSets

CONSTANTS
    Conns,            \* the connections the daemon may dial: 1..n
    OutboundDepth,    \* OUTBOUND_QUEUE_DEPTH
    BeatBound,        \* heartbeats under way at a time
    Worlds            \* budgets of a behaviour; see World

(* A World is the capacity of the UplinkSink, max_catch_up_page, and bounds on  *)
(* what happens: the length up to which the coordinator's own writes lengthen  *)
(* the log (later ones have no catch-up), the lifecycle facts the daemon        *)
(* reports and the build it is asked for (while it is on its first `talks`      *)
(* connections), the mutations clients make (TRUE: one with a StateEntry,      *)
(* FALSE: one that translates to nothing), how many of the first connections   *)
(* the network may break, the verdicts of the watchdog and the restarts of the *)
(* coordinator.                                                               *)
World ==
    [capacity : Nat \ {0}, page : Nat \ {0}, records : Nat, facts : Nat, talks : Nat,
     ops : Seq(BOOLEAN), builds : 0..1, cuts : Nat, lapses : Nat, restarts : Nat]

ASSUME UplinkAssumption ==
    /\ Conns \subseteq Nat \ {0} /\ Conns # {} /\ Conns = 1..Cardinality(Conns)
    /\ {OutboundDepth, BeatBound} \subseteq Nat \ {0}
    /\ Worlds \subseteq World

VARIABLES
    world,       \* the World: its budgets are used up
    \* the daemon
    sink,        \* the ring of events to report, oldest first
    holding,     \* the event write_loop has popped, as a sequence of length <= 1
    link,        \* the connection serve_once runs on, or 0
    dialled,     \* the last connection dialled
    cursor,      \* catch_up_seq
    told,        \* history: the mutations the daemon has been told of
    reported,    \* history: the number of facts reported
    \* the network
    up, down,    \* frames in flight on each connection
    broken,      \* the network has broken the connection of `link`
    \* the coordinator
    session,     \* where the session of each connection stands
    outbound,    \* its queue of events to the daemon
    page,        \* push_catch_up's cursor
    registry,    \* the connection whose handle is registered, or 0
    reachable,   \* the daemon's record in the store
    log,         \* the mutation log
    watchdog,    \* where a sweep that declared the daemon lost stands
    build,       \* where the handler of a Build request stands
    pending,     \* "none", or the pending build: "unasked" or "asked"
    folded       \* history: the facts applied, with the connection they came on

daemon == <<sink, holding, link, dialled, cursor, told, reported>>
network == <<up, down, broken>>
sessions == <<session, outbound, page>>
orders == <<watchdog, build, pending>>
vars == <<world, daemon, network, sessions, registry, reachable, log, orders, folded>>

Event(kind, n) == [kind |-> kind, n |-> n]
Has(budget) == world[budget] > 0
Spend(budget) == world' = [world EXCEPT ![budget] = @ - 1]

\* A write to the store appends its record to the mutation log in the same
\* transaction. The records of daemons, nodes and dataflows have a StateEntry.
Logged(writes) ==
    log' = IF writes /\ Len(log) < world.records THEN Append(log, TRUE) ELSE log

-----------------------------------------------------------------------------
(* The daemon's outbox.                                                       *)

IsShedable(event) == event.kind = "beat"

\* UplinkSink::report: over capacity the oldest shedable event goes, and the
\* oldest of all when none is shedable.
Victim(queue) ==
    IF \E i \in DOMAIN queue : IsShedable(queue[i])
    THEN CHOOSE i \in DOMAIN queue :
            IsShedable(queue[i]) /\ \A j \in 1..i - 1 : ~IsShedable(queue[j])
    ELSE 1

Without(queue, i) == SubSeq(queue, 1, i - 1) \o SubSeq(queue, i + 1, Len(queue))

Reported(queue, event) ==
    Append(IF Len(queue) >= world.capacity THEN Without(queue, Victim(queue)) ELSE queue, event)

\* Mutated form: the event goes to the back.
RequeuedLast(queue, event) ==
    Append(IF Len(queue) >= world.capacity THEN SubSeq(queue, 1, Len(queue) - 1) ELSE queue,
           event)

\* UplinkSink::requeue makes room at the back.
Requeued(queue, event) ==
    <<event>> \o (IF Len(queue) >= world.capacity THEN SubSeq(queue, 1, Len(queue) - 1) ELSE queue)

ReportFact ==
    /\ Has("facts") /\ Spend("facts") /\ dialled <= world.talks
    /\ reported' = reported + 1
    /\ sink' = Reported(sink, Event("fact", reported + 1))
    /\ UNCHANGED <<holding, link, dialled, cursor, told, network, sessions, registry, reachable,
                   log, orders, folded>>

\* BeatBound bounds the heartbeats that are waiting or in flight.
Beats == LET waiting == sink \o holding \o (IF link = 0 THEN <<>> ELSE up[link])
         IN Len(SelectSeq(waiting, IsShedable))

Heartbeat ==
    /\ Beats < BeatBound
    /\ sink' = Reported(sink, Event("beat", 0))
    /\ UNCHANGED <<world, holding, link, dialled, cursor, told, reported, network, sessions,
                   registry, reachable, log, orders, folded>>

(* write_loop: an event is popped, and then written.                          *)
Pop ==
    /\ link # 0 /\ holding = <<>> /\ sink # <<>>
    /\ holding' = <<Head(sink)>> /\ sink' = Tail(sink)
    /\ UNCHANGED <<world, link, dialled, cursor, told, reported, network, sessions, registry,
                   reachable, log, orders, folded>>

Alive(c) == session[c] \in {"new", "upsert", "catchup", "serve", "fold"}

\* On a dead connection a write may still succeed: the frame is lost in a buffer.
WriteEvent ==
    /\ link # 0 /\ holding # <<>>
    /\ up' = IF broken \/ ~Alive(link) THEN up
             ELSE [up EXCEPT ![link] = Append(@, Head(holding))]
    /\ holding' = <<>>
    /\ UNCHANGED <<world, sink, link, dialled, cursor, told, reported, down, broken, sessions,
                   registry, reachable, log, orders, folded>>

\* serve_once returns: its socket is dropped, and write_loop is aborted.
Hangup(queue) ==
    /\ link' = 0 /\ holding' = <<>> /\ sink' = queue /\ broken' = FALSE
    /\ down' = [down EXCEPT ![link] = <<>>]
    /\ UNCHANGED <<world, dialled, cursor, told, reported, up, sessions, registry, reachable, log,
                   orders, folded>>

WriteFails ==
    /\ link # 0 /\ holding # <<>> /\ (broken \/ ~Alive(link))
    /\ Hangup(Requeued(sink, Head(holding)))

ReadFails ==
    /\ link # 0 /\ down[link] = <<>> /\ (broken \/ ~Alive(link))
    /\ Hangup(sink)

\* Dial, handshake and registration, which carries the cursor.
Dial ==
    /\ link = 0 /\ dialled + 1 \in Conns
    /\ link' = dialled + 1 /\ dialled' = dialled + 1
    /\ up' = [up EXCEPT ![dialled + 1] = <<Event("register", cursor)>>]
    /\ UNCHANGED <<world, sink, holding, cursor, told, reported, down, broken, sessions,
                   registry, reachable, log, orders, folded>>

\* read_loop and the event loop: a batch advances the cursor and is acknowledged;
\* a build is run and its result reported.
Receive ==
    /\ link # 0 /\ down[link] # <<>>
    /\ LET f == Head(down[link])
       IN IF f.kind = "state"
          THEN /\ cursor' = IF f.high > cursor THEN f.high ELSE cursor
               /\ told' = told \cup f.entries
               /\ sink' = Reported(sink, Event("ack", 0))
          ELSE /\ sink' = Reported(sink, Event("built", 0))
               /\ UNCHANGED <<cursor, told>>
    /\ down' = [down EXCEPT ![link] = Tail(@)]
    /\ UNCHANGED <<world, holding, link, dialled, reported, up, broken, sessions, registry,
                   reachable, log, orders, folded>>

-----------------------------------------------------------------------------
(* The network.                                                               *)

\* A break loses what is in flight from some frame on, in both directions.
Cut ==
    /\ link \in 1..world.cuts /\ ~broken /\ broken' = TRUE
    /\ \E n \in 0..Len(up[link]), m \in 0..Len(down[link]) :
          /\ session[link] = "fold" => n > 0
          /\ up' = [up EXCEPT ![link] = SubSeq(@, 1, n)]
          /\ down' = [down EXCEPT ![link] = SubSeq(@, 1, m)]
    /\ UNCHANGED <<world, daemon, sessions, registry, reachable, log, orders, folded>>

-----------------------------------------------------------------------------
(* The session of a connection.                                               *)

\* register: the handle replaces any other of the same daemon ...
Accept(c) ==
    /\ session[c] = "new" /\ up[c] # <<>>
    /\ registry' = c
    /\ page' = [page EXCEPT ![c] = Head(up[c]).n]
    /\ up' = [up EXCEPT ![c] = Tail(@)]
    /\ session' = [session EXCEPT ![c] = "upsert"]
    /\ UNCHANGED <<world, daemon, down, broken, outbound, reachable, log, orders, folded>>

\* ... and then the record is written.
Upsert(c) ==
    /\ session[c] = "upsert"
    /\ reachable' = "yes" /\ Logged(TRUE)
    /\ session' = [session EXCEPT ![c] = "catchup"]
    /\ UNCHANGED <<world, daemon, network, outbound, page, registry, orders, folded>>

\* mutations_since: a page of the records after `after`, read with one more to see
\* whether it is the last.
MutationsSince(after) ==
    [entries   |-> {i \in after + 1 .. after + world.page : i <= Len(log)},
     caught_up |-> Len(log) <= after + world.page]

NextSeq(batch, after) ==
    IF batch.entries = {} THEN after ELSE CHOOSE s \in batch.entries : \A t \in batch.entries : t <= s

\* Mutated form: the end of the log instead of the end of the page.
HighWaterOfLog(entries, next) == IF entries = {} THEN next ELSE Len(log)

\* catch_up_high_water of the batch on the wire.
HighWater(entries, next) ==
    IF entries = {} THEN next ELSE CHOOSE s \in entries : \A t \in entries : t <= s

\* push_catch_up, one page: no task drains the queue yet.
PushPage(c) ==
    /\ session[c] = "catchup" /\ Len(outbound[c]) < OutboundDepth
    /\ LET batch   == MutationsSince(page[c])
           next    == NextSeq(batch, page[c])
           entries == {i \in batch.entries : log[i]}
       IN /\ outbound' = [outbound EXCEPT ![c] =
                Append(@, [kind |-> "state", entries |-> entries, high |-> HighWater(entries, next)])]
          /\ page' = [page EXCEPT ![c] = IF batch.caught_up THEN 0 ELSE next]
          /\ session' = IF batch.caught_up THEN [session EXCEPT ![c] = "serve"] ELSE session
    /\ UNCHANGED <<world, daemon, network, registry, reachable, log, orders, folded>>

\* The writer task.
Forward(c) ==
    /\ session[c] \in {"serve", "fold"} /\ outbound[c] # <<>>
    /\ outbound' = [outbound EXCEPT ![c] = Tail(@)]
    /\ down' = IF broken \/ link # c THEN down
               ELSE [down EXCEPT ![c] = Append(@, Head(outbound[c]))]
    /\ UNCHANGED <<world, daemon, up, broken, session, page, registry, reachable, log, orders,
                   folded>>

\* The end of run: the writer is aborted and the daemon's handle removed, whichever
\* connection registered it.
Leave(c) ==
    /\ session' = [session EXCEPT ![c] = "unreach"]
    /\ outbound' = [outbound EXCEPT ![c] = <<>>] /\ up' = [up EXCEPT ![c] = <<>>]
    /\ registry' = 0

\* Mutated form: without the check.
CheckNothing(c) ==
    /\ session[c] = "serve" /\ up[c] # <<>>
    /\ session' = [session EXCEPT ![c] = "fold"]
    /\ UNCHANGED <<world, daemon, network, outbound, page, registry, reachable, log, orders,
                   folded>>

\* The event loop: a frame of a daemon that is not registered ends the session ...
Check(c) ==
    /\ session[c] = "serve" /\ up[c] # <<>>
    /\ IF registry = 0
       THEN Leave(c)
       ELSE session' = [session EXCEPT ![c] = "fold"] /\ UNCHANGED <<up, outbound, registry>>
    /\ UNCHANGED <<world, daemon, down, broken, page, reachable, log, orders, folded>>

\* ... and any other is handled, in a later step: handle_event awaits the store.
Fold(c) ==
    /\ session[c] = "fold"
    /\ session' = [session EXCEPT ![c] = "serve"]
    /\ up' = [up EXCEPT ![c] = Tail(@)]
    /\ LET event == Head(up[c])
       IN /\ reachable' = IF event.kind = "beat" THEN "yes" ELSE reachable
          /\ pending' = IF event.kind = "built" THEN "none" ELSE pending
          /\ folded' = IF event.kind = "fact" THEN Append(folded, <<c, event.n>>) ELSE folded
          /\ Logged(\/ event.kind = "fact"
                    \/ event.kind = "built" /\ pending # "none"
                    \/ event.kind = "beat")
    /\ UNCHANGED <<world, daemon, down, broken, outbound, page, registry, watchdog, build>>

Ended(c) == c <= dialled /\ up[c] = <<>> /\ (broken \/ link # c)

Eof(c) ==
    /\ session[c] = "serve" /\ Ended(c) /\ Leave(c)
    /\ UNCHANGED <<world, daemon, down, broken, page, reachable, log, orders, folded>>

\* A connection that breaks before it registers.
NeverRegistered(c) ==
    /\ session[c] = "new" /\ Ended(c)
    /\ session' = [session EXCEPT ![c] = "gone"]
    /\ UNCHANGED <<world, daemon, network, outbound, page, registry, reachable, log, orders,
                   folded>>

Unreach(c) ==
    /\ session[c] = "unreach"
    /\ reachable' = "no" /\ Logged(TRUE)
    /\ session' = [session EXCEPT ![c] = "release"]
    /\ UNCHANGED <<world, daemon, network, outbound, page, registry, orders, folded>>

\* Mutated form: nobody is released.
ReleaseNobody(c) ==
    /\ session[c] = "release"
    /\ session' = [session EXCEPT ![c] = "gone"]
    /\ UNCHANGED <<world, daemon, network, outbound, page, registry, reachable, log, orders,
                   folded>>

\* handle_daemon_disconnected: whoever waits for this daemon is answered a failure.
Release(c) ==
    /\ session[c] = "release"
    /\ pending' = "none" /\ Logged(pending # "none")
    /\ session' = [session EXCEPT ![c] = "gone"]
    /\ UNCHANGED <<world, daemon, network, outbound, page, registry, reachable, watchdog,
                   build, folded>>

-----------------------------------------------------------------------------
(* The rest of the coordinator.                                               *)

\* A request of some client writes to the registry.
Mutate ==
    /\ world.ops # <<>>
    /\ log' = Append(log, Head(world.ops))
    /\ world' = [world EXCEPT !.ops = Tail(@)]
    /\ UNCHANGED <<daemon, network, sessions, registry, reachable, orders, folded>>

(* run_heartbeat_sweep: the verdict on a silent daemon, and then the steps that *)
(* a session's end takes too.                                                 *)
Sweep ==
    /\ Has("lapses") /\ Spend("lapses")
    /\ watchdog = "idle" /\ registry # 0
    /\ watchdog' = "lost"
    /\ UNCHANGED <<daemon, network, sessions, registry, reachable, log, build, pending,
                   folded>>

Declare ==
    /\ watchdog # "idle"
    /\ \/ /\ watchdog = "lost" /\ watchdog' = "unreach"
          /\ registry' = 0
          /\ UNCHANGED <<reachable, pending, log>>
       \/ /\ watchdog = "unreach" /\ watchdog' = "release"
          /\ reachable' = (IF reachable = "none" THEN "none" ELSE "no")
          /\ Logged(reachable # "none")
          /\ UNCHANGED <<registry, pending>>
       \/ /\ watchdog = "release" /\ watchdog' = "idle"
          /\ pending' = "none" /\ Logged(pending # "none")
          /\ UNCHANGED <<registry, reachable>>
    /\ UNCHANGED <<world, daemon, network, sessions, build, folded>>

(* Build: the placement of the dataflow it has recorded, the table entry, and   *)
(* the dispatch are three steps.                                              *)
Place ==
    /\ Has("builds") /\ Spend("builds") /\ dialled <= world.talks
    /\ build = "idle" /\ pending = "none" /\ registry # 0
    /\ build' = "placed" /\ Logged(TRUE)
    /\ UNCHANGED <<daemon, network, sessions, registry, reachable, watchdog, pending, folded>>

AwaitBuild ==
    /\ build = "placed" /\ build' = "held"
    /\ pending' = "unasked" /\ Logged(TRUE)
    /\ UNCHANGED <<world, daemon, network, sessions, registry, reachable, watchdog, folded>>

\* A handle that is gone or a full queue is passed over.
Dispatch ==
    /\ build = "held" /\ build' = "idle"
    /\ IF registry # 0 /\ Len(outbound[registry]) < OutboundDepth
       THEN /\ outbound' = [outbound EXCEPT ![registry] = Append(@, [kind |-> "build"])]
            /\ pending' = IF pending = "unasked" THEN "asked" ELSE pending
       ELSE UNCHANGED <<outbound, pending>>
    /\ UNCHANGED <<world, daemon, network, session, page, registry, reachable, log, watchdog,
                   folded>>

\* A restart keeps the store and nothing else; every socket ends.
Restart ==
    /\ Has("restarts") /\ Spend("restarts")
    /\ session' = [c \in Conns |-> IF c <= dialled THEN "gone" ELSE "new"]
    /\ outbound' = [c \in Conns |-> <<>>] /\ up' = [c \in Conns |-> <<>>]
    /\ registry' = 0 /\ watchdog' = "idle" /\ build' = "idle" /\ pending' = "none"
    /\ UNCHANGED <<daemon, down, broken, page, reachable, log, folded>>

-----------------------------------------------------------------------------
Init ==
    /\ world \in Worlds
    /\ sink = <<>> /\ holding = <<>> /\ link = 0 /\ dialled = 0
    /\ cursor = 0 /\ told = {} /\ reported = 0
    /\ up = [c \in Conns |-> <<>>] /\ down = up /\ broken = FALSE
    /\ session = [c \in Conns |-> "new"] /\ outbound = up /\ page = [c \in Conns |-> 0]
    /\ registry = 0 /\ reachable = "none" /\ log = <<>>
    /\ watchdog = "idle" /\ build = "idle" /\ pending = "none"
    /\ folded = <<>>

Serve(c) ==
    \/ Accept(c) \/ Upsert(c) \/ PushPage(c) \/ Check(c) \/ Fold(c) \/ Eof(c)
    \/ NeverRegistered(c) \/ Unreach(c) \/ Release(c)

WriteLoop == Pop \/ WriteEvent \/ WriteFails
UplinkLoop == Dial \/ Receive \/ ReadFails
Building == AwaitBuild \/ Dispatch

Next ==
    \/ ReportFact \/ Heartbeat \/ WriteLoop \/ UplinkLoop
    \/ Mutate \/ Sweep \/ Declare \/ Place \/ Building \/ Restart \/ Cut
    \/ \E c \in Conns : Serve(c) \/ Forward(c)

Spec == Init /\ [][Next]_vars

(* Tasks are scheduled and heartbeats keep coming; nobody has to report, to    *)
(* build, to break or to restart anything. The tasks that take finitely many   *)
(* steps share a condition, which is no stronger than one for each.            *)
Fairness ==
    /\ WF_vars(Heartbeat) /\ WF_vars(WriteLoop)
    /\ \A c \in Conns : WF_vars(Serve(c))
    /\ WF_vars(UplinkLoop \/ Declare \/ Building \/ \E c \in Conns : Forward(c))

FairSpec == Spec /\ Fairness

-----------------------------------------------------------------------------
(* Properties.                                                                *)

\* The cursor a daemon resumes from never runs ahead of what it was told: whatever
\* breaks, every mutation up to it that has an entry reached the daemon (link.rs:
\* a replay "that skips an unapplied entry is wrong"), so no catch-up skips one.
CursorIsHonest == \A i \in 1..cursor : i <= Len(log) /\ (log[i] => i \in told)

\* Reports are applied at most once, and one that came on the same or on a later
\* connection than another was also reported later: a write that fails puts its
\* event back where it was (UplinkSink::requeue).
FactsOnceInOrder ==
    \A i, j \in DOMAIN folded : i < j =>
        /\ folded[i][2] # folded[j][2]
        /\ folded[i][1] <= folded[j][1] => folded[i][2] < folded[j][2]

\* Once nothing breaks any more, the daemon and the coordinator come to agree on one
\* connection for good, and the store's record says reachable - whatever the cleanups
\* of older connections and the watchdog did in between.
Settles == <>[](link # 0 /\ registry = link /\ session[link] # "catchup" /\ reachable = "yes")

\* A build that was handed to the daemon's connection is answered: by the daemon, on
\* this or a later connection, or by the end of a connection (handle_daemon_disconnected).
AskedIsAnswered == <>[](pending # "asked")
=============================================================================
