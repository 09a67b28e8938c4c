------------------------------ MODULE NodeLife ------------------------------
(* The life of a node a daemon supervises, as its consumers hear of it        *)
(* (crates/astrs-daemon/src/{server,state,supervise,local}, and the queue of    *)
(* crates/astrs-scheduler).  One spawned producer has one output, which one     *)
(* registered consumer reads.  The daemon is a single task; what it handles     *)
(* comes from independent ones, and nothing orders them: the session actor of   *)
(* each incarnation reading its socket, the waiter that reaps its process, the  *)
(* restart timers, and the tick that fires deadlines.                          *)
EXTENDS Naturals, Sequences, Functions, FiniteSetsExt

CONSTANTS
    MaxGen,          \* incarnations are numbered 0..MaxGen
    Batch,           \* DEFAULT_EVENT_BATCH
    Worlds           \* the manifest and the bounds of a behaviour; see World

Gens == 0 .. MaxGen

Deadlines == {"spawn", "health", "drain", "closure", "term", "kill"}

(* A World is the node's restart policy and budget, the effective capacity of   *)
(* the consumer's queue, whether it evicts (DropOldest) or refuses              *)
(* (Backpressure), the depth of its session's outbox, and what may happen:      *)
(* whether the consumer reads and whether it asks for events, the messages an   *)
(* incarnation sends, whether it may close its output and go on, how a process  *)
(* ends by itself and whether it may before the daemon has read its             *)
(* registration, the incarnations that cannot be spawned, the deadlines that    *)
(* may run out, and the stops that are asked for and in which states of the     *)
(* node.                                                                        *)
World ==
    [policy : {"never", "on_failure", "always"}, max_restarts : 0..MaxGen,
     queue : Nat \ {0}, evicts : BOOLEAN, depth : Nat \ {0}, reads : BOOLEAN, pulls : BOOLEAN,
     sends : Nat, closes : BOOLEAN, ends : SUBSET {"ok", "fail"}, early : BOOLEAN,
     spoilt : SUBSET Gens, runs_out : SUBSET Deadlines,
     stops : SUBSET {"stop", "shutdown"}, stoppable : SUBSET {"spawning", "running", "restarting"}]

ASSUME NodeLifeAssumption ==
    /\ MaxGen \in Nat
    /\ Batch \in Nat \ {0}
    /\ Worlds \subseteq World

VARIABLES
    world,
    \* the daemon
    node,        \* NodeState of the producer
    bound,       \* the incarnations whose session is bound to it
    draining,    \* draining_exits: the exit that waits for its session to end
    deferred,    \* deferred_closures: the incarnation whose closure waits
    armed,       \* the deadline tables: at most one generation in each
    peer,        \* the consumer: its mailbox, its session's outbox, what it was told
    \* what the daemon's event channel is fed from
    proc,        \* the process of each incarnation
    sock,        \* the frames of each incarnation that are still to be handled
    exits,       \* the ProcessExited events under way
    dues,        \* the number of restart timers under way, per generation
    \* history
    over,        \* the incarnations whose end has been accounted for (after_exit)
    cut,         \* those that were without reading their session to its end
    waited       \* those whose announced end outlasted the wait for it

events == <<proc, sock, exits>>
vars == <<world, node, bound, draining, deferred, armed, peer, proc, sock, exits, dues, over, cut, waited>>

(* ------------------------------ the consumer ------------------------------ *)

(* The events of the consumer's input; those of the node itself go past its     *)
(* mailbox (SentTo).  The generation of a "finished" closure is not in the      *)
(* event; it is kept to state properties.                                      *)
Routed == [kind : {"msg", "finished", "crashed", "recovered"}, gen : Gens]

Ev(kind, g) == [kind |-> kind, gen |-> g]

(* InputQueue::push; the events of an input are not immune to eviction.         *)
Queued(p, e) ==
    IF Len(p.queue) < world.queue THEN [p EXCEPT !.queue = Append(@, e)]
    ELSE IF world.evicts THEN [p EXCEPT !.queue = Append(Tail(@), e), !.dropped = @ + 1]
    ELSE [p EXCEPT !.dropped = @ + 1]

(* LocalRouter::push_to.                                                        *)
Pushed(p, e) == [Queued(p, e) EXCEPT !.said = Append(@, e)]

(* deliver_now, for the consumer's session: as many as the outbox has room for. *)
Served(p) == Min({Batch, Len(p.queue), world.depth - Len(p.outbox)})

(* A wrong version: the mailbox is drained by the batch, whatever the room.     *)
DrainedWhole(p) ==
    LET batch == SubSeq(p.queue, 1, Min({Batch, Len(p.queue)}))
    IN  [p EXCEPT !.outbox = @ \o SubSeq(batch, 1, Served(p)),
                  !.queue  = SubSeq(@, Len(batch) + 1, Len(@)),
                  !.parked = @ /\ Served(p) = 0]

Delivered(p) ==
    [p EXCEPT !.outbox = @ \o SubSeq(p.queue, 1, Served(p)),
              !.queue  = SubSeq(@, Served(p) + 1, Len(@)),
              !.parked = @ /\ Served(p) = 0]

(* send_to: past the mailbox, and lost when the outbox is full.                 *)
SentTo(p, e) == IF Len(p.outbox) < world.depth THEN [p EXCEPT !.outbox = Append(@, e)] ELSE p

(* fan_out, and LocalRouter::close with its push.                               *)
Routing(p, e) == Delivered(Pushed(p, e))

(* propagate_input_closure: the notice is claimed once, sent or not.            *)
Propagated(p, g) ==
    IF p.closed /\ ~ p.notified
    THEN [SentTo(p, Ev("all_closed", g)) EXCEPT !.notified = TRUE]
    ELSE p

(* close_source.                                                                *)
ClosedSource(p, g) == Propagated([Routing(p, Ev("finished", g)) EXCEPT !.closed = TRUE], g)

(* close_outputs_of.                                                            *)
ClosedOutputs(p, kind, g) == Propagated(Routing(p, Ev(kind, g)), g)

(* notify_peers_restarted with recover_inputs_of, which pushes nothing on.      *)
ToldRestarted(p, g) ==
    IF g = 0 THEN p ELSE Pushed(SentTo(p, Ev("restarted", g)), Ev("recovered", g))

(* flush_pending, which ends every turn of the loop.                            *)
Flushed(p) == IF p.parked THEN Delivered(p) ELSE p

(* ----------------------------- the supervisor ----------------------------- *)

Terminal(n) == n.state \in {"finished", "failed"}

IsFailure(cause) == cause \notin {"success", "cancelled", "daemon_shutdown"}

(* classify_with_intent, for an exit status that is a success, a code or one of *)
(* the signals the daemon sends.                                               *)
Classify(status, intent) ==
    CASE status = "ok" -> "success"
      [] status = "fail" -> IF intent = "shutdown" THEN "daemon_shutdown" ELSE "exit_code"
      [] status = "signal" ->
           CASE intent \in {"stop", "term"} -> "cancelled"
             [] intent = "kill" -> "killed"
             [] intent = "shutdown" -> "daemon_shutdown"
             [] intent = "running" -> "signal"

(* NodeState::mark_exited.                                                      *)
Exited(n, cause) ==
    [n EXCEPT !.handle = FALSE, !.state = IF IsFailure(cause) THEN "failed" ELSE "finished"]

(* decide; the window is longer than a behaviour, so nothing is pruned from it. *)
Restarts(n, cause) ==
    /\ n.intent = "running"
    /\ world.policy = "always" \/ (world.policy = "on_failure" /\ cause # "success")
    /\ n.history < world.max_restarts

(* record_and_decide.                                                           *)
Decided(n, cause) ==
    IF Restarts(n, cause)
    THEN [n EXCEPT !.state = "restarting", !.history = @ + 1]
    ELSE n

(* The deadline tables: a key has one entry in each.                            *)
Arm(a, table, g) == {x \in a : x.table # table} \cup {[table |-> table, gen |-> g]}
Disarm(a, tables, g) == a \ {[table |-> t, gen |-> g] : t \in tables}

(* FinishWatchdogSet: "term" and "kill" are the two steps of one entry.         *)
ArmWatchdog(a, g) == Arm({x \in a : x.table # "kill"}, "term", g)

(* after_exit: n is the node marked exited; p, a and d are the consumer, the    *)
(* deadlines and the restart timers as its caller leaves them.                  *)
AfterExit(n, p, a, d, g, cause) ==
    LET closed == ClosedOutputs(p, IF IsFailure(cause) THEN "crashed" ELSE "finished", g)
        failed == IF IsFailure(cause) THEN SentTo(closed, Ev("failed", g)) ELSE closed
    IN  /\ node' = Decided(n, cause)
        /\ dues' = IF Restarts(n, cause) THEN [d EXCEPT ![n.gen] = @ + 1] ELSE d
        /\ armed' = Disarm(a, {"spawn", "health", "term", "kill"}
                               \cup (IF g \in deferred THEN {"closure"} ELSE {}), g)
        /\ deferred' = deferred \ {g}
        /\ peer' = Flushed(failed)
        /\ over' = over \cup {g}

(* A handler that changes none of the daemon's records but its consumer's.      *)
Keep(p) == peer' = Flushed(p) /\ UNCHANGED <<node, armed, deferred, dues, over>>

(* ------------------------------- processes -------------------------------- *)

Alive(g) == proc[g].at \in {"boot", "up", "quiet", "shut"}

NoProcess == [at |-> "none", left |-> 0, status |-> "none", done |-> FALSE]
Booting == [NoProcess EXCEPT !.at = "boot", !.left = world.sends]

(* The process of g ends, its socket with it; spawn_waiter reports the status.  *)
Dies(g, status) ==
    /\ proc' = [proc EXCEPT ![g].at = "gone", ![g].status = status]
    /\ sock' = IF proc[g].at \in {"up", "quiet"} THEN [sock EXCEPT ![g] = Append(@, "eof")] ELSE sock
    /\ exits' = exits \cup {[gen |-> g, status |-> status]}

(* signal_if_current, to the process group of g.                                *)
Signalled(g) ==
    IF node.handle /\ node.gen = g /\ Alive(g) THEN Dies(g, "signal") ELSE UNCHANGED events

(* The node connects and registers.  Once it has read Registered it publishes,  *)
(* closes its output and goes on, or shuts down: it queues CloseOutputs and its *)
(* session ends.                                                                *)
Writes(g, from, to, frames) ==
    /\ proc[g].at \in from
    /\ proc' = [proc EXCEPT ![g].at = to]
    /\ sock' = [sock EXCEPT ![g] = @ \o frames]

Connect(g) == Writes(g, {"boot"}, "up", <<"register">>)

Publish(g) ==
    /\ g \in bound /\ proc[g].at = "up" /\ proc[g].left > 0
    /\ proc' = [proc EXCEPT ![g].left = @ - 1]
    /\ sock' = [sock EXCEPT ![g] = Append(@, "msg")]

CloseOutput(g) ==
    /\ world.closes
    /\ g \in bound /\ proc[g].at = "up"
    /\ proc' = [proc EXCEPT ![g].at = "quiet", ![g].done = TRUE]
    /\ sock' = [sock EXCEPT ![g] = Append(@, "done")]

Shutdown(g) == g \in bound /\ Writes(g, {"up", "quiet"}, "shut", <<"close", "eof">>)

Exit(g) ==
    /\ Alive(g)
    /\ world.early \/ (proc[g].at # "boot" /\ "register" \notin Range(sock[g]))
    /\ \E status \in world.ends : Dies(g, status)

Lives(g) ==
    /\ \/ (Connect(g) \/ Publish(g) \/ CloseOutput(g) \/ Shutdown(g)) /\ UNCHANGED exits
       \/ Exit(g)
    /\ UNCHANGED <<world, node, bound, draining, deferred, armed, peer, dues, over, cut, waited>>

(* -------------------------------- the loop -------------------------------- *)

(* spawn_node: the incarnation n.gen starts, or fail_spawn accounts for it.     *)
SpawnNode(n, p, d) ==
    IF n.gen \in world.spoilt
    THEN /\ AfterExit(Exited(n, "spawn_failed"), p, armed, d, n.gen, "spawn_failed")
         /\ UNCHANGED proc
    ELSE /\ node' = [n EXCEPT !.state = "spawning", !.handle = TRUE, !.open = TRUE, !.intent = "running"]
         /\ proc' = [proc EXCEPT ![n.gen] = Booting]
         /\ armed' = Arm(armed, "spawn", n.gen)
         /\ peer' = Flushed(p)
         /\ dues' = d
         /\ UNCHANGED <<deferred, over>>

Start ==
    /\ node.state = "pending"
    /\ SpawnNode(node, peer, dues)
    /\ UNCHANGED <<world, bound, draining, sock, exits, cut, waited>>

(* apply_register.                                                              *)
Register(g) ==
    IF g = node.gen
    THEN /\ node' = [node EXCEPT !.state = IF Terminal(node) THEN @ ELSE "running"]
         /\ bound' = bound \cup {g}
         /\ armed' = Arm(Disarm(armed, {"spawn"}, g), "health", g)
         /\ peer' = Flushed(ToldRestarted(peer, g))
         /\ UNCHANGED <<draining, deferred, dues, over>>
    ELSE Keep(peer) /\ UNCHANGED <<bound, draining>>

(* apply_publish: a session that is bound to no node is refused.                *)
Published(p, g) == IF g \in bound THEN Routing(p, Ev("msg", g)) ELSE p

(* A wrong version: only a process that is not reaped is waited for.            *)
ReleaseUnlessLive(g, origin) ==
    IF origin # "done" /\ node.handle THEN "await_exit" ELSE "now"

(* release_for.                                                                 *)
Release(g, origin) ==
    IF origin = "done" THEN "now"
    ELSE IF node.handle \/ \E x \in draining : x.gen = g THEN "await_exit"
    ELSE IF Terminal(node) THEN "already_said"
    ELSE "now"

(* apply_close_outputs, with defer_closure.                                     *)
CloseOutputs(g, origin) ==
    /\ IF g \notin bound \/ g < node.gen \/ ~ node.open
       THEN Keep(peer)
       ELSE /\ node' = [node EXCEPT !.open = FALSE]
            /\ peer' = Flushed(IF Release(g, origin) = "now" THEN ClosedSource(peer, g) ELSE peer)
            /\ IF Release(g, origin) = "await_exit"
               THEN deferred' = {g} /\ armed' = Arm(armed, "closure", g)
               ELSE UNCHANGED <<deferred, armed>>
            /\ UNCHANGED <<dues, over>>
    /\ UNCHANGED <<bound, draining>>

(* discharge_pending_exit.                                                      *)
Discharge(p, a) ==
    /\ draining' = {}
    /\ IF draining = {}
       THEN armed' = a /\ peer' = Flushed(p) /\ UNCHANGED <<node, deferred, dues, over>>
       ELSE \E x \in draining :
              AfterExit(node, p, Disarm(a, {"drain"}, x.gen), dues, x.gen, x.cause)

(* A wrong version: the exit that waited for the session is not discharged.     *)
SessionForgotten(g) ==
    /\ bound' = bound \ {g}
    /\ Keep(peer)
    /\ UNCHANGED draining

(* handle_session_closed.                                                       *)
SessionClosed(g) ==
    /\ bound' = bound \ {g}
    /\ IF g \in bound /\ g = node.gen
       THEN Discharge(peer, armed)
       ELSE Keep(peer) /\ UNCHANGED draining

(* The next frame, or the end, of the session of g: handle_request.             *)
HandleFrame(g) ==
    /\ sock[g] # <<>>
    /\ sock' = [sock EXCEPT ![g] = Tail(@)]
    /\ LET frame == Head(sock[g])
       IN  CASE frame = "register" -> Register(g)
             [] frame = "msg" ->
                  /\ Keep(Published(peer, g))
                  /\ UNCHANGED <<bound, draining>>
             [] frame \in {"done", "close"} -> CloseOutputs(g, frame)
             [] frame = "eof" -> SessionClosed(g)
    /\ UNCHANGED <<world, proc, exits, cut, waited>>

(* A wrong version: the consequences of an exit do not wait for the session.    *)
ExitHandledAtOnce ==
    \E x \in exits :
       /\ exits' = exits \ {x}
       /\ LET cause == Classify(x.status, node.intent)
          IN  IF x.gen # node.gen THEN Keep(peer)
              ELSE AfterExit(Exited(node, cause), peer, armed, dues, x.gen, cause)
       /\ UNCHANGED <<world, bound, draining, proc, sock, cut, waited>>

(* handle_process_exit.  session_of finds any session bound to the node.        *)
HandleProcessExit ==
    \E x \in exits :
       /\ exits' = exits \ {x}
       /\ LET cause == Classify(x.status, node.intent)
          IN  IF x.gen # node.gen THEN Keep(peer) /\ UNCHANGED draining
              ELSE IF bound # {}
              THEN /\ node' = Exited(node, cause)
                   /\ draining' = {[gen |-> x.gen, cause |-> cause]}
                   /\ armed' = Arm(armed, "drain", x.gen)
                   /\ peer' = Flushed(peer)
                   /\ UNCHANGED <<deferred, dues, over>>
              ELSE /\ AfterExit(Exited(node, cause), peer, armed, dues, x.gen, cause)
                   /\ UNCHANGED draining
       /\ UNCHANGED <<world, bound, proc, sock, cut, waited>>

(* handle_restart_due, with begin_next_generation.                              *)
HandleRestartDue ==
    \E g \in Gens :
       /\ dues[g] > 0
       /\ LET d == [dues EXCEPT ![g] = @ - 1]
              next == [node EXCEPT !.gen = @ + 1, !.handle = FALSE, !.intent = "running",
                                   !.open = FALSE, !.state = "pending"]
          IN  IF g = node.gen /\ node.state = "restarting"
              THEN SpawnNode(next, ToldRestarted(peer, next.gen), d)
              ELSE /\ dues' = d
                   /\ peer' = Flushed(peer)
                   /\ UNCHANGED <<node, armed, deferred, over, proc>>
       /\ UNCHANGED <<world, bound, draining, sock, exits, cut, waited>>

(* stop_node_at.                                                                *)
Stop ==
    /\ node.state \in world.stoppable
    /\ \E intent \in world.stops :
          node' = [node EXCEPT !.state = "stopping", !.intent = intent]
    /\ armed' = ArmWatchdog(armed, node.gen)
    /\ peer' = Flushed(peer)
    /\ UNCHANGED <<world, bound, draining, deferred, events, dues, over, cut, waited>>

(* A wrong version: the node is failed and its process left alone.              *)
FailedUnkilled(g, p, a) ==
    IF g # node.gen \/ Terminal(node)
    THEN /\ armed' = a /\ peer' = Flushed(p)
         /\ UNCHANGED <<node, deferred, dues, over, cut, events>>
    ELSE /\ AfterExit(Exited(node, "deadline"), p, a, dues, g, "deadline")
         /\ cut' = cut \cup {g}
         /\ UNCHANGED events

(* fail_node, from a spawn or a health deadline.                                *)
FailNode(g, p, a) ==
    IF g # node.gen \/ Terminal(node)
    THEN /\ armed' = a /\ peer' = Flushed(p)
         /\ UNCHANGED <<node, deferred, dues, over, cut, events>>
    ELSE /\ Signalled(g)
         /\ AfterExit(Exited(node, "deadline"), p, a, dues, g, "deadline")
         /\ cut' = cut \cup {g}

(* fire_drain_deadlines.                                                        *)
DrainOver(g, p, a) ==
    /\ IF \E x \in draining : x.gen = g
       THEN Discharge(p, a) /\ cut' = cut \cup {g}
       ELSE armed' = a /\ peer' = Flushed(p) /\ UNCHANGED <<node, draining, deferred, dues, over, cut>>
    /\ UNCHANGED <<events, waited>>

(* fire_closure_deadlines.                                                      *)
ClosureOver(g, p, a) ==
    /\ armed' = a
    /\ IF g \in deferred
       THEN /\ deferred' = {}
            /\ peer' = Flushed(ClosedSource(p, g))
            /\ waited' = waited \cup {g}
       ELSE peer' = Flushed(p) /\ UNCHANGED <<deferred, waited>>
    /\ UNCHANGED <<node, draining, dues, over, cut, events>>

(* fire_watchdogs: a SIGTERM may be ignored.                                    *)
Escalated(g, step, p, a) ==
    /\ node' = [node EXCEPT !.intent = step]
    /\ armed' = IF step = "term" THEN Arm(a, "kill", g) ELSE a
    /\ Signalled(g) \/ (step = "term" /\ UNCHANGED events)
    /\ peer' = Flushed(p)
    /\ UNCHANGED <<draining, deferred, dues, over, cut, waited>>

(* A wrong version: only the consumers parked in NextEvent are served.          *)
SweepParked ==
    /\ peer' = Flushed(peer)
    /\ UNCHANGED <<world, node, bound, draining, deferred, armed, events, dues, over, cut, waited>>

(* tick: sweep_deliveries, and then what is due.                                *)
Sweep ==
    /\ peer' = Flushed(Delivered(peer))
    /\ UNCHANGED <<world, node, bound, draining, deferred, armed, events, dues, over, cut, waited>>

Expire(table) ==
    \E x \in armed :
       /\ x.table = table
       /\ table \in world.runs_out
       /\ LET p == Delivered(peer)
              a == armed \ {x}
          IN  CASE table \in {"spawn", "health"} ->
                     FailNode(x.gen, p, a) /\ UNCHANGED <<draining, waited>>
                [] table = "drain" -> DrainOver(x.gen, p, a)
                [] table = "closure" -> ClosureOver(x.gen, p, a)
                [] table \in {"term", "kill"} -> Escalated(x.gen, table, p, a)
       /\ UNCHANGED <<world, bound>>

(* The consumer reads an event from its socket, or asks for more: apply_deliver.*)
ReadEvent ==
    /\ world.reads /\ peer.outbox # <<>>
    /\ peer' = [peer EXCEPT !.outbox = Tail(@), !.read = Append(@, Head(peer.outbox))]

NextEvent ==
    /\ world.reads /\ world.pulls /\ ~ peer.parked /\ peer.outbox = <<>>
    /\ peer' = [Delivered(peer) EXCEPT !.parked = Served(peer) = 0]

Consumes ==
    /\ ReadEvent \/ NextEvent
    /\ UNCHANGED <<world, node, bound, draining, deferred, armed, events, dues, over, cut, waited>>

Init ==
    /\ world \in Worlds
    /\ node = [gen |-> 0, state |-> "pending", handle |-> FALSE, intent |-> "running",
               open |-> FALSE, history |-> 0]
    /\ bound = {} /\ draining = {} /\ deferred = {} /\ armed = {}
    /\ peer = [queue |-> <<>>, outbox |-> <<>>, parked |-> FALSE, closed |-> FALSE,
               notified |-> FALSE, dropped |-> 0, said |-> <<>>, read |-> <<>>]
    /\ proc = [g \in Gens |-> NoProcess]
    /\ sock = [g \in Gens |-> <<>>]
    /\ exits = {}
    /\ dues = [g \in Gens |-> 0]
    /\ over = {} /\ cut = {} /\ waited = {}

(* What the loop takes from its channel, and what a tick does unasked.          *)
HandleEvent == Start \/ HandleProcessExit \/ HandleRestartDue \/ \E g \in Gens : HandleFrame(g)

Next ==
    \/ HandleEvent \/ Stop \/ Sweep \/ Consumes
    \/ \E g \in Gens : Lives(g)
    \/ \E table \in Deadlines : Expire(table)

(* The loop goes on handling what it is sent, and ticks whenever it is idle; a  *)
(* session that lingers is given up; the consumer goes on reading.  Nothing is  *)
(* assumed of the node's process.                                               *)
Fairness == WF_vars(HandleEvent) /\ WF_vars(Sweep \/ Expire("drain")) /\ WF_vars(Consumes)

Spec == Init /\ [][Next]_vars /\ Fairness

(* ------------------------------- properties ------------------------------- *)

IsClosure(e) == e.kind \in {"finished", "crashed"}
Told(kind, g) == Ev(kind, g) \in Range(peer.said)

(* A crash of g was reported, and no end of g after it.                         *)
LastToldCrashed(g) ==
    \E i \in DOMAIN peer.said :
       /\ peer.said[i] = Ev("crashed", g)
       /\ \A j \in DOMAIN peer.said : j > i => peer.said[j] # Ev("finished", g)

(* The node is still at g, and its end was asked for.                           *)
Asked(g) == node.gen = g /\ node.intent # "running"

(* The consumer is told the truth about the end of its producer, whatever the   *)
(* order in which the loop sees its CloseOutputs, its exit status and the end   *)
(* of its session (release_for's table): that it crashed only if it did, that   *)
(* it finished only if it did, said so itself, was asked to, or outlived its    *)
(* own announcement; and the last word about a crash is that it was one.        *)
(* Incarnations the daemon gave up on (cut) are excepted.                       *)
ClosuresAreTruthful ==
    \A g \in Gens \ cut :
       /\ Told("crashed", g) => proc[g].status \in {"fail", "signal"} \/ g \in world.spoilt
       /\ Told("finished", g) =>
             proc[g].status = "ok" \/ proc[g].done \/ Asked(g) \/ g \in waited
       /\ g \in over /\ proc[g].status # "ok" /\ ~ Asked(g) => LastToldCrashed(g)

(* No message of an incarnation is routed behind the closure of its output:     *)
(* handle_process_exit waits for SessionClosed so that the tail of a stream is  *)
(* not lost to the reap overtaking it.                                          *)
TailKept ==
    \A i, j \in DOMAIN peer.said :
       i < j /\ IsClosure(peer.said[i]) /\ peer.said[j] = Ev("msg", peer.said[i].gen)
          => peer.said[i].gen \in cut

(* A process that lives is the node's current incarnation and the daemon still  *)
(* holds its handle: no restart, deadline or stale report leaves one behind     *)
(* that nothing would ever signal.                                              *)
NoOrphan == \A g \in Gens : Alive(g) => g = node.gen /\ node.handle

(* What is pushed to the consumer's mailbox is read, under way, queued or       *)
(* counted as dropped, and is in order when nothing was dropped: deliver_now    *)
(* drains no more than the outbox has room for.                                 *)
NothingUncounted ==
    LET got == SelectSeq(peer.read \o peer.outbox, LAMBDA e : e \in Routed) \o peer.queue
    IN  /\ Len(got) + peer.dropped = Len(peer.said)
        /\ peer.dropped = 0 => got = peer.said

(* A consumer that goes on reading empties its mailbox, even if its outbox was  *)
(* full when the last event was pushed and it never asks for more:              *)
(* sweep_deliveries.                                                            *)
EventuallyDelivered == <>[](peer.queue = <<>>)

(* The end of a process is accounted for, and the node then either is over or   *)
(* goes on as a later incarnation.  Two races are known to leave a node that is *)
(* neither, and are left out: an exit accounted for before the registration     *)
(* that is still in the socket, and a stop during the restart backoff.          *)
Settles == ~ world.early /\ "spawn" \notin world.runs_out /\ "restarting" \notin world.stoppable

Settled(g) == g \in over /\ (Terminal(node) \/ node.gen > g)

EndsAreSettled == []<>(Settles => \A g \in Gens : proc[g].at = "gone" => Settled(g))
=============================================================================
