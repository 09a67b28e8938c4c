------------------------------ MODULE RouteMux ------------------------------
(* The route multiplexer of a connection: crates/astrs-transport/src/mux.     *)
(* Both ends of one connection, each with its scheduler, its route table, its *)
(* writer and its reader task. The byte stream between them keeps the order.  *)
EXTENDS MuxConfig, Sequences, SequencesExt, FiniteSets

CONSTANTS
    RouteDepth,      \* route_queue_depth
    ControlDepth,    \* control_queue_depth
    DatagramDepth,   \* datagram_queue_depth
    ControlBurst,    \* control_burst
    WireDepth,       \* frames the byte stream holds before a flush has to wait
    Worlds           \* what the applications of the two ends may do; see World

End == {"initiator", "acceptor"}
Peer(e) == CHOOSE p \in End : p # e

(* A World bounds the two applications: which handles next_route_id returns,   *)
(* how many frames an end sends on each route, who sends control frames and    *)
(* datagrams without end, who may hang up, and the negotiated route ceiling.   *)
World ==
    [mints : [End -> SUBSET Nat], payloads : [End -> Nat], talkers : SUBSET End,
     casters : SUBSET End, hangups : SUBSET End, max_routes : Nat]

Routes == UNION {w.mints[e] : w \in Worlds, e \in End}

ASSUME RouteMuxAssumption ==
    /\ {RouteDepth, ControlDepth, DatagramDepth, ControlBurst, WireDepth} \subseteq Nat \ {0}
    /\ Worlds \subseteq World
    /\ \A w \in Worlds : w.mints["initiator"] \cap w.mints["acceptor"] = {}

VARIABLES
    world,        \* the World of this behaviour
    control,      \* [End -> Seq(Frame)]: unmetered frames waiting for the writer
    datagrams,    \* [End -> Nat]: datagrams waiting for the writer
    routes,       \* [End -> open handles -> RouteEntry]
    order,        \* [End -> Seq(handle)]: the round-robin cursor
    control_run,  \* [End -> Nat]: unmetered frames since the last route frame
    closed,       \* [End -> BOOLEAN]
    writable,     \* [End -> BOOLEAN]: a stored permit of the Notify
    writer,       \* [End -> {"take", "check", "await", "done"}]
    reader,       \* [End -> {"run", "done"}]
    wire,         \* [End -> Seq(Frame)]: frames the end has written
    inbound,      \* [End -> [handle -> Seq(payload)]]: channels to applications
    noting,       \* [End -> set of handles]: received but not yet note_consumed
    mailbox,      \* [End -> Nat]: control frames in the application's channel
    \* history
    sent,         \* [End -> [handle -> Nat]]: the last payload accepted
    got,          \* [End -> [handle -> Nat]]: the last payload received
    seen,         \* [End -> set of handles that ever had an entry]
    missed,       \* {<<end, handle, payload>>}: dropped before the handle was known
    overrun       \* {<<end, handle>>}: torn down for flow control

queues  == <<control, datagrams, routes, order, control_run>>
tasks   == <<writable, writer, reader>>
arrived == <<inbound, noting, mailbox>>
history == <<sent, got, seen, missed, overrun>>
vars == <<world, queues, tasks, closed, wire, arrived, history>>

Minted == UNION {world.mints[e] : e \in End}
Frame(tag, r, n) == [tag |-> tag, route |-> r, n |-> n]
Plain(tag) == Frame(tag, 0, 0)
RouteEntry(w) == [queue |-> <<>>, credit |-> w, window |-> w, consumed_since_grant |-> 0]
Known(e, r) == r \in DOMAIN routes[e]
Without(f, r) == [x \in DOMAIN f \ {r} |-> f[x]]
With(f, r, v) == [x \in DOMAIN f \cup {r} |-> IF x = r THEN v ELSE f[x]]
Minimum(S) == CHOOSE n \in S : \A m \in S : n <= m

-----------------------------------------------------------------------------
(* The scheduler: pop_next, with pop_unmetered and pop_route.                 *)

IsReady(e, r) == routes[e][r].queue # <<>> /\ routes[e][r].credit > 0
ReadyAt(e) == {i \in DOMAIN order[e] : IsReady(e, order[e][i])}
Unmetered(e) == control[e] # <<>> \/ datagrams[e] > 0

\* The burst is spent: a ready route goes first.
RoutesTurn(e) == control_run[e] >= ControlBurst

\* Mutant: strict priority, the burst does not bind.
TakeUnmeteredFirst(e) ==
    /\ writer[e] = "take" /\ Unmetered(e) /\ Len(wire[e]) < WireDepth
    /\ IF control[e] # <<>>
       THEN /\ wire' = [wire EXCEPT ![e] = Append(@, Head(control[e]))]
            /\ control' = [control EXCEPT ![e] = Tail(@)]
            /\ UNCHANGED datagrams
       ELSE /\ wire' = [wire EXCEPT ![e] = Append(@, Plain("datagram"))]
            /\ datagrams' = [datagrams EXCEPT ![e] = @ - 1]
            /\ UNCHANGED control
    /\ control_run' = [control_run EXCEPT ![e] = IF RoutesTurn(e) THEN @ ELSE @ + 1]
    /\ UNCHANGED <<routes, order, closed, tasks, arrived, history>>

\* Control frames before datagrams. The counter is only ever compared with the
\* burst, so it is not counted past it.
TakeUnmetered(e) ==
    /\ writer[e] = "take" /\ Unmetered(e) /\ Len(wire[e]) < WireDepth
    /\ RoutesTurn(e) => ReadyAt(e) = {}
    /\ IF control[e] # <<>>
       THEN /\ wire' = [wire EXCEPT ![e] = Append(@, Head(control[e]))]
            /\ control' = [control EXCEPT ![e] = Tail(@)]
            /\ UNCHANGED datagrams
       ELSE /\ wire' = [wire EXCEPT ![e] = Append(@, Plain("datagram"))]
            /\ datagrams' = [datagrams EXCEPT ![e] = @ - 1]
            /\ UNCHANGED control
    /\ control_run' = [control_run EXCEPT ![e] = IF RoutesTurn(e) THEN @ ELSE @ + 1]
    /\ UNCHANGED <<routes, order, closed, tasks, arrived, history>>

\* Mutant: the frame is sent and stays in the queue.
TakeRoutePeeks(e) ==
    /\ writer[e] = "take" /\ ReadyAt(e) # {} /\ Len(wire[e]) < WireDepth
    /\ Unmetered(e) => RoutesTurn(e)
    /\ LET i == Minimum(ReadyAt(e))
           r == order[e][i]
       IN /\ order' = [order EXCEPT ![e] = SubSeq(@, i + 1, Len(@)) \o SubSeq(@, 1, i)]
          /\ wire' = [wire EXCEPT ![e] = Append(@, Frame("data", r, Head(routes[e][r].queue)))]
          /\ routes' = [routes EXCEPT ![e][r].credit = @ - 1]
    /\ control_run' = [control_run EXCEPT ![e] = 0]
    /\ UNCHANGED <<control, datagrams, closed, tasks, arrived, history>>

\* The cursor passes the routes that are not ready and the one it serves.
TakeRoute(e) ==
    /\ writer[e] = "take" /\ ReadyAt(e) # {} /\ Len(wire[e]) < WireDepth
    /\ Unmetered(e) => RoutesTurn(e)
    /\ LET i == Minimum(ReadyAt(e))
           r == order[e][i]
       IN /\ order' = [order EXCEPT ![e] = SubSeq(@, i + 1, Len(@)) \o SubSeq(@, 1, i)]
          /\ wire' = [wire EXCEPT ![e] = Append(@, Frame("data", r, Head(routes[e][r].queue)))]
          /\ routes' = [routes EXCEPT ![e][r].queue = Tail(@), ![e][r].credit = @ - 1]
    /\ control_run' = [control_run EXCEPT ![e] = 0]
    /\ UNCHANGED <<control, datagrams, closed, tasks, arrived, history>>

(* run_writer between two batches: the test for closure and the wait are two   *)
(* steps, and the wait ends with a stored permit or with a wake-up.            *)
TakeNothing(e) ==
    /\ writer[e] = "take" /\ ~Unmetered(e) /\ ReadyAt(e) = {}
    /\ writer' = [writer EXCEPT ![e] = "check"]
    /\ UNCHANGED <<queues, closed, writable, reader, wire, arrived, history>>

CheckClosed(e) ==
    /\ writer[e] = "check"
    /\ writer' = [writer EXCEPT ![e] = IF closed[e] THEN "done" ELSE "await"]
    /\ wire' = IF closed[e] THEN [wire EXCEPT ![e] = Append(@, Plain("eof"))] ELSE wire
    /\ UNCHANGED <<queues, closed, writable, reader, arrived, history>>

WaitForWork(e) ==
    /\ writer[e] = "await" /\ writable[e]
    /\ writer' = [writer EXCEPT ![e] = "take"]
    /\ writable' = [writable EXCEPT ![e] = FALSE]
    /\ UNCHANGED <<queues, closed, reader, wire, arrived, history>>

-----------------------------------------------------------------------------
(* Calls of the application.                                                  *)

NotifyOne(e) == writable' = [writable EXCEPT ![e] = TRUE]
PushControl(e, frames) == control' = [control EXCEPT ![e] = @ \o frames]

\* insert_route: the table entry and its place in the round robin.
Insert(e, r, w) ==
    /\ routes' = [routes EXCEPT ![e] = With(@, r, RouteEntry(w))]
    /\ order' = [order EXCEPT ![e] = Append(@, r)]
    /\ seen' = [seen EXCEPT ![e] = @ \cup {r}]

Forget(e, r) ==
    /\ routes' = [routes EXCEPT ![e] = Without(@, r)]
    /\ order' = [order EXCEPT ![e] = SelectSeq(@, LAMBDA x : x # r)]

HasRoom(e) == Len(order[e]) < world.max_routes

OpenRoute(e) ==
    /\ ~closed[e] /\ HasRoom(e) /\ world.mints[e] \ seen[e] # {}
    /\ LET r == Minimum(world.mints[e] \ seen[e])
       IN Insert(e, r, Window) /\ PushControl(e, <<Frame("open", r, Window)>>)
    /\ NotifyOne(e)
    /\ UNCHANGED <<datagrams, control_run, closed, writer, reader, wire, arrived,
                   sent, got, missed, overrun>>

\* RouteSender::send with a permit of the route's queue.
SendRoute(e, r) ==
    /\ ~closed[e] /\ Known(e, r)
    /\ Len(routes[e][r].queue) < RouteDepth /\ sent[e][r] < world.payloads[e]
    /\ sent' = [sent EXCEPT ![e][r] = @ + 1]
    /\ routes' = [routes EXCEPT ![e][r].queue = Append(@, sent[e][r] + 1)]
    /\ NotifyOne(e)
    /\ UNCHANGED <<control, datagrams, order, control_run, closed, writer, reader, wire,
                   arrived, got, seen, missed, overrun>>

\* ControlSender::send with a permit; internal frames take none.
SendControl(e) ==
    /\ e \in world.talkers /\ ~closed[e]
    /\ Len(SelectSeq(control[e], LAMBDA f : f.tag = "control")) < ControlDepth
    /\ PushControl(e, <<Plain("control")>>) /\ NotifyOne(e)
    /\ UNCHANGED <<datagrams, routes, order, control_run, closed, writer, reader, wire,
                   arrived, history>>

\* queue_datagram: at the bound the oldest makes room.
SendDatagram(e) ==
    /\ e \in world.casters /\ ~closed[e]
    /\ datagrams' = [datagrams EXCEPT ![e] = IF @ >= DatagramDepth THEN @ ELSE @ + 1]
    /\ NotifyOne(e)
    /\ UNCHANGED <<control, routes, order, control_run, closed, writer, reader, wire,
                   arrived, history>>

RecvControl(e) ==
    /\ mailbox[e] > 0
    /\ mailbox' = [mailbox EXCEPT ![e] = @ - 1]
    /\ UNCHANGED <<queues, closed, tasks, wire, inbound, noting, history>>

(* RouteReceiver::recv takes from the channel and then notes the consumption.  *)
RecvRoute(e, r) ==
    /\ inbound[e][r] # <<>> /\ r \notin noting[e]
    /\ got' = [got EXCEPT ![e][r] = Head(inbound[e][r])]
    /\ inbound' = [inbound EXCEPT ![e][r] = Tail(@)]
    /\ noting' = [noting EXCEPT ![e] = @ \cup {r}]
    /\ UNCHANGED <<queues, closed, tasks, wire, mailbox, sent, seen, missed, overrun>>

\* Mutant: the count is not reset when it is granted.
NoteConsumedKeepsCount(e, r) ==
    /\ r \in noting[e]
    /\ noting' = [noting EXCEPT ![e] = @ \ {r}]
    /\ IF ~Known(e, r)
       THEN UNCHANGED <<routes, control, writable>>
       ELSE LET n == routes[e][r].consumed_since_grant + 1
                grants == n >= Threshold
            IN /\ routes' = [routes EXCEPT ![e][r].consumed_since_grant =
                                n]
               /\ IF grants /\ ~closed[e]
                  THEN PushControl(e, <<Frame("credit", r, n)>>) /\ NotifyOne(e)
                  ELSE UNCHANGED <<control, writable>>
    /\ UNCHANGED <<datagrams, order, control_run, closed, writer, reader, wire, inbound,
                   mailbox, history>>

NoteConsumed(e, r) ==
    /\ r \in noting[e]
    /\ noting' = [noting EXCEPT ![e] = @ \ {r}]
    /\ IF ~Known(e, r)
       THEN UNCHANGED <<routes, control, writable>>
       ELSE LET n == routes[e][r].consumed_since_grant + 1
                grants == n >= Threshold
            IN /\ routes' = [routes EXCEPT ![e][r].consumed_since_grant =
                                IF grants THEN 0 ELSE n]
               /\ IF grants /\ ~closed[e]
                  THEN PushControl(e, <<Frame("credit", r, n)>>) /\ NotifyOne(e)
                  ELSE UNCHANGED <<control, writable>>
    /\ UNCHANGED <<datagrams, order, control_run, closed, writer, reader, wire, inbound,
                   mailbox, history>>

CloseRoute(e, r) ==
    /\ e \in world.hangups /\ Known(e, r) /\ ~closed[e]
    /\ Forget(e, r) /\ PushControl(e, <<Frame("close", r, 0)>>) /\ NotifyOne(e)
    /\ UNCHANGED <<datagrams, control_run, closed, writer, reader, wire, arrived, history>>

\* close: everything queued is dropped, and whoever waits now is woken.
Shut(e) ==
    /\ closed' = [closed EXCEPT ![e] = TRUE]
    /\ writable' = [writable EXCEPT ![e] = @ \/ writer[e] = "await"]
    /\ IF closed[e]
       THEN UNCHANGED <<routes, order, control, datagrams>>
       ELSE /\ routes' = [routes EXCEPT ![e] = <<>>]
            /\ order' = [order EXCEPT ![e] = <<>>]
            /\ control' = [control EXCEPT ![e] = <<>>]
            /\ datagrams' = [datagrams EXCEPT ![e] = 0]

CloseMux(e) ==
    /\ e \in world.hangups /\ ~closed[e] /\ Shut(e)
    /\ UNCHANGED <<control_run, writer, reader, wire, arrived, history>>

-----------------------------------------------------------------------------
(* The reader: dispatch, one action per tag.                                  *)

Arrives(e, tag) ==
    /\ reader[e] = "run" /\ wire[Peer(e)] # <<>> /\ Head(wire[Peer(e)]).tag = tag
    /\ wire' = [wire EXCEPT ![Peer(e)] = Tail(@)]

\* Awaits room in the application's channel; a closed mux has no channel, and
\* the reader ends.
DispatchControl(e) ==
    /\ Arrives(e, "control")
    /\ closed[e] \/ mailbox[e] < ControlDepth
    /\ mailbox' = IF closed[e] THEN mailbox ELSE [mailbox EXCEPT ![e] = @ + 1]
    /\ reader' = IF closed[e] THEN [reader EXCEPT ![e] = "done"] ELSE reader
    /\ UNCHANGED <<queues, closed, writable, writer, inbound, noting, history>>

\* A datagram is delivered or dropped; nothing else depends on it.
DispatchDatagram(e) ==
    /\ Arrives(e, "datagram")
    /\ UNCHANGED <<queues, closed, tasks, arrived, history>>

\* A frame past the window tears its route down.
DispatchData(e) ==
    /\ Arrives(e, "data")
    /\ LET f == Head(wire[Peer(e)])
           full == Len(inbound[e][f.route]) >= Window
       IN IF ~Known(e, f.route)
          THEN /\ missed' = IF f.route \in seen[e] \/ closed[e] THEN missed
                            ELSE missed \cup {<<e, f.route, f.n>>}
               /\ UNCHANGED <<inbound, routes, order, control, writable, overrun>>
          ELSE /\ UNCHANGED missed
               /\ IF full
                  THEN /\ Forget(e, f.route) /\ NotifyOne(e)
                       /\ PushControl(e, <<Frame("close", f.route, 0)>>)
                       /\ overrun' = overrun \cup {<<e, f.route>>}
                       /\ UNCHANGED inbound
                  ELSE /\ inbound' = [inbound EXCEPT ![e][f.route] = Append(@, f.n)]
                       /\ UNCHANGED <<routes, order, control, writable, overrun>>
    /\ UNCHANGED <<datagrams, control_run, closed, writer, reader, noting, mailbox,
                   sent, got, seen>>

\* The peer's window is adopted for both directions. A closed mux makes the
\* entry and ends its reader.
DispatchOpen(e) ==
    /\ Arrives(e, "open")
    /\ LET f == Head(wire[Peer(e)])
       IN IF HasRoom(e)
          THEN /\ Insert(e, f.route, f.n)
               /\ IF closed[e]
                  THEN UNCHANGED <<control, writable>>
                  ELSE PushControl(e, <<Frame("accept", f.route, f.n)>>) /\ NotifyOne(e)
          ELSE /\ PushControl(e, <<Frame("refuse", f.route, 0), Frame("close", f.route, 0)>>)
               /\ NotifyOne(e)
               /\ seen' = [seen EXCEPT ![e] = @ \cup {f.route}]
               /\ UNCHANGED <<routes, order>>
    /\ reader' = IF closed[e] THEN [reader EXCEPT ![e] = "done"] ELSE reader
    /\ UNCHANGED <<datagrams, control_run, closed, writer, arrived, sent, got, missed, overrun>>

\* Mutant: the accept restores the whole window, whatever was sent before it.
DispatchAcceptResets(e) ==
    /\ Arrives(e, "accept")
    /\ LET f == Head(wire[Peer(e)])
       IN routes' = IF Known(e, f.route)
                    THEN [routes EXCEPT ![e][f.route].credit = f.n,
                                        ![e][f.route].window = f.n]
                    ELSE routes
    /\ NotifyOne(e)
    /\ UNCHANGED <<control, datagrams, order, control_run, closed, writer, reader, arrived,
                   history>>

DispatchAccept(e) ==
    /\ Arrives(e, "accept")
    /\ LET f == Head(wire[Peer(e)])
       IN routes' = IF Known(e, f.route)
                    THEN [routes EXCEPT ![e][f.route].credit = Minimum({@, f.n}),
                                        ![e][f.route].window = f.n]
                    ELSE routes
    /\ NotifyOne(e)
    /\ UNCHANGED <<control, datagrams, order, control_run, closed, writer, reader, arrived,
                   history>>

\* A refusal, or the peer's close: the entry goes, and no answer is sent.
DispatchEnd(e) ==
    /\ Arrives(e, "refuse") \/ Arrives(e, "close")
    /\ Forget(e, Head(wire[Peer(e)]).route)
    /\ UNCHANGED <<control, datagrams, control_run, closed, tasks, arrived, history>>

DispatchCredit(e) ==
    /\ Arrives(e, "credit")
    /\ LET f == Head(wire[Peer(e)])
       IN IF Known(e, f.route)
          THEN routes' = [routes EXCEPT ![e][f.route].credit = @ + f.n] /\ NotifyOne(e)
          ELSE UNCHANGED <<routes, writable>>
    /\ UNCHANGED <<control, datagrams, order, control_run, closed, writer, reader, arrived,
                   history>>

DispatchEof(e) ==
    /\ Arrives(e, "eof") /\ Shut(e)
    /\ reader' = [reader EXCEPT ![e] = "done"]
    /\ UNCHANGED <<control_run, writer, arrived, history>>

-----------------------------------------------------------------------------
Init ==
    /\ world \in Worlds
    /\ control = [e \in End |-> <<>>] /\ datagrams = [e \in End |-> 0]
    /\ routes = [e \in End |-> <<>>] /\ order = [e \in End |-> <<>>]
    /\ control_run = [e \in End |-> 0] /\ closed = [e \in End |-> FALSE]
    /\ writable = [e \in End |-> FALSE] /\ writer = [e \in End |-> "take"]
    /\ reader = [e \in End |-> "run"] /\ wire = [e \in End |-> <<>>]
    /\ inbound = [e \in End |-> [r \in Routes |-> <<>>]]
    /\ noting = [e \in End |-> {}] /\ mailbox = [e \in End |-> 0]
    /\ sent = [e \in End |-> [r \in Routes |-> 0]] /\ got = sent
    /\ seen = [e \in End |-> {}] /\ missed = {} /\ overrun = {}

Write(e) ==
    /\ TakeUnmetered(e) \/ TakeRoute(e) \/ TakeNothing(e) \/ CheckClosed(e) \/ WaitForWork(e)
    /\ UNCHANGED world

Dispatch(e) ==
    /\ \/ DispatchControl(e) \/ DispatchDatagram(e) \/ DispatchData(e) \/ DispatchOpen(e)
       \/ DispatchAccept(e) \/ DispatchEnd(e) \/ DispatchCredit(e) \/ DispatchEof(e)
    /\ UNCHANGED world

Listen(e) == RecvControl(e) /\ UNCHANGED world
Receive(e, r) == (RecvRoute(e, r) \/ NoteConsumed(e, r)) /\ UNCHANGED world

\* What nobody is bound to do.
May(e) ==
    /\ \/ OpenRoute(e) \/ SendControl(e) \/ SendDatagram(e) \/ CloseMux(e)
       \/ \E r \in Routes : SendRoute(e, r) \/ CloseRoute(e, r)
    /\ UNCHANGED world

Next ==
    \E e \in End :
        \/ Write(e) \/ Dispatch(e) \/ Listen(e) \/ May(e)
        \/ \E r \in Routes : Receive(e, r)

Spec == Init /\ [][Next]_vars

(* The two tasks of a connection are scheduled, and its applications keep      *)
(* receiving; nobody has to send, open or close.                              *)
Fairness ==
    \A e \in End :
        /\ WF_vars(Write(e)) /\ WF_vars(Dispatch(e)) /\ WF_vars(Listen(e))
        /\ \A r \in Routes : WF_vars(Receive(e, r))

FairSpec == Spec /\ Fairness

-----------------------------------------------------------------------------
(* One direction of one route, as CreditWindow sees it.                       *)

Between(s, r, tag) == SelectSeq(wire[s], LAMBDA f : f.tag = tag /\ f.route = r)
Returning(p, r) ==
    FoldSeq(LAMBDA f, n : n + IF f.tag = "credit" /\ f.route = r THEN f.n ELSE 0,
            0, control[p] \o wire[p])

Usable(s, r) ==
    /\ Known(s, r) /\ \A e \in End : ~closed[e]
    /\ r \in seen[Peer(s)] => Known(Peer(s), r)

Phase(s, r) ==
    IF Usable(s, r) THEN "open"
    ELSE IF r \notin seen[s] /\ \A e \in End : ~closed[e] THEN "unopened" ELSE "closed"

WhenUsable(s, r, n) == IF Usable(s, r) THEN n ELSE 0

Credit(s, r) == INSTANCE CreditWindow WITH
    phase    <- Phase(s, r),
    credit   <- IF Usable(s, r) THEN routes[s][r].credit ELSE 0,
    flying   <- WhenUsable(s, r, Len(Between(s, r, "data"))),
    missed   <- WhenUsable(s, r, Cardinality({m \in missed : m[1] = Peer(s) /\ m[2] = r})),
    buffered <- WhenUsable(s, r, Len(inbound[Peer(s)][r])),
    taken    <- WhenUsable(s, r, IF r \in noting[Peer(s)] THEN 1 ELSE 0),
    since    <- IF Usable(s, r) /\ Known(Peer(s), r)
                THEN routes[Peer(s)][r].consumed_since_grant ELSE 0,
    granted  <- WhenUsable(s, r, Returning(Peer(s), r))

-----------------------------------------------------------------------------

\* Two ends that run this code never tear a route down for flow control: the
\* inbound channel, sized to the window, always has room for what arrives.
NoOverrun == overrun = {}

\* Every direction of every route implements the credit protocol: dispatch,
\* note_consumed and add_credit neither invent credit nor lose it.
CreditKept ==
    /\ \A s \in End, r \in Minted : Credit(s, r)!Init
    /\ [][\A s \in End, r \in Minted : [Credit(s, r)!Next]_(Credit(s, r)!cvars)]_vars

\* An application receives a route's frames once and in the order they were sent,
\* and passes over none except those that overtook the RouteOpen.
InOrder ==
    [][\A e \in End, r \in Routes :
          r \in noting'[e] \ noting[e] =>
              /\ got'[e][r] > got[e][r]
              /\ \A n \in got[e][r] + 1 .. got'[e][r] - 1 : <<e, r, n>> \in missed]_vars

\* The application of s is owed a delivery on r.
Owed(s, r) ==
    /\ got[Peer(s)][r] < sent[s][r] /\ Phase(s, r) = "open"
    /\ \A m \in missed : m[1] # Peer(s) \/ m[2] # r

\* Every frame accepted on a route is received, unless the route or the connection
\* ends or a frame is lost to the race with the RouteOpen. No flood of control
\* frames or datagrams, and no other route, keeps one from the wire for ever.
DataArrives == <>[](\A s \in End, r \in Minted : ~Owed(s, r))
=============================================================================
