# A verification of astrs

astrs is a dataflow middleware for robots, in Rust. Nodes exchange messages over
shared-memory rings on one machine and over multiplexed links between machines; a
daemon per machine supervises the nodes; a coordinator, optionally replicated with
Raft, keeps the registry of daemons, dataflows and parameters; an RTPS stack talks to
ROS 2. This directory holds TLA+ models of its concurrent and fault-tolerant parts,
the TLC instances that check them, and TLAPS proofs of the properties that matter most.

Paths below are relative to `src/crates/` unless they start with `src/`.

## 1. Inventory

| Part | Code | Here |
|---|---|---|
| hybrid logical clock | `astrs-time/src/hlc.rs`, `timestamp.rs` | `HLC` |
| shared-memory ring: slots, header, producer, consumer, consumer table | `astrs-shm/src/{slot,header,producer,consumer,consumer_table,attach,layout}.rs` | `ShmRing` |
| segment broker, doorbells | `astrs-shm/src/broker`, `doorbell.rs` | eviction and the death of producers only, in `ShmRing` |
| Raft core | `astrs-raft/src/core`, `membership.rs`, `message.rs`, `config.rs` | `Raft` |
| Raft log stores | `astrs-raft/src/log/store.rs`, `wal.rs` | operators of `Raft`; `Wal` |
| Raft driver | `astrs-raft/src/driver.rs` | its order of calls, in `Raft` |
| link multiplexer with credit | `astrs-transport/src/mux` | `CreditWindow`, `RouteMux` |
| daemon's link to its coordinator, sessions, catch-up, builds | `astrs-daemon/src/coordinator`, `astrs-coordinator/src`, `astrs-store/src/store/mutation_log.rs` | `Uplink` |
| supervision, event loop, local routing, mailboxes | `astrs-daemon/src/{server,state,supervise,local}`, `astrs-scheduler/src/queue.rs` | `NodeLife` |
| timer wheel | `astrs-scheduler/src/timer/wheel.rs`, `astrs-time/src/interval.rs` | `Timers`, `TimerWheel` |
| RTPS writer and reader | `astrs-rtps/src/behavior` | `Rtps` |
| reconnecting link, input multiplexer, route upgrades, replicated registry, peers, operator host, node session, RTPS fragments and discovery, recordings | see `PROJECT.json` | not modelled; section 7 |
| codecs, parsers, data arrays, kinematics, display, telemetry, bindings, tools | `astrs-wire`, `-cdr`, `-idl`, `-yaml`, `-manifest`, `-data`, `-tf`, `-urdf`, `-tui`, `-log`, `-telemetry`, `-capi`, ... | no: sequential conversions and I/O, no state machine to explore |

`PROJECT.json` has one entry per part with the reason, the source lines each definition
stands for, and under `hazards` the places where the code could go wrong in a way a
test would hardly reach, with the properties that would notice.

The parts meet as follows. Every message is stamped by the clock. A producer and its
consumers share one ring, or the daemon passes messages through the consumers'
mailboxes. The daemon spawns nodes, watches them and tells their consumers when they
end; timers are virtual producers it drives from the wheel. Daemons talk to each other
and to the coordinator over multiplexed links. The coordinator proposes registry
changes to Raft; Raft writes its term, vote and entries to a log store, the write-ahead
log when a path is configured, before a message that depends on them leaves, and
applies what is committed to the registry; a daemon that reconnects is told what it
missed.

## 2. Promises and compositions

Two parts are split into a promise and an implementation that is shown to keep it:

- `CreditWindow` is the credit protocol of one direction of one route, with nothing else
  around it. Its theorems hold for every window and threshold. `RouteMux` is the code:
  two ends, two tasks each, queues, a wire and several routes. `CreditKept` maps every
  direction of every route to an instance of `CreditWindow` (`INSTANCE ... WITH`), so
  every step of the connection is a step of each of those protocols or leaves it alone.
- `Timers` says which points of a timer's grid a call delivers, without slots or levels.
  `TimerWheel` is the hierarchical wheel; `KeepsPromise` says that it implements
  `Timers`, with `clock` mapped to `current_ms`.

`RouteMux` composes both ends of a connection, `Uplink` composes the daemon's and the
coordinator's ends with the mutation log, `NodeLife` the supervisor with the mailbox,
the session and the input queue of a consumer, and `Rtps` the two endpoints of a topic.

## 3. Modules and what they model

`HLC` models `HlcClock::now` and `update_with`. Both read the wall clock before they
take the mutex, so each call is two actions, `NowReads`/`UpdateReads` and
`NowIssues`/`UpdateMerges`, and other callers of the same clock come between. The wall
stands still, jumps and steps back freely. The 64-bit and 32-bit counters are scaled
down to `MaxPhysical` and `MaxLogical`, so that both overflows happen. Stamps in
`wire` are delivered late, repeatedly or never.

`ShmRing` models one segment at the granularity of its atomics: one action for each
access to a shared word. `slot`, `hdr` and `entry` are the words of the segment;
`prod` and `cons` are each participant's program counter and private fields; `pins` and
`bytes` say who holds a slot and which message its data region really contains, which
the code has no word for. `reclaimed_seq` is accessed with `Relaxed` ordering, so a
load may return any value not yet overtaken through an acquire (`view`, `mark`). The
overflow policy is a field of the producer that `Init` chooses among `Policies`. `owed`
is history: the consumers that were attached when the running `acquire_slot` read the
consumer epoch, and have neither left, died nor sought since. Any participant in
`Killable` may be killed between two accesses; its heartbeat then expires and the broker
or the producer may clear up after it. A consumer attaches at the oldest or at the
latest message; `seek` asks for any number.

`Raft` models `RaftNode`. One action is one call into it together with the flush the
driver makes before its next call: `Timeout`, `Heartbeat`, `StepDown` (ticks),
one action per message handler, `Propose`, `ProposeMembership`, `TakeSnapshot` and
`Restart`. `msgs` only grows: a message is delivered any number of times, in any
order, or never. A `World` is a configuration of the cluster together with bounds on
its environment (who may stand in which term, who crashes, whose messages get
through); `Init` chooses one. `ballot`, `elected` and `decided` are history.

`Wal` models `WalLog`: the mirror in memory, the file's records with how many of them
are known to be on disk, and the snapshot sidecar. A call is the list of steps
(`job`) that it makes on them; a kill comes between any two steps or inside a write,
which leaves a torn record; a power cut also takes what was not fsynced. `Open` is the
whole of `open`: the sidecar, replay, the repair of a torn tail. An entry is its term
and a hard state is a number; records are not made of bytes, and a record is either
complete or not. A rename is taken to be durable when it returns, although the code
does not fsync the directory.

`RouteMux` models `MuxState`, `MuxShared` and the reader and writer tasks of both ends.
An action is one critical section of the shared state, or one step of a task between
two of them: the writer takes a frame (`TakeUnmetered`, `TakeRoute`), finds nothing,
tests for the close and waits for a wake-up, in separate steps. The wire is a bounded
queue in order. `Receive` and `NoteConsumed` are apart, because a receiver is handed
its frame before the credit for it is counted. A world says which routes the two
applications open, how much they send, who floods the link with control frames or
datagrams, and who may hang up.

`Uplink` models one daemon and the coordinator: the daemon's outbox with its eviction
and requeue, its reconnecting loop, the session a connection gets at the coordinator
from `upsert` to its cleanup, step by step, the daemon registry, the heartbeat watchdog,
the pages of a catch-up, and a build that waits for its report. Several connections
may be alive at the coordinator at once, since it notices the end of one later than the
daemon. A world bounds the facts, the log, the breaks and the restarts.

`NodeLife` models a producer the daemon supervises and one consumer of its output. The
daemon is one task, so each handler is one action, together with the `flush_pending`
that ends every turn of its loop. What it handles comes from tasks that nothing orders:
the session of each incarnation (`sock`), the waiter that reaps the process (`exits`),
restart timers (`dues`) and the tick (`Sweep`, `Expire`). `node` is `NodeState`, `armed`
the deadline tables, `draining` and `deferred` the exits and closures that wait, `peer`
the consumer with its mailbox and its session's outbox; `said` is everything that was
ever pushed to it. The process side, `Lives`, is external to the daemon: it registers,
publishes, closes its output, shuts down, or ends at any step.

`TimerWheel` models `TimerWheel` call by call. Instants are `Ms` to the millisecond, so
that points fall between the wheel's ticks. A slot is a set of ids, because the ids of
one slot do not touch each other's entries and `advance` sorts what fired.

`Rtps` models one writer and its matched reader with their proxies. A participant
answers a datagram before it reads the next, so a handler and the `produce` it causes
are one step. The network loses, repeats and reorders. The limits of the code are
constants: `SetBits` numbers in a bitmap and `MaxPerProduce` samples in a call of
`produce` (both 256 in the code), `MaxRequested` requests waiting at the writer (4096) and
`MaxTracked` samples that a reader remembers above a hole (65536).

`MCHLC`, `MCShmRing`, `MCRaft`, `MCWal`, `MCRouteMux`, `MCUplink`, `MCNodeLife`,
`MCTimerWheel` and `MCRtps` hold the instances. `Counters_proofs` (the clock and the
credit of a route), `ShmRing_proofs`, `Raft_proofs`, `RaftLog_proofs`, `Rtps_proofs`,
`Uplink_proofs` and `NodeLife_proofs` hold the theorems; `RaftReplica_proofs` holds
lemmas that the two about Raft share.
Operators whose comment begins "Mutated form", "Mutant" or "A wrong version" are
deliberate mistakes, each of which breaks a property; no specification uses them.

## 4. Runs

Runs that pass:

| Run | Instance | Shows |
|---|---|---|
| `hlc` | two clocks, one with two threads; physical 0..2, logical 0..1, drift 1 | stamps never repeat or go back, a merged stamp orders after the received one, a peer moves a clock at most `max_drift` past its own wall |
| `ring` | two slots, either policy, one consumer with two Samples, three messages, kills of both, seek, stale loads | a pinned slot is never rewritten, every message between watermark and `write_seq` is readable, a lapped reader learns of it; Block takes no message from an attached consumer that has not read it; backpressure ends; a published message is delivered or reported lost |
| `raft` | six worlds: two candidates of one term, with and without pre-votes; growth from one peer to three with a change of leader; Figure 8 of the Raft paper; a follower caught up by appends and snapshots while the leader compacts; a membership entry truncated away | one leader per term, Log Matching, Leader Completeness, State Machine Safety, `match_index` is held, membership follows the log |
| `wal` | two indices, two terms, four calls, each fsync policy | what a call reported is there after any crash; the file replays to the mirror |
| `mux` | window and threshold 2, queues and wire of one frame, burst 1; five worlds: a flood, two rival routes, more frames than the window, hang-ups, crossing opens with room for one | no route is torn down for flow control, frames arrive once and in order, each direction implements `CreditWindow`, nothing starves a route |
| `uplink` | up to three connections; five worlds: reports, catch-up, restart of the coordinator, a build, a lapsed heartbeat | the cursor never skips a mutation, facts are applied once and in order, the ends come to agree on a connection, a build is answered |
| `nodes` | two restarts, batches of two; eleven worlds: crashes, failed respawns, early exits, lingering sessions, stops, missed deadlines, a consumer that falls behind under each queue policy | closures tell the truth and come after the last message, no process is left unsupervised, nothing is lost uncounted, everything queued is delivered, every end is accounted for |
| `timers` | three levels of two slots, resynchronisation after four milliseconds, burst cap 2, two timers, fourteen milliseconds | the wheel implements `Timers`; the cursor reaches every timer in time |
| `rtps` | bitmaps, requests and tables of two; five worlds: volatile pairs with three samples or with datagrams that overtake each other, a full history, a transient-local and a best-effort pair | a reliable reader gives up only on what is gone, acknowledgements are true, KEEP_ALL loses nothing, nothing is delivered twice, losses are repaired and acknowledged but for two kinds of reader (section 6) |

Runs that show a disagreement between the code and what it says of itself:

| Run | Statement | What happens |
|---|---|---|
| `ring_wedge` | "Crashed consumers cannot wedge the ring" (`astrs-shm/src/producer.rs:47`) | a consumer killed between claiming and activating its table entry is never evicted, and a Block producer waits for ever |
| `raft_lost` | a committed entry is in every later leader's log (`astrs-raft/src/sim/cluster.rs:14`) | a follower answers a snapshot it does not need with its own `last_index`, an unverified tail included, and the leader commits on it |
| `wal_refused` | a torn prologue makes "a fresh one to be rewritten" (`astrs-raft/src/log/wal.rs:620`) | `open` empties the file and writes no prologue; after the next record, `open` refuses the log |

Section 6 describes further disagreements, which have no run of their own.

**Bounds.** Each counter has a constant of its own, and each is the smallest value at
which the case in question occurs: two slots give a ring that wraps while a slot is
pinned, and three messages wrap it; a logical width of one bit overflows at the
second tie; two terms and two indices give the log a conflict to truncate and a
snapshot with an entry after it; a window of two with a threshold of two lets credit
run out and come back in a batch; three connections let an old session outlive its
successor; two restarts let the reports of an incarnation arrive two incarnations
later; three levels let a timer cascade twice, and a horizon of fourteen milliseconds
takes the wheel round almost twice. In `rtps`, three samples of a volatile pair overflow
a table of two above a hole, or lie beyond a bitmap of two when the reader is matched
after the first; where two samples are written, the limits are not reached and the
orders of delivery are what the world is about. One consumer is enough for a ring to
lap, wait and clear up; what several do to each other is left to the theorems, which
hold for any number. Large state spaces are cut by worlds and not by a
smaller protocol: a world opens some sources of events and closes others, and leaves
every interleaving of the open ones. The worlds of `raft` that start late begin from the
stores a history has left behind, with all of its messages lost, which is a state the
cluster can be in. The runs therefore cover the scenarios named, and not every mixture
of them. No run uses symmetry or a state constraint. Deadlock is checked where the
system cannot stop and switched off where it can: when the bounds of a world are used
up, or a connection has been closed.

**Fairness.** Assumed are only steps that a scheduler or the passing of time brings about.

- `ring`, `ring_wedge`: a participant that is alive finishes the call it is in, and
  makes another: threads of the operating system are scheduled, and none of these calls
  waits inside the library. `recv` reaches its liveness check after every wait that no
  doorbell cut short, hence the strong fairness of `FindQuiet`. Heartbeats expire and
  relaxed stores become visible, because time passes. Consumers drop the Samples they
  hold, which is the caller's obligation under Block. Nothing makes a consumer seek or
  stop seeking, so `BackpressureEnds` says itself that it stops.
- `mux`: the writer and reader tasks run, and the applications go on receiving. Nothing
  is assumed of senders.
- `uplink`: heartbeats are sent, the tasks of either side run, the coordinator serves
  every session, and the daemon dials again after a break; breaks are bounded by the
  world, since a network that never holds settles nothing.
- `nodes`: the loop handles what it is sent and ticks; a session that lingers is given
  up; a consumer that reads goes on reading. The loop's `select!` is biased, so a daemon
  that is never idle does not tick: the fairness of `Sweep` takes it to be idle now and
  then. Nothing is assumed of the node's process.
- `rtps`: matching completes and the cadence of heartbeats goes on; a datagram that is
  sent over and over arrives at last (strong fairness of each handler).
- `hlc`, `raft`, `wal`, `timers` have no liveness properties. Raft's progress depends on
  randomised timeouts that the model leaves out.

## 5. Proofs

All hold for every value of the constants that satisfies the named assumptions.

`Counters_proofs`, the clock: `DriftIsContained`, `ClockOnlyAdvances`, `MergeIsCausal`.
The drift bound is not inductive alone: a caller that passed the drift check still holds
the wall reading it checked against. The invariant adds that every reading in flight
lies below the clock's horizon (`PendingWithinHorizon`).

`Counters_proofs`, the credit: `CreditConserved`, `NoFlowControlViolation` and
`BatchedGrantsSuffice`. The window is always the sum of the sender's credit and of the
frames and grants at each place on the way round (`Conserved`); from it follow the room
in the buffer, and that a sender without credit has something coming. The step from
`CreditWindow` to `RouteMux` is model-checked (`CreditKept`).

`ShmRing_proofs`: `TypeCorrect` and `ZeroCopySound` (a pinned slot is READY, its
refcount is the number of its pins, and its bytes are the whole of its message). The
invariant ties each slot's state, gate and bytes to the place the producer and each
reader have reached (`SlotOwned`, `ProducerPlaced`, `ReaderPlaced`); without the
producer's place nothing says that the slot it fills has its gate closed. One lemma
serves all steps that touch only private words (`LocalStep`); the others are one lemma
per call. Two invariants are proved on top of it. `WInv` gives `WindowStaysResident` and
`MispinAlwaysReported`: a slot never goes back to an older message, and the mark that
its release carries covers all the messages it held before (`Latest`), so a reader that
acquires a recycled slot acquires a watermark past its cursor with it, whatever its
relaxed loads return. `BInv` gives `BlockAlwaysHoldsBack`: a producer's list of entries
whose epoch stands names every attached consumer, and one that the call still owes a
look is on the list or past the message (`Consulted`). A consumer that seeks is owed
nothing more by the running call: `Consumer::seek` can move a cursor back when the call
has looked at its entry already, and then the producer takes a message that this consumer
has come to want.

`Raft_proofs`: `TypeCorrect`, `OneVotePerTerm` and `OneLeaderPerTerm`. A replica
remembers the last vote it cast (`VotesRemembered`); a vote that is counted, or under
way, was cast (`VotesReal`); so every leader has a majority behind it
(`LeadersElected`), and two majorities of one membership share a voter, who voted
once. The invariant takes as parameters the configurations that entries may carry and
the memberships in force; with all sets of nodes it gives the types and
`OneVotePerTerm`, with the single set of all nodes it gives `OneLeaderPerTerm`. That theorem
assumes that every peer votes and that nobody changes the membership; the second note on
Raft in section 6 is why the second assumption cannot be dropped for this code.
The lemmas go up from logs and replicas to messages, the invariant and the driver's
calls (`RaftReplica_proofs`), to the handlers (`Raft_proofs`); `CalmStep` serves every
step that casts no vote and elects nobody.

`RaftLog_proofs`: `MembershipAlwaysFollowsLog`, for every deployment, because each
operation on a log keeps it `Coherent` with the membership; and Log Matching.
`LogMatching` is not inductive, since an append under way may carry anything. The
invariant `Replicated` speaks of links: an entry at its index with the term of the one
before it, for all entries of all logs and of all appends under way. Index and term
determine a link (`Functional`), because links of a term are made only by its leader,
each past the end of its log (`Owned`), and a leader accepts nothing while it leads
(`SentByLeaders`, `OnRecord`). Followers, stores and the network only move links or drop
them: a log that is truncated, compacted or replaced by a snapshot has no new one. Every
handler is shown to be such an `Advance`, and `LinksMatch` goes down two logs, link by
link, from an entry that they share. `LogsMatchUnderElectionSafety` is this with the
hypothesis that no term has two leaders, and holds with membership changes;
`LogsAlwaysMatch` discharges the hypothesis by `OneLeaderPerTerm`, under its assumptions.

`Rtps_proofs`: `TypesHold`, `NothingIsSkipped`, `AcksAreHonest`, `NothingIsLost`,
`DeliveredAtMostOnce` and `BestEffortNeverGoesBack`, from one inductive invariant
(`InductiveHolds`): the types; that every gap, heartbeat and acknowledgement under way
is still true of the end that sent it (`GapsHonest`, `BeatsHonest`, `AcksHonest`), which
is needed because any of them may arrive at any later time; that what a reader counts
as received it has delivered (`Counted`); and that the history holds what it should
(`Held`). The steps of the writer come first, then those of the reader.

`Uplink_proofs`: `CursorIsHonestAlways` and `FactsOnceInOrderAlways`, from one invariant.
Its `CatchUp` says that the cursor is honest about the log, that each batch on the way to
the daemon is honest given what was told and the batches before it, and that the page the
session reads next is honest given all of those; only the connection in use matters,
because batches of an older one are never read (`Placed`). Its `Ordered` lays all facts
out along the way they take, applied before in flight before waiting, and those of an
earlier connection before those of a later one.

`NodeLife_proofs`: `NoOrphanEver`, `TailAlwaysKept` and `ClosuresAlwaysTruthful`, from
`Core` and `Words`. `Core` relates the daemon's record of the node to the processes,
their sessions and the exits under way: an exit that is reported or waits is real, frames
in a session are those of a process that has come that far, no message follows a closure
there, and an incarnation that is accounted for has nothing more to say unless it was cut
short. `Words` is what the consumer was told: it speaks of no incarnation that was not
started, and of ends only truthfully. A step that keeps `Core` and undoes nothing
(`Onward`) keeps `Words`, provided that what it adds to them is true (`WordsKept`).

Only model-checked:

- liveness, because the provers have no fairness and no ENABLED;
- of Raft, Leader Completeness, State Machine Safety and `MatchIsHeld`: `raft_lost` shows
  that this code does not keep them in every world, so there is no theorem to prove for
  every value of the constants;
- properties that count or fold over a queue or a file, since the provers cannot do
  induction over data: `NothingUncounted` of `NodeLife`, the properties of `RouteMux`, and
  `Wal`, whose replay folds over its records;
- `TimerWheel`, whose catch-up is recursive.

## 6. Not modelled, and notes on the code

**Clock, ring.** Descriptor passing, doorbells and the mapping of segments are not
modelled: a lost doorbell delays a receiver that polls anyway, and the rest is I/O.

- `try_next` loads `write_seq` before `closed` (`astrs-shm/src/consumer.rs:273`), so a
  commit and a close between the two loads yield `Closed` with the last message unread;
  `header.rs:307` says "A consumer that observes `closed` must also observe every message
  the producer committed before closing".
- A producer that dies after closing a gate and before raising the watermark
  (`producer.rs:328`) leaves a receiver at that cursor polling for ever: it can neither pin
  the message nor find it reclaimed, and as its cursor is not past `write_seq` it does not
  find the producer gone either, where `consumer.rs:61` says that it "must not wait forever
  because the producer was `kill -9`'d". `CursorMoves` excepts this case by name
  (`Stranded`) and is violated without the exception.
- The pins of a dead consumer's Samples are never released (`consumer.rs:656`), and a Block
  producer that comes round to such a slot waits for ever. `BackpressureEnds` excepts it
  together with the entry of `ring_wedge` (`Abandoned`), and is violated without either.

**Raft.** Tick counters are left out. Each replica counts its own ticks, so from any
state its timeout may come first; a timeout is an action that is always enabled. The
check that a leader has heard from a quorum is `StepDown`, enabled for every leader that
is not a quorum by itself.

- A snapshot past `commit_index` replaces the whole log, entries after it included
  (`astrs-raft/src/core/apply.rs:188`). `commit_index` restarts at 0, so a snapshot that
  ordinary replication has overtaken and that arrives after a restart discards entries
  the follower acknowledged.
- `propose_membership` tests only that no earlier change is in flight. The rule its
  comment states (`core/mod.rs:615`), to commit in one's own term first, has no code,
  and without it two leaders can be elected in one term. In the worlds of `raft` it does
  not come to that: the leader of `Growth` is alone at first and commits its no-op at once,
  and in `Orphan` a change that was proposed before any commit is truncated away.
- `commit_index` may move back when a late message matches less (`replication.rs:156`);
  a snapshot is stamped with the membership in force and not with that of its index
  (`apply.rs:110`). The model keeps both.
- `TimeoutNow` has a handler (`core/mod.rs:501`) but nothing outside the tests sends it.
  `Progress::snapshot_in_flight` is written and never read, although its comment
  (`core/mod.rs:75`) says it holds back appends.
- A crash between the renames of sidecar and log leaves a pair that `open` refuses
  (`log/wal.rs:667`), where `wal.rs:358` says that "a crash part-way through leaves the
  *old* complete log"; and a prologue torn during creation empties the file, but no new
  one is written, so the records that follow are refused by the open after next. `Reopens`
  denies both; `wal_refused` reports the second, which is the shorter. With files whose
  prologue is whole (`prologue = "whole" => up # "refused"`) TLC finds the first, in ten
  states.
- `WalLog::open` does not fsync a file that it finds intact: records that survived a kill
  without having been fsynced are served again, and a power cut can take them back.
  `Durable` speaks of what a call reported, and does not see this.
- `RaftReplica::run` says that a replica whose storage fails "must stop, not carry on"
  (`driver.rs:301`), but a failed proposal is answered and the replica carries on
  (`driver.rs:332`). `Wal` takes an error to be the end of the process. A pending
  membership change is answered Ok when its index is applied, without comparing terms
  (`driver.rs:380`).
- Without a configured path, the default, the coordinator keeps its Raft log in memory
  (`astrs-coordinator/src/ha/mod.rs:162`), and a restart forgets its vote. `Raft` models
  the durable store.

**Multiplexer.** Compression, payload limits, counters, and frames that two ends running
this code never send are left out.

- Once a burst of control frames is spent, a route's first frame may leave before its own
  `RouteOpen`; the peer drops it (`astrs-transport/src/mux/state.rs:958`) and its credit
  never comes back. `CreditWindow` has this as `Miss`, and `InOrder` and `DataArrives`
  except such frames.

**Uplink.** One daemon; the snapshot that replaces a catch-up after a compaction,
compaction itself and command-line sessions are left out. Spawns wait like builds. The
coordinator's own heartbeats to the daemon are left out.

- The end of a session removes the daemon's handle by id although a newer session may have
  registered (`astrs-coordinator/src/session/daemon.rs:163`). Likewise a session that was
  declared lost goes on folding events once a newer one has registered: `is_connected`
  tests the id alone, where the comment at `daemon.rs:132` says that a stale session must
  not. The pair recovers by one more reconnection (`Settles`).
- `push_catch_up` awaits room in a queue of 512 whose writer is spawned only after it
  returns (`catchup.rs:162`): a catch-up of more than 512 pages never ends. The run stays
  below.
- A fact is lost when the writer task is aborted between taking and writing it; a
  heartbeat can evict a report from a full outbox, and a requeued one may displace
  another (`astrs-daemon/src/coordinator/sink.rs:160`).
- `mutations_since` reads the compaction watermark outside the write gate
  (`astrs-store/src/store/mutation_log.rs:76`).

**Node life.** One producer with one output and one consumer that is registered
throughout. Dynamic nodes, replacement, the shared-memory plane, remote consumers,
`EventStreamDropped`, restarts of the consumer and the pruning of the restart window are
left out; a process publishes only once it has read `Registered`. The following were
found with the model; `EndsAreSettled` and `ClosuresAreTruthful` name the exceptions they
make for them.

- A stop during the restart backoff never ends: the node is `Stopping`, has no process,
  and the restart timer no longer applies (`server/handlers.rs:1130`), although the loop
  waits for "every node has since ended" (`server/core.rs:644`).
- A registration that is handled after the exit was accounted for puts a node that waits
  for its restart back to `Running`, with no process, and the restart is dropped.
- After a health or spawn deadline the exit of the killed process carries the same
  generation as the failure already accounted for, and is accounted for again: a restart
  that was granted can be turned into a failure, or the budget charged twice.
- After a drain deadline, frames still in the socket can follow the closure, and a
  "finished" can follow "crashed" (`server/closure.rs:113` says "Never").
- `close_outputs_of` (`server/core.rs:1181`) does not mark the consumers' inputs closed, so
  a producer that ends without `CloseOutputs` never leads to `AllInputsClosed`, although
  `core.rs:1223` lists "that producer's process exiting" among its triggers; a sink that
  waits for it (`src/bins/astrs-record-node/src/lib.rs:161`) goes on waiting.
- `AllInputsClosed` goes past the mailbox and is claimed once: it is lost if the outbox is
  full. `InputClosed` is not immune to eviction.
- `mark_spawning` builds a handle with a reaped flag of its own (`state/node.rs:377`), not
  the one the waiter marks, so the window that `supervise/tasks.rs:72` describes as closed
  is open.
- `session_of` falls back to any session bound to the node, so an exit may wait for the
  session of another incarnation until the drain deadline.

**Timer wheel.** Jitter statistics are left out. `next_deadline` is a fraction of a
millisecond and `advance` acts on whole ones, so a loop that sleeps until it wakes early
and goes round until the millisecond is over.

**RTPS.** Fragments, several instances, ownership, liveliness and a match that is broken
and made again on one side are left out.

- Every SEDP announcement is written in the instance NIL of a KEEP_LAST(1) history
  (`astrs-rtps/src/behavior/writer.rs:466`, `discovery/matching.rs:135`), so each evicts
  the one before, and a participant discovered later learns of the latest endpoint only;
  `discovery/sedp.rs:3` says that each "announces its endpoints" on a transient-local topic.
- A volatile reader that joins late asks for the samples before its match for ever: the
  writer takes them for acknowledged and neither sends them nor declares them irrelevant.
  The writer never finds everything acknowledged, and once its bitmap of 256 is full of
  such numbers the reader does not ask for what it loses beyond it.
- A reader that remembers `MAX_TRACKED` samples above a hole refuses even the sample that
  would fill the hole, and so never gets past it; nor does one whose table of gaps is full
  get past a sample that is gone.
- `Repaired` and `Acknowledged` except these readers by name (`HeldUp`, `Wedged`), and each
  exception is needed. In the worlds of `rtps` both are violated without `Wedged`, and
  without the first part of `HeldUp`. The second part needs two removed samples:
  `Acknowledged` is violated without it, and both hold with it, for `MaxTracked = 1` and a
  transient-local KEEP_ALL pair with two removals, an instance too slow to keep among the
  runs.
- A best-effort reader that joins a transient-local writer late may starve when more than
  256 samples were evicted; a reliable reader delivers out of order, although
  `reader.rs:20` says that samples wait.

## 7. Further places to look

Parts without a module, and what to look for in them:

- `astrs-transport/src/reconnect/mod.rs:711`, `:781`: a frame buffered between the flush
  and the publication of the new link waits for the next reconnection; a flush that fails
  half-way puts its frame behind newer ones.
- `astrs-daemon/src/coordinator/state.rs:352`: an armed restart tests whether the node has
  ended before whether its generation has moved on.
- `astrs-daemon/src/shm/upgrade.rs:535`: an acknowledgement carries no generation, and one
  that answers an expired offer is taken for the answer to the next.
- `astrs-coordinator/src/ha/machine.rs:112`, `:124`: a command of several operations is
  applied one by one; a restored snapshot leaves rows that were deleted before it.
- `astrs-coordinator/src/catchup.rs:226`: a full snapshot stamps a sequence number and then
  lists each bucket in a read of its own, while writers go on.
- `astrs-runtime/src/inbox.rs:305`: a message pushed after the receiver found the queue
  empty, followed by a close, is left behind.
- `astrs-scheduler/src/mux.rs:436`, `:463`: the control lane preempts data on every
  receive; the wait must be registered before the check.
- `astrs-shm/src/consumer.rs:123`, `broker/mod.rs:394`, `producer.rs:96`: a start position
  settled before the entry is claimed; an evicted consumer still counted as attached; a
  replacement producer over a segment whose owner died inside a write window.
- `astrs-raft/src/core/mod.rs:514`, `:786`, `election.rs:129`: terms of pre-votes; leases
  credited on the arrival of a response; a leader that grants pre-votes.
- `astrs-discovery/src/watcher.rs:162`: a late beacon with other addresses replaces the
  newer record.
- `astrs-recording/src/recover.rs:122`: a crash inside a frame must lose that frame only.

## 8. Running it

    tlc -workers 2 -config MCWal.cfg MCWal     # any row of section 4
    tlapm Raft_proofs.tla                      # likewise the other *_proofs modules

The configuration of each run is named in `PROJECT.json`. Every run ends within five
minutes on two cores; the proofs of the ring, of Raft and of the nodes take the longest.
