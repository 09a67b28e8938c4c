-------------------------------- MODULE Rtps --------------------------------
(* One RTPS writer and one matched reader (crates/astrs-rtps/src/behavior):   *)
(* the writer's history cache and its proxy of the reader, the reader's proxy  *)
(* of the writer, and the DATA, GAP, HEARTBEAT and ACKNACK submessages between *)
(* them over UDP, which loses, repeats and reorders datagrams.                *)
(*                                                                            *)
(* A participant answers a datagram before it reads the next one: after the    *)
(* handlers it drains its readers and runs `produce` of every endpoint. So a   *)
(* heartbeat and the ACKNACK it provokes are one step, as are an ACKNACK and    *)
(* the repairs it provokes, and heartbeat_pending and the reader's queue are    *)
(* empty between steps.                                                       *)
EXTENDS Integers, Sequences, FiniteSets

CONSTANTS
    SetBits,          \* MAX_SET_BITS: the width of a SequenceNumberSet
    MaxPerProduce,    \* MAX_SAMPLES_PER_PRODUCE
    MaxRequested,     \* MAX_REQUESTED
    MaxTracked,       \* MAX_TRACKED
    WriteBound,       \* samples written in a behaviour, at most
    Worlds            \* the QoS and the budgets of a behaviour; see World

KeepAll == 0

(* A World is the QoS of the pair (whether it is reliable, whether the writer  *)
(* is TRANSIENT_LOCAL and whether the reader wants history, the depth of a     *)
(* KEEP_LAST history or KeepAll, and max_samples) and bounds on the samples     *)
(* written, on the removals by lifespan or by `forget`, and on the heartbeats   *)
(* and the ACKNACKs the network holds at a time.                              *)
World ==
    [reliable : BOOLEAN, durable : BOOLEAN, wants : BOOLEAN, depth : Nat,
     ceiling : Nat \ {0}, writes : Nat, removals : Nat, inflight : Nat \ {0}]

ASSUME RtpsAssumption ==
    /\ {SetBits, MaxPerProduce, MaxRequested, MaxTracked} \subseteq Nat \ {0}
    /\ WriteBound \in Nat
    /\ Worlds \subseteq World
    /\ \A w \in Worlds : (w.wants => w.durable) /\ w.writes <= WriteBound

VARIABLES
    world,       \* the World
    \* the writer
    cache,       \* the sequence numbers in the HistoryCache
    last,        \* last_change
    removed,     \* removals made so far
    wp,          \* the ReaderProxy
    \* the network
    data,        \* DATA in flight
    gaps,        \* GAPs in flight, each the set of numbers it declares irrelevant
    beats,       \* HEARTBEATs in flight in the order of their counts
    acks,        \* ACKNACKs in flight in the order of their counts
    \* the reader
    rp,          \* the WriterProxy
    delivered    \* how often each sample has been handed to the application

writer == <<cache, last, removed, wp>>
reader == <<rp, delivered>>
network == <<data, gaps, beats, acks>>
vars == <<world, writer, network, reader>>

Larger(m, n) == IF m < n THEN n ELSE m

\* The first k numbers of a BTreeSet, or the last k.
Lowest(S, k) == {n \in S : Cardinality({m \in S : m < n}) < k}
Highest(S, k) == {n \in S : Cardinality({m \in S : m > n}) < k}

\* The network holds no more than `inflight` of a kind and loses the oldest.
Sent(queue, message, inflight) ==
    LET all == Append(queue, message)
    IN  SubSeq(all, Larger(0, Len(all) - inflight) + 1, Len(all))

-----------------------------------------------------------------------------
(* The writer's history.                                                      *)

\* HistoryCache::insert: KEEP_ALL refuses a write beyond the ceiling, KEEP_LAST
\* evicts the oldest. All samples are of the instance NIL.
Admits == world.depth = KeepAll => Cardinality(cache) < world.ceiling

Inserted(n) ==
    IF world.depth = KeepAll
    THEN cache \cup {n}
    ELSE Highest(Highest(cache \cup {n}, world.depth), world.ceiling)

\* RtpsWriter::first_available.
FirstAvailable(held, newest) ==
    CHOOSE n \in held \cup {newest + 1} : \A m \in held \cup {newest + 1} : n <= m

-----------------------------------------------------------------------------
(* What RtpsWriter::produce decides, for the proxy p and the history `held`    *)
(* whose newest sample is `newest`.                                           *)

\* The mutated form of Chosen that never looks at what was asked for.
ChosenUnsent(p, newest) == Lowest(Larger(p.sent, p.acked) + 1 .. newest, MaxPerProduce)

\* Repairs, then samples not sent yet, at most MaxPerProduce in all.
Chosen(p, newest) ==
    LET repairs == {n \in p.requested : n > p.acked}
        fresh == Lowest(Larger(p.sent, p.acked) + 1 .. newest,
                        MaxPerProduce - Cardinality(repairs))
    IN  Lowest(repairs \cup fresh, MaxPerProduce)

\* The mutated form of GapFor that widens a scattered list into one run.
GapForRun(missing) ==
    {n \in 1..last : (\E m \in missing : m <= n) /\ (\E m \in missing : n <= m)}

\* gap_for: exactly the numbers that are gone, as far as the bitmap reaches.
GapFor(missing) ==
    {n \in missing : \A start \in missing : n - (start + 1) < SetBits}

\* ReaderProxy::record_sent and forget_requested for what was sent or gapped.
Recorded(p, sendable, missing) ==
    [p EXCEPT !.sent = CHOOSE s \in sendable \cup {p.sent} :
                            \A n \in sendable \cup {p.sent} : n <= s,
              !.requested = @ \ (sendable \cup missing)]

\* assume_acked_through: a best-effort reader has what it was sent.
Assumed(p) == [p EXCEPT !.acked = Larger(@, p.sent)]

\* The mutated form of Heartbeat that never asks for an answer.
HeartbeatFinal(p, held, newest) ==
    [first |-> FirstAvailable(held, newest), last |-> newest, final |-> TRUE]

\* produce_heartbeat: nothing to a best-effort reader.
Heartbeat(p, held, newest) ==
    [first |-> FirstAvailable(held, newest), last |-> newest, final |-> p.acked >= newest]

\* produce: samples, a GAP, and a heartbeat when one is due.
Produce(p, held, newest, due) ==
    LET chosen == IF p.matched THEN Chosen(p, newest) ELSE {}
        sendable == chosen \cap held
        missing == chosen \ held
    IN  /\ data' = data \cup sendable
        /\ gaps' = IF world.reliable /\ missing # {} THEN gaps \cup {GapFor(missing)} ELSE gaps
        /\ wp' = IF world.reliable THEN Recorded(p, sendable, missing)
                 ELSE Assumed(Recorded(p, sendable, missing))
        /\ beats' = IF due /\ world.reliable /\ p.matched
                    THEN Sent(beats, Heartbeat(wp', held, newest), world.inflight) ELSE beats

-----------------------------------------------------------------------------
(* The writer's operations.                                                   *)

NewReaderProxy == [matched |-> FALSE, acked |-> 0, sent |-> 0, requested |-> {}, joined |-> 0]

\* match_reader: without history on both sides the proxy starts at the present.
\* `joined` remembers where.
MatchReader ==
    /\ ~wp.matched
    /\ wp' = IF world.durable /\ world.wants
             THEN [wp EXCEPT !.matched = TRUE]
             ELSE [wp EXCEPT !.matched = TRUE, !.acked = last, !.sent = last, !.joined = last]
    /\ UNCHANGED <<world, cache, last, removed, network, reader>>

\* Participant::write.
Write(due) ==
    /\ last < world.writes /\ Admits
    /\ last' = last + 1
    /\ cache' = Inserted(last + 1)
    /\ Produce(wp, cache', last + 1, due)
    /\ UNCHANGED <<world, removed, acks, reader>>

\* The cadence: samples older than the lifespan expire, then `produce`.
Cadence(due) ==
    /\ Produce(wp, cache, last, due)
    /\ UNCHANGED <<world, cache, last, removed, acks, reader>>

Expire(oldest, due) ==
    /\ removed < world.removals
    /\ removed' = removed + 1
    /\ cache' = {n \in cache : n > oldest}
    /\ Produce(wp, cache', last, due)
    /\ UNCHANGED <<world, last, acks, reader>>

Forget(n) ==
    /\ removed < world.removals
    /\ removed' = removed + 1
    /\ cache' = cache \ {n}
    /\ UNCHANGED <<world, last, wp, network, reader>>

\* The mutated form of Reclaim that drops what has been sent.
ReclaimSent ==
    /\ world.depth = KeepAll /\ ~world.durable
    /\ world.reliable /\ wp.matched
    /\ cache' = {n \in cache : n > wp.sent}
    /\ UNCHANGED <<world, last, removed, wp, network, reader>>

\* reclaim: a KEEP_ALL, VOLATILE history drops what every reader has.
Reclaim ==
    /\ world.depth = KeepAll /\ ~world.durable
    /\ world.reliable /\ wp.matched
    /\ cache' = {n \in cache : n > wp.acked}
    /\ UNCHANGED <<world, last, removed, wp, network, reader>>

\* The mutated form of Accepted that takes the base for acknowledged.
AcceptedBase(p, ack, first) ==
    LET acked == Larger(p.acked, ack.base)
    IN  [p EXCEPT !.acked = acked,
                  !.requested = {n \in @ \cup ack.missing : n > acked}]

\* accept_acknack and drop_requested_below.
Accepted(p, ack, first) ==
    LET acked == Larger(p.acked, ack.base - 1)
        kept == {n \in p.requested : n > acked}
        asked == Lowest({n \in ack.missing : n > acked} \ kept, MaxRequested - Cardinality(kept))
    IN  [p EXCEPT !.acked = acked,
                  !.requested = {n \in kept \cup asked : n >= first}]

\* on_acknack. An ACKNACK with a count not above the last one accepted has no
\* effect, so those before it in the queue are lost with it.
OnAckNack(i, due) ==
    /\ wp.matched
    /\ acks' = SubSeq(acks, i + 1, Len(acks))
    /\ Produce(Accepted(wp, acks[i], FirstAvailable(cache, last)), cache, last, due)
    /\ UNCHANGED <<world, cache, last, removed, reader>>

-----------------------------------------------------------------------------
(* The reader's operations.                                                   *)

NewWriterProxy ==
    [matched |-> FALSE, first |-> 1, last |-> 0, received |-> {}, irrelevant |-> {}, acked |-> 0]

MatchWriter ==
    /\ ~rp.matched
    /\ rp' = [rp EXCEPT !.matched = TRUE]
    /\ UNCHANGED <<world, writer, network, delivered>>

\* WriterProxy::advance, from the proxy p: the watermark moves over everything
\* received or irrelevant. A number that is both leaves only `received`.
Advance(p) ==
    \E a \in p.acked..p.last :
        /\ p.acked + 1 .. a \subseteq p.received \cup p.irrelevant
        /\ a + 1 \notin p.received \cup p.irrelevant
        /\ rp' = [p EXCEPT !.acked = a,
                           !.received = {n \in @ : n > a},
                           !.irrelevant = {n \in @ : n \in p.received \/ n \notin p.acked + 1 .. a}]

\* Mutated form of Fresh: what waits above the watermark is delivered again.
FreshAboveWatermark(n) == n > rp.acked

\* accept_data: best effort takes only what is newer, reliable what it lacks.
Fresh(n) ==
    IF world.reliable
    THEN n > rp.acked /\ n \notin rp.received /\ Cardinality(rp.received) < MaxTracked
    ELSE n > rp.acked

\* on_data. The datagram stays in flight: it may arrive again.
OnData(n) ==
    /\ rp.matched /\ Fresh(n)
    /\ IF world.reliable
       THEN Advance([rp EXCEPT !.received = @ \cup {n}, !.last = Larger(@, n)])
       ELSE rp' = [rp EXCEPT !.acked = n, !.last = Larger(@, n)]
    /\ delivered' = [delivered EXCEPT ![n] = @ + 1]
    /\ UNCHANGED <<world, writer, network>>

\* on_gap.
OnGap(gap) ==
    LET new == Lowest({n \in gap : n > rp.acked} \ rp.irrelevant,
                      MaxTracked - Cardinality(rp.irrelevant))
        newest == CHOOSE m \in new \cup {rp.last} : \A n \in new \cup {rp.last} : n <= m
    IN  /\ rp.matched /\ new # {}
        /\ Advance([rp EXCEPT !.irrelevant = @ \cup new, !.last = newest])
        /\ UNCHANGED <<world, writer, network, delivered>>

\* acknack_state.
AckNack(p) ==
    [base |-> p.acked + 1,
     missing |-> {n \in p.acked + 1 .. p.acked + SetBits :
                    n <= p.last /\ n \notin p.received \cup p.irrelevant}]

\* accept_heartbeat: what the writer no longer holds is irrelevant.
Windowed(p, beat) ==
    LET acked == IF beat.first > p.first THEN Larger(p.acked, beat.first - 1) ELSE p.acked
    IN  [p EXCEPT !.first = Larger(@, beat.first), !.last = Larger(@, beat.last),
                  !.acked = acked,
                  !.received = {n \in @ : n > acked \/ acked = p.acked},
                  !.irrelevant = {n \in @ : n > acked \/ acked = p.acked}]

\* on_heartbeat and the reader's `produce`: the answer to a heartbeat that asks
\* for one, or that shows the reader it is behind.
OnHeartbeat(i) ==
    /\ rp.matched
    /\ beats' = SubSeq(beats, i + 1, Len(beats))
    /\ Advance(Windowed(rp, beats[i]))
    /\ acks' = IF ~beats[i].final \/ rp'.acked < rp'.last
               THEN Sent(acks, AckNack(rp'), world.inflight) ELSE acks
    /\ UNCHANGED <<world, writer, data, gaps, delivered>>

-----------------------------------------------------------------------------
(* The network loses a datagram. A datagram that arrives before the endpoint   *)
(* it is for is matched is lost as well.                                      *)
Lose ==
    /\ \/ \E n \in data : data' = data \ {n} /\ UNCHANGED <<gaps, beats, acks>>
       \/ \E gap \in gaps : gaps' = gaps \ {gap} /\ UNCHANGED <<data, beats, acks>>
       \/ \E i \in DOMAIN beats :
            /\ beats' = SubSeq(beats, 1, i - 1) \o SubSeq(beats, i + 1, Len(beats))
            /\ UNCHANGED <<data, gaps, acks>>
       \/ \E i \in DOMAIN acks :
            /\ acks' = SubSeq(acks, 1, i - 1) \o SubSeq(acks, i + 1, Len(acks))
            /\ UNCHANGED <<data, gaps, beats>>
    /\ UNCHANGED <<world, writer, reader>>

Init ==
    /\ world \in Worlds
    /\ cache = {} /\ last = 0 /\ removed = 0
    /\ wp = NewReaderProxy
    /\ data = {} /\ gaps = {} /\ beats = <<>> /\ acks = <<>>
    /\ rp = NewWriterProxy
    /\ delivered = [n \in 1..world.writes |-> 0]

WriterNext ==
    \/ MatchReader
    \/ \E due \in BOOLEAN :
        \/ Write(due)
        \/ Cadence(due)
        \/ \E oldest \in cache : Expire(oldest, due)
        \/ \E i \in DOMAIN acks : OnAckNack(i, due)
    \/ \E n \in cache : Forget(n)
    \/ Reclaim

ReaderNext ==
    \/ MatchWriter
    \/ \E n \in data : OnData(n)
    \/ \E gap \in gaps : OnGap(gap)
    \/ \E i \in DOMAIN beats : OnHeartbeat(i)

Next == WriterNext \/ ReaderNext \/ Lose

Spec == Init /\ [][Next]_vars

\* Both participants discover each other and run their cadence, and a datagram
\* sent over and over arrives over and over.
Fairness ==
    /\ WF_vars(MatchReader \/ MatchWriter)
    /\ WF_vars(Cadence(TRUE))
    /\ \A n \in 1..WriteBound :
        SF_vars(\/ n \in data /\ OnData(n)
                \/ \E gap \in gaps : n \in gap /\ OnGap(gap))
    /\ SF_vars(\E i \in DOMAIN beats : OnHeartbeat(i))
    /\ SF_vars(\E i \in DOMAIN acks, due \in BOOLEAN : OnAckNack(i, due))

FairSpec == Spec /\ Fairness

-----------------------------------------------------------------------------
Numbers == 1..world.writes

Gone(n) == n <= last /\ n \notin cache

\* The proxies and the messages there can be once n samples are written.
ReaderProxies(n) ==
    [matched : BOOLEAN, acked : 0..n, sent : 0..n, requested : SUBSET (1..n), joined : 0..n]
Beats(n) == [first : 1..n + 1, last : 0..n, final : BOOLEAN]
Acks(n) == [base : 1..n + 1, missing : SUBSET (1..n)]
WriterProxies(n) ==
    [matched : BOOLEAN, first : 1..n + 1, last : 0..n,
     received : SUBSET (1..n), irrelevant : SUBSET (1..n), acked : 0..n]

\* The types of the variables. The reader's watermark stays within what it
\* knows the writer to have written, and that within what the writer wrote.
TypeOK ==
    /\ world \in Worlds
    /\ last \in 0..world.writes /\ cache \subseteq 1..last /\ removed \in 0..world.removals
    /\ wp \in ReaderProxies(last)
    /\ data \subseteq 1..last
    /\ gaps \subseteq SUBSET (1..last)
    /\ beats \in Seq(Beats(last))
    /\ acks \in Seq(Acks(last))
    /\ rp \in WriterProxies(last)
    /\ rp.acked <= rp.last
    /\ delivered \in [Numbers -> Nat]

\* What a reliable reader has stopped asking for, it has delivered, or the
\* writer no longer holds it: neither a GAP nor the first number of a HEARTBEAT,
\* however old when it arrives, talks a reader out of a sample it could still
\* have (accept_gap, accept_heartbeat).
NothingSkipped ==
    world.reliable =>
        \A n \in 1..rp.acked \cup rp.irrelevant : delivered[n] > 0 \/ Gone(n)

\* What the writer takes for acknowledged by a reliable reader, and `reclaim` may
\* drop, the reader has delivered, or it could no longer have it, or it was
\* written before the reader was matched.
AckIsHonest ==
    world.reliable =>
        \A n \in 1..wp.acked : n <= wp.joined \/ delivered[n] > 0 \/ Gone(n)

\* A KEEP_ALL history from which nothing expires loses nothing: every sample
\* written after the match is held until it has been delivered.
NothingLost ==
    (world.reliable /\ world.depth = KeepAll /\ world.removals = 0 /\ wp.matched) =>
        \A n \in wp.joined + 1 .. last : n \in cache \/ delivered[n] > 0

\* No sample is delivered twice, whatever the network repeats (accept_data).
DeliveredOnce == \A n \in DOMAIN delivered : delivered[n] <= 1

\* A best-effort reader never goes back: it delivers a sample only if it has
\* delivered no later one (reader.rs, the acceptance rule).
NeverGoesBack ==
    [][\A n \in DOMAIN delivered :
        (~world.reliable /\ delivered'[n] # delivered[n]) =>
            \A m \in DOMAIN delivered : m > n => delivered[m] = 0]_vars

\* The reader's table is full above a hole: accept_data refuses every sample, the
\* one that would close the hole included.
Wedged == Cardinality(rp.received) = MaxTracked

\* The watermark waits for a number the reader will not be rid of: one written
\* before it was matched, which the writer takes for acknowledged and neither
\* sends nor declares irrelevant, or one that is gone while accept_gap, its table
\* full, takes no more.
HeldUp ==
    \/ rp.acked < wp.joined
    \/ Cardinality(rp.irrelevant) = MaxTracked /\ Gone(rp.acked + 1)

\* Once the application has stopped writing, a reliable reader gets every sample
\* the writer still holds that was written after the match, or every one the
\* writer holds when history is replayed, whatever was lost on the way. Two
\* readers do not: one that is wedged, and one that is held up and lost a sample
\* its bitmap does not reach (acknack_state).
Repaired ==
    <>[](world.reliable =>
            \A n \in cache : n > wp.joined =>
                delivered[n] > 0 \/ Wedged \/ (HeldUp /\ n > rp.acked + SetBits))

\* The writer of a reliable pair eventually finds everything acknowledged, and no
\* repair is owed (is_acknowledged), but for the same two readers: the watermark
\* of neither moves again.
Acknowledged ==
    <>[](world.reliable => (wp.acked = last /\ wp.requested = {}) \/ Wedged \/ HeldUp)

=============================================================================
