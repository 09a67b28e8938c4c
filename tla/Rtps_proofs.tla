----------------------------- MODULE Rtps_proofs -----------------------------
(* Theorems about the reliability protocol of RTPS, for every QoS, every number *)
(* of samples and every width of a SequenceNumberSet.                         *)
EXTENDS Rtps, SequenceTheorems, WellFoundedInduction, TLAPS

-----------------------------------------------------------------------------
(* Sets of numbers and queues.                                                *)

\* A set of naturals has a least element.
LEMMA LeastNatural ==
    ASSUME NEW S, S \subseteq Nat, S # {}
    PROVE  \E m \in S : \A n \in S : m <= n
<1>1. PICK m \in S : \A n \in S : ~(<<n, m>> \in OpToRel(<, Nat))
    BY Zenon, NatLessThanWellFounded, WFMin
<1>2. \A n \in S : ~(n < m)
    BY Zenon, <1>1 DEF OpToRel
<1> QED
    BY <1>2

\* A bounded set of naturals has a greatest element.
LEMMA GreatestNatural ==
    ASSUME NEW k \in Nat, NEW S, S \subseteq 0..k, S # {}
    PROVE  \E m \in S : \A n \in S : n <= m
<1> DEFINE Bounds == {u \in Nat : \A n \in S : n <= u}
<1>1. k \in Bounds
    OBVIOUS
<1>2. PICK u \in Bounds : \A v \in Bounds : u <= v
    BY Zenon, <1>1, LeastNatural
<1>3. u \in S
  <2> SUFFICES ASSUME u \notin S PROVE FALSE
      OBVIOUS
  <2>1. \A n \in S : n <= u - 1 /\ n \in Nat
      BY <1>2
  <2>2. PICK n \in S : TRUE
      BY Zenon
  <2>3. u - 1 \in Nat
      BY <2>1, <2>2, <1>2
  <2> QED
      BY <2>1, <2>3, <1>2
<1> QED
    BY <1>2, <1>3

\* first_available names no number below a sample that is held.
LEMMA FirstAvailableIsLeast ==
    ASSUME NEW newest \in Nat, NEW held, held \subseteq 1..newest
    PROVE  /\ FirstAvailable(held, newest) \in 1..newest + 1
           /\ \A n \in held : FirstAvailable(held, newest) <= n
<1>0. held \cup {newest + 1} \subseteq Nat
    OBVIOUS
<1>1. \E n \in held \cup {newest + 1} : \A m \in held \cup {newest + 1} : n <= m
    BY Zenon, <1>0, LeastNatural
<1>2. /\ FirstAvailable(held, newest) \in held \cup {newest + 1}
      /\ \A m \in held \cup {newest + 1} : FirstAvailable(held, newest) <= m
    BY Zenon, <1>1, Zenon DEF FirstAvailable
<1>3. \A f \in held \cup {newest + 1} : f \in 1..newest + 1
    OBVIOUS
<1>4. \A n \in held : n \in held \cup {newest + 1}
    OBVIOUS
<1> QED
    BY Zenon, <1>2, <1>3, <1>4

\* Every message of the queue `after` is `message` or one of `queue`.
AllFrom(after, queue, message) ==
    \A i \in DOMAIN after : after[i] = message \/ \E j \in DOMAIN queue : after[i] = queue[j]

\* What the network holds after a send it held before, or it was sent.
LEMMA SentFrom ==
    ASSUME NEW inflight \in Nat, NEW S, NEW queue \in Seq(S), NEW message \in S
    PROVE  /\ Sent(queue, message, inflight) \in Seq(S)
           /\ AllFrom(Sent(queue, message, inflight), queue, message)
<1> DEFINE all == Append(queue, message)
           from == Larger(0, Len(all) - inflight) + 1
<1>1. all \in Seq(S) /\ Len(all) = Len(queue) + 1
    OBVIOUS
<1>3. from \in Nat /\ 1 <= from
    BY <1>1 DEF Larger
<1>4. SubSeq(all, from, Len(all)) \in Seq(S)
    BY <1>1, <1>3
<1>5. \A i \in DOMAIN SubSeq(all, from, Len(all)) :
        SubSeq(all, from, Len(all))[i] = all[from + i - 1] /\ from + i - 1 \in 1..Len(all)
    BY SMTT(60), <1>1, <1>3
<1>6. \A i \in 1..Len(all) : all[i] = message \/ \E j \in DOMAIN queue : all[i] = queue[j]
    OBVIOUS
<1> QED
    BY ZenonT(60), <1>4, <1>5, <1>6 DEF Sent, AllFrom

\* Every message of the queue `after` is one of `queue`.
AllOf(after, queue) ==
    \A i \in DOMAIN after : \E j \in DOMAIN queue : after[i] = queue[j]

\* The messages behind one that arrives were in the queue.
LEMMA BehindIsOf ==
    ASSUME NEW S, NEW queue \in Seq(S), NEW i \in DOMAIN queue
    PROVE  /\ SubSeq(queue, i + 1, Len(queue)) \in Seq(S)
           /\ AllOf(SubSeq(queue, i + 1, Len(queue)), queue)
<1> DEFINE behind == SubSeq(queue, i + 1, Len(queue))
<1>1. i \in 1..Len(queue) /\ Len(queue) \in Nat
    OBVIOUS
<1>2. behind \in Seq(S)
    BY <1>1
<1>3. \A k \in DOMAIN behind : behind[k] = queue[i + k] /\ i + k \in DOMAIN queue
    BY <1>1, SMTT(60)
<1> QED
    BY <1>2, <1>3 DEF AllOf

\* So were those left when one of them is lost.
LEMMA RestIsOf ==
    ASSUME NEW S, NEW queue \in Seq(S), NEW i \in DOMAIN queue
    PROVE  /\ SubSeq(queue, 1, i - 1) \o SubSeq(queue, i + 1, Len(queue)) \in Seq(S)
           /\ AllOf(SubSeq(queue, 1, i - 1) \o SubSeq(queue, i + 1, Len(queue)), queue)
<1> DEFINE ahead == SubSeq(queue, 1, i - 1)
           behind == SubSeq(queue, i + 1, Len(queue))
<1>1. i \in 1..Len(queue) /\ Len(queue) \in Nat
    OBVIOUS
<1>2. /\ ahead \in Seq(S) /\ Len(ahead) = i - 1
      /\ \A k \in 1..i - 1 : ahead[k] = queue[k] /\ k \in DOMAIN queue
    BY <1>1
<1>3. /\ behind \in Seq(S) /\ Len(behind) = Len(queue) - i
      /\ \A k \in 1..Len(queue) - i : behind[k] = queue[i + k] /\ i + k \in DOMAIN queue
    BY <1>1
<1> HIDE DEF ahead, behind
<1> DEFINE rest == ahead \o behind
<1>4. /\ rest \in Seq(S) /\ Len(rest) = Len(ahead) + Len(behind)
      /\ \A k \in 1..Len(ahead) + Len(behind) :
            rest[k] = IF k <= Len(ahead) THEN ahead[k] ELSE behind[k - Len(ahead)]
    BY ZenonT(60), <1>2, <1>3, ConcatProperties, Zenon
<1> HIDE DEF rest
<1>5. ASSUME NEW k \in 1..Len(ahead) + Len(behind)
      PROVE  \E j \in DOMAIN queue : rest[k] = queue[j]
  <2>1. CASE k <= Len(ahead)
    <3>1. rest[k] = ahead[k] /\ k \in 1..i - 1
        BY <1>1, <1>2, <1>4, <2>1
    <3> QED
        BY <1>2, <3>1
  <2>2. CASE ~(k <= Len(ahead))
    <3>1. rest[k] = behind[k - Len(ahead)]
        BY <1>4, <2>2
    <3>2. k - Len(ahead) \in 1..Len(behind)
        BY <2>2
    <3>3. k - Len(ahead) \in 1..Len(queue) - i
        BY Zenon, <1>3, <3>2, Zenon
    <3> QED
        BY <1>3, <3>1, <3>3
  <2> QED
      BY <2>1, <2>2
<1>6. DOMAIN rest = 1..Len(ahead) + Len(behind)
    BY <1>4
<1>7. rest \in Seq(S) /\ AllOf(rest, queue)
    BY <1>4, <1>5, <1>6 DEF AllOf
<1> QED
    BY <1>7 DEF rest, ahead, behind

\* A queue of messages is one of messages of a larger set.
LEMMA SeqMonotone ==
    ASSUME NEW S, NEW T, S \subseteq T, NEW queue \in Seq(S)
    PROVE  queue \in Seq(T)
    OBVIOUS

\* The messages within a bound are within a larger one.
LEMMA MessagesMonotone ==
    ASSUME NEW m \in Nat, NEW n \in Nat, m <= n
    PROVE  /\ Beats(m) \subseteq Beats(n) /\ Acks(m) \subseteq Acks(n)
           /\ ReaderProxies(m) \subseteq ReaderProxies(n)
           /\ WriterProxies(m) \subseteq WriterProxies(n)
<1>1. 0..m \subseteq 0..n /\ 1..m \subseteq 1..n /\ 1..m + 1 \subseteq 1..n + 1
    OBVIOUS
<1>2. SUBSET (1..m) \subseteq SUBSET (1..n)
    BY <1>1
<1> QED
    BY <1>1, <1>2 DEF Beats, Acks, ReaderProxies, WriterProxies

-----------------------------------------------------------------------------
(* What the writer sends.                                                     *)

\* record_sent, forget_requested and assume_acked_through leave alone where a reader
\* joined, and the first two also its watermark.
LEMMA RecordedType ==
    ASSUME NEW n \in Nat, NEW p \in ReaderProxies(n),
           NEW sendable \in SUBSET (1..n), NEW missing
    PROVE  /\ Recorded(p, sendable, missing) \in ReaderProxies(n)
           /\ Recorded(p, sendable, missing).matched = p.matched
           /\ Recorded(p, sendable, missing).joined = p.joined
           /\ Recorded(p, sendable, missing).acked = p.acked
<1> DEFINE all == sendable \cup {p.sent}
           sent == CHOOSE s \in all : \A m \in all : m <= s
<1>1. all \subseteq 0..n /\ all # {}
  <2>1. p.sent \in 0..n
      BY DEF ReaderProxies
  <2>2. sendable \subseteq 0..n
      OBVIOUS
  <2> QED
      BY Zenon, <2>1, <2>2
<1>2. \E s \in all : \A m \in all : m <= s
    BY <1>1, GreatestNatural
<1>3. sent \in all
    BY <1>2
<1>4. sent \in 0..n
    BY Zenon, <1>1, <1>3
<1>5. Recorded(p, sendable, missing) =
        [p EXCEPT !.sent = sent, !.requested = @ \ (sendable \cup missing)]
    BY DEF Recorded
<1>6. p.requested \ (sendable \cup missing) \in SUBSET (1..n)
    BY DEF ReaderProxies
<1> HIDE DEF all, sent
<1> QED
    BY Zenon, <1>4, <1>5, <1>6 DEF ReaderProxies

\* What `produce` chooses has been written.
LEMMA ChosenIsWritten ==
    ASSUME NEW n \in Nat, NEW p \in ReaderProxies(n)
    PROVE  Chosen(p, n) \subseteq 1..n
<1>1. Larger(p.sent, p.acked) + 1 .. n \subseteq 1..n
    BY DEF Larger, ReaderProxies
<1>2. \A S, k : Lowest(S, k) \subseteq S
    BY DEF Lowest
<1>3. p.requested \subseteq 1..n
    BY DEF ReaderProxies
<1> QED
    BY Zenon, <1>1, <1>2, <1>3 DEF Chosen

\* What `produce` does for the proxy p and the history `held` of n samples: it sends
\* samples that are held and declares irrelevant, in its GAP and by the first number
\* of its heartbeat, only numbers that are not.
Produced(p, held, n) ==
    /\ data' \subseteq data \cup held
    /\ \A gap \in gaps' : gap \in gaps \/ gap \subseteq 1..n \ held
    /\ wp' \in ReaderProxies(n)
    /\ wp'.matched = p.matched /\ wp'.joined = p.joined
    /\ world.reliable => wp'.acked = p.acked
    /\ beats' \in Seq(Beats(n))
    /\ \A i \in DOMAIN beats' :
        \/ \E j \in DOMAIN beats : beats'[i] = beats[j]
        \/ beats'[i].first <= beats'[i].last + 1 /\ \A m \in held : beats'[i].first <= m

\* `produce` does just that.
LEMMA ProduceStep ==
    ASSUME TypeOK, NEW n \in Nat, last <= n, NEW p \in ReaderProxies(n),
           NEW held \in SUBSET (1..n), NEW due \in BOOLEAN, Produce(p, held, n, due)
    PROVE  Produced(p, held, n)
<1> DEFINE chosen == IF p.matched THEN Chosen(p, n) ELSE {}
           sendable == chosen \cap held
           missing == chosen \ held
<1>1. chosen \subseteq 1..n
    BY ChosenIsWritten
<1>2. sendable \subseteq 1..n /\ missing \subseteq 1..n \ held
    BY <1>1
<1>3. /\ data' = data \cup sendable
      /\ gaps' = IF world.reliable /\ missing # {} THEN gaps \cup {GapFor(missing)} ELSE gaps
      /\ wp' = IF world.reliable THEN Recorded(p, sendable, missing)
               ELSE Assumed(Recorded(p, sendable, missing))
      /\ beats' = IF due /\ world.reliable /\ p.matched
                  THEN Sent(beats, Heartbeat(wp', held, n), world.inflight) ELSE beats
    BY DEF Produce
<1> HIDE DEF sendable, missing
<1>4. /\ wp' \in ReaderProxies(n)
      /\ wp'.matched = p.matched /\ wp'.joined = p.joined
      /\ world.reliable => wp'.acked = p.acked
  <2> DEFINE q == Recorded(p, sendable, missing)
  <2>1. sendable \in SUBSET (1..n)
      BY <1>2
  <2>2. q \in ReaderProxies(n) /\ q.matched = p.matched /\ q.joined = p.joined
        /\ q.acked = p.acked
      BY <2>1, RecordedType
  <2> HIDE DEF q
  <2>3. CASE world.reliable
      BY <1>3, <2>2, <2>3 DEF q
  <2>4. CASE ~world.reliable
    <3>1. wp' = [q EXCEPT !.acked = Larger(q.acked, q.sent)]
        BY <1>3, <2>4 DEF q, Assumed
    <3> QED
        BY <3>1, <2>2, <2>4 DEF ReaderProxies, Larger
  <2> QED
      BY <2>3, <2>4
<1>5. GapFor(missing) \subseteq missing
    BY DEF GapFor
<1>6. \A gap \in gaps' : gap \in gaps \/ gap \subseteq 1..n \ held
    BY Zenon, <1>2, <1>3, <1>5
<1>7. data' \subseteq data \cup held
    BY <1>3 DEF sendable
<1> DEFINE beat == Heartbeat(wp', held, n)
<1>8. beat \in Beats(n) /\ beat.first <= beat.last + 1 /\ \A m \in held : beat.first <= m
  <2>1. (wp'.acked >= n) \in BOOLEAN
      BY <1>4 DEF ReaderProxies
  <2>2. n \in 0..n
      OBVIOUS
  <2>3. beat.first = FirstAvailable(held, n) /\ beat.last = n
      BY DEF Heartbeat
  <2>4. beat.first \in 1..n + 1 /\ \A m \in held : beat.first <= m
    <3>1. n \in Nat /\ held \subseteq 1..n
        OBVIOUS
    <3>2. FirstAvailable(held, n) \in 1..n + 1 /\ \A m \in held : FirstAvailable(held, n) <= m
        BY ONLY <3>1, FirstAvailableIsLeast
    <3> QED
        BY ONLY Zenon, <2>3, <3>2
  <2> QED
      BY <2>1, <2>2, <2>3, <2>4 DEF Heartbeat, Beats
<1>9. beats \in Seq(Beats(n))
  <2>1. beats \in Seq(Beats(last)) /\ last \in Nat
      BY RtpsAssumption DEF TypeOK, World
  <2> QED
      BY <2>1, MessagesMonotone, SeqMonotone
<1> HIDE DEF beat
<1>10. CASE due /\ world.reliable /\ p.matched
  <2>1. beats' = Sent(beats, beat, world.inflight)
      BY <1>3, <1>10 DEF beat
  <2>2. /\ Sent(beats, beat, world.inflight) \in Seq(Beats(n))
        /\ AllFrom(Sent(beats, beat, world.inflight), beats, beat)
    <3>1. PICK k \in Nat : k = world.inflight
        BY RtpsAssumption DEF TypeOK, World
    <3>2. Sent(beats, beat, k) \in Seq(Beats(n)) /\ AllFrom(Sent(beats, beat, k), beats, beat)
        BY ONLY Zenon, <1>8, <1>9, SentFrom
    <3> QED
        BY <3>1, <3>2
  <2> QED
      BY ZenonT(60), <2>1, <2>2, <1>4, <1>6, <1>7, <1>8, Zenon DEF AllFrom, Produced
<1>11. CASE ~(due /\ world.reliable /\ p.matched)
  <2>1. beats' = beats
      BY <1>3, <1>11
  <2> QED
      BY <2>1, <1>4, <1>6, <1>7, <1>9 DEF Produced
<1> QED
    BY <1>10, <1>11

-----------------------------------------------------------------------------
(* The inductive invariant.                                                   *)

\* A GAP in flight names only numbers that are gone.
GapsHonest == \A gap \in gaps : \A n \in gap : Gone(n)

\* Everything below the first number of a heartbeat in flight is gone.
BeatsHonest ==
    \A i \in DOMAIN beats :
        /\ beats[i].first <= beats[i].last + 1
        /\ \A n \in 1..last : n < beats[i].first => Gone(n)

\* An ACKNACK in flight acknowledges no more than the reader does now.
AcksHonest == \A i \in DOMAIN acks : acks[i].base - 1 <= rp.acked

\* Whatever is marked received was delivered; whatever was delivered, once, is
\* marked received or is below the watermark.
Counted ==
    /\ \A n \in rp.received : delivered[n] > 0
    /\ \A n \in DOMAIN delivered :
        delivered[n] <= 1 /\ (delivered[n] > 0 => n <= rp.acked \/ n \in rp.received)
    /\ ~world.reliable => rp.received = {}

\* NothingLost, with the unmatched reader included.
Held ==
    (world.reliable /\ world.depth = KeepAll /\ world.removals = 0) =>
        \A n \in 1..last : n > wp.joined => n \in cache \/ delivered[n] > 0

Inductive ==
    /\ TypeOK /\ GapsHonest /\ BeatsHonest /\ AcksHonest
    /\ Counted /\ NothingSkipped /\ AckIsHonest /\ Held

-----------------------------------------------------------------------------
(* The writer's steps.                                                        *)

\* The invariant survives whatever the writer does to its history and its proxy
\* before `produce`, as long as it takes nothing for acknowledged that is not.
LEMMA ProduceKeeps ==
    ASSUME Inductive, NEW p \in ReaderProxies(last'), NEW due \in BOOLEAN,
           Produce(p, cache', last', due),
           UNCHANGED <<world, reader>>,
           last' \in last..last + 1, last' <= world.writes, removed' \in 0..world.removals,
           cache' \subseteq cache \cup {last + 1}, cache' \subseteq 1..last',
           acks' \in Seq(Acks(last')),
           \A i \in DOMAIN acks' : \E j \in DOMAIN acks : acks'[i] = acks[j],
           p.joined = wp.joined,
           world.reliable =>
             \A n \in 1..p.acked : n <= p.joined \/ delivered[n] > 0 \/ Gone(n),
           (world.reliable /\ world.depth = KeepAll /\ world.removals = 0) =>
             cache \cup (last + 1 .. last') \subseteq cache'
    PROVE  Inductive'
<1> USE DEF Inductive
<1>1. /\ world \in World /\ world.writes \in Nat /\ last \in Nat /\ last' \in Nat /\ last <= last'
      /\ world' = world /\ rp' = rp /\ delivered' = delivered
    BY RtpsAssumption, SMTT(60) DEF TypeOK, World, reader
<1>2. \A n \in Nat : Gone(n) => Gone(n)'
    BY <1>1 DEF Gone
<1>3. Produced(p, cache', last')
  <2>1. cache' \in SUBSET (1..last') /\ TypeOK
      OBVIOUS
  <2> QED
      BY <1>1, <2>1, ProduceStep
<1>4. TypeOK'
  <2>1. data' \subseteq 1..last'
      BY SMTT(60), <1>1, <1>3 DEF TypeOK, Produced
  <2>2. gaps' \subseteq SUBSET (1..last')
    <3>1. \A gap \in gaps : gap \subseteq 1..last'
        BY <1>1 DEF TypeOK
    <3> QED
        BY <3>1, <1>3 DEF Produced
  <2>3. rp' \in WriterProxies(last')
      BY Zenon, <1>1, MessagesMonotone DEF TypeOK
  <2> QED
      BY SMTT(60), <1>1, <1>3, <2>1, <2>2, <2>3 DEF TypeOK, Produced, Numbers
<1>5. GapsHonest'
  <2>1. \A gap \in gaps : \A n \in gap : n \in Nat
      BY <1>1 DEF TypeOK
  <2> QED
      BY <1>1, <1>2, <1>3, <2>1 DEF GapsHonest, Produced, Gone
<1>6. BeatsHonest'
  <2> SUFFICES ASSUME NEW i \in DOMAIN beats'
               PROVE  /\ beats'[i].first <= beats'[i].last + 1
                      /\ \A n \in 1..last' : n < beats'[i].first => Gone(n)'
      BY DEF BeatsHonest
  <2>1. CASE \E j \in DOMAIN beats : beats'[i] = beats[j]
    <3>1. PICK j \in DOMAIN beats : beats'[i] = beats[j]
        BY <2>1
    <3>2. beats[j] \in Beats(last)
        BY DEF TypeOK
    <3>3. beats[j].first <= last + 1 /\ beats[j].first \in Nat
        BY <1>1, <3>2 DEF Beats
    <3>4. \A n \in 1..last' : n < beats[j].first => n \in 1..last
        BY <1>1, <3>3
    <3> QED
        BY SMTT(60), <3>1, <3>4, <1>1, <1>2 DEF BeatsHonest
  <2>2. CASE beats'[i].first <= beats'[i].last + 1 /\ \A m \in cache' : beats'[i].first <= m
    <3>1. beats'[i] \in Beats(last')
        BY <1>3 DEF Produced
    <3>2. beats'[i].first \in Nat
        BY SMTT(60), <1>1, <3>1 DEF Beats
    <3>3. \A n \in 1..last' : n < beats'[i].first => n \notin cache'
        BY <1>1, <2>2, <3>2
    <3> QED
        BY SMTT(60), <2>2, <3>3, <1>1 DEF Gone
  <2> QED
      BY <2>1, <2>2, <1>3 DEF Produced
<1>7. AcksHonest'
    BY <1>1 DEF AcksHonest
<1>8. Counted'
    BY <1>1 DEF Counted
<1>9. NothingSkipped'
  <2>1. \A n \in 1..rp.acked \cup rp.irrelevant : n \in Nat
      BY SMTT(60), <1>1 DEF TypeOK, WriterProxies
  <2> QED
      BY <1>1, <1>2, <2>1 DEF NothingSkipped
<1>10. AckIsHonest'
  <2>1. \A n \in 1..p.acked : n \in Nat
      BY SMTT(60), <1>1 DEF ReaderProxies
  <2> QED
      BY ZenonT(60), <1>1, <1>2, <1>3, <2>1 DEF AckIsHonest, Produced
<1>11. Held'
    BY <1>1, <1>3 DEF Held, Produced
<1> QED
    BY ZenonT(60), <1>4, <1>5, <1>6, <1>7, <1>8, <1>9, <1>10, <1>11

\* The invariant survives a change of the history or of the writer's proxy that
\* sends nothing.
LEMMA QuietKeeps ==
    ASSUME Inductive, UNCHANGED <<world, last, network, reader>>,
           cache' \subseteq cache, removed' \in 0..world.removals,
           wp' \in ReaderProxies(last), Held',
           world.reliable =>
             \A n \in 1..wp'.acked : n <= wp'.joined \/ delivered[n] > 0 \/ Gone(n)
    PROVE  Inductive'
<1> USE DEF Inductive
<1>1. /\ world' = world /\ last' = last /\ rp' = rp /\ delivered' = delivered
      /\ data' = data /\ gaps' = gaps /\ beats' = beats /\ acks' = acks
    BY DEF network, reader
<1>2. \A n : Gone(n) => Gone(n)'
    BY <1>1 DEF Gone
<1>3. TypeOK'
    BY <1>1 DEF TypeOK, Numbers
<1>4. GapsHonest' /\ BeatsHonest' /\ AcksHonest'
    BY <1>1, <1>2 DEF GapsHonest, BeatsHonest, AcksHonest
<1>5. Counted' /\ NothingSkipped'
    BY <1>1, <1>2 DEF Counted, NothingSkipped
<1>6. AckIsHonest'
    BY <1>1, <1>2 DEF AckIsHonest
<1> QED
    BY <1>3, <1>4, <1>5, <1>6

\* Matching a reader keeps the invariant: what it counts as acknowledged it never wanted.
LEMMA MatchReaderKeeps == ASSUME Inductive, MatchReader PROVE Inductive'
<1> USE DEF Inductive, MatchReader
<1>1. last \in Nat
    BY RtpsAssumption DEF TypeOK, World
<1>2. /\ wp' \in ReaderProxies(last)
      /\ \/ wp'.acked = wp.acked /\ wp'.joined = wp.joined
         \/ wp'.acked = last /\ wp'.joined = last
  <2>1. wp \in ReaderProxies(last) /\ last \in 0..last
      BY <1>1 DEF TypeOK
  <2>2. CASE world.durable /\ world.wants
    <3>1. wp' = [wp EXCEPT !.matched = TRUE]
        BY <2>2
    <3> QED
        BY ONLY Zenon, <2>1, <3>1 DEF ReaderProxies
  <2>3. CASE ~(world.durable /\ world.wants)
    <3>1. wp' = [wp EXCEPT !.matched = TRUE, !.acked = last, !.sent = last, !.joined = last]
        BY <2>3
    <3> QED
        BY ONLY Zenon, <2>1, <3>1 DEF ReaderProxies
  <2> QED
      BY <2>2, <2>3
<1>3. UNCHANGED <<world, last, network, reader>> /\ cache' = cache /\ removed' = removed
    BY DEF network, reader
<1>4. Held'
    BY <1>1, <1>2, <1>3 DEF Held, reader
<1>5. world.reliable =>
        \A n \in 1..wp'.acked : n <= wp'.joined \/ delivered[n] > 0 \/ Gone(n)
    BY <1>1, <1>2 DEF AckIsHonest
<1>6. removed' \in 0..world.removals
    BY <1>3 DEF TypeOK
<1> HIDE DEF Inductive, MatchReader
<1> QED
    BY ZenonT(60), <1>2, <1>3, <1>4, <1>5, <1>6, QuietKeeps

\* `forget` keeps it.
LEMMA ForgetKeeps == ASSUME Inductive, NEW n \in cache, Forget(n) PROVE Inductive'
<1> USE DEF Inductive, Forget
<1>1. UNCHANGED <<world, last, network, reader>> /\ wp' = wp /\ cache' \subseteq cache
    OBVIOUS
<1>2. world.removals \in Nat /\ world.removals # 0 /\ removed' \in 0..world.removals
    BY SMTT(60), RtpsAssumption DEF TypeOK, World
<1>3. Held'
    BY <1>1, <1>2 DEF Held
<1>4. wp' \in ReaderProxies(last)
    BY <1>1 DEF TypeOK
<1>5. world.reliable =>
        \A m \in 1..wp'.acked : m <= wp'.joined \/ delivered[m] > 0 \/ Gone(m)
    BY <1>1 DEF AckIsHonest
<1> HIDE DEF Inductive, Forget
<1> QED
    BY <1>1, <1>2, <1>3, <1>4, <1>5, QuietKeeps

\* `reclaim` keeps it: what it drops has been delivered.
LEMMA ReclaimKeeps == ASSUME Inductive, Reclaim PROVE Inductive'
<1> USE DEF Inductive, Reclaim
<1>1. UNCHANGED <<world, last, network, reader>> /\ wp' = wp /\ cache' \subseteq cache
    OBVIOUS
<1>2. last \in Nat /\ wp.acked \in 0..last /\ wp.joined \in 0..last
    BY RtpsAssumption DEF TypeOK, World, ReaderProxies
<1>3. Held'
  <2>1. \A n \in 1..last : n \in cache => n \in cache' \/ n \in 1..wp.acked
      BY <1>2
  <2>2. \A n \in 1..wp.acked : n <= wp.joined \/ delivered[n] > 0 \/ n \notin cache
      BY DEF AckIsHonest, Gone
  <2> QED
      BY <1>1, <1>2, <2>1, <2>2 DEF Held, reader
<1>4. wp' \in ReaderProxies(last) /\ removed' \in 0..world.removals
    BY <1>1 DEF TypeOK
<1>5. world.reliable =>
        \A m \in 1..wp'.acked : m <= wp'.joined \/ delivered[m] > 0 \/ Gone(m)
    BY <1>1 DEF AckIsHonest
<1> HIDE DEF Inductive, Reclaim
<1> QED
    BY <1>1, <1>3, <1>4, <1>5, QuietKeeps

\* What is in force when the writer's proxy is as it was before a step.
LEMMA ProxyIsHonest ==
    ASSUME Inductive
    PROVE  /\ last \in Nat /\ last <= world.writes /\ world.writes \in Nat
           /\ world.removals \in Nat /\ removed \in 0..world.removals
           /\ cache \subseteq 1..last
           /\ wp \in ReaderProxies(last)
           /\ acks \in Seq(Acks(last))
           /\ world.reliable =>
                \A n \in 1..wp.acked : n <= wp.joined \/ delivered[n] > 0 \/ Gone(n)
    BY SMTT(60), RtpsAssumption DEF Inductive, TypeOK, World, AckIsHonest

\* A write keeps it.
LEMMA WriteKeeps ==
    ASSUME Inductive, NEW due \in BOOLEAN, Write(due) PROVE Inductive'
<1> USE DEF Write
<1>1. last \in Nat /\ last' = last + 1 /\ last' <= world.writes
    BY ProxyIsHonest
<1>2. wp \in ReaderProxies(last') /\ acks' \in Seq(Acks(last'))
    BY <1>1, ProxyIsHonest, MessagesMonotone, SeqMonotone
<1>3. cache' \subseteq cache \cup {last + 1}
    BY DEF Inserted, Highest
<1>4. cache' \subseteq 1..last'
    BY <1>1, <1>3, ProxyIsHonest
<1>5. (world.reliable /\ world.depth = KeepAll /\ world.removals = 0) =>
        cache \cup (last + 1 .. last') \subseteq cache'
    BY <1>1 DEF Inserted
<1>6. /\ last' \in last..last + 1 /\ removed' \in 0..world.removals
      /\ UNCHANGED <<world, reader>> /\ acks' = acks
    BY <1>1, ProxyIsHonest
<1>7. \A i \in DOMAIN acks' : \E j \in DOMAIN acks : acks'[i] = acks[j]
    BY <1>6
<1>8. Produce(wp, cache', last', due)
    BY <1>1
<1> QED
    BY <1>1, <1>2, <1>3, <1>4, <1>5, <1>6, <1>7, <1>8, ProxyIsHonest, ProduceKeeps

\* A tick keeps it.
LEMMA CadenceKeeps ==
    ASSUME Inductive, NEW due \in BOOLEAN, Cadence(due) PROVE Inductive'
<1> USE DEF Cadence
<1>1. last \in Nat /\ last' = last /\ last' <= world.writes /\ cache' = cache
    BY ProxyIsHonest
<1>2. wp \in ReaderProxies(last') /\ acks' \in Seq(Acks(last'))
    BY <1>1, ProxyIsHonest
<1>3. cache' \subseteq cache \cup {last + 1} /\ cache' \subseteq 1..last'
    BY <1>1, ProxyIsHonest
<1>4. cache \cup (last + 1 .. last') \subseteq cache'
    BY <1>1
<1>5. /\ last' \in last..last + 1 /\ removed' \in 0..world.removals
      /\ UNCHANGED <<world, reader>> /\ acks' = acks
    BY <1>1, ProxyIsHonest
<1>6. \A i \in DOMAIN acks' : \E j \in DOMAIN acks : acks'[i] = acks[j]
    BY <1>5
<1>7. Produce(wp, cache', last', due)
    BY <1>1
<1> QED
    BY ZenonT(60), <1>1, <1>2, <1>3, <1>4, <1>5, <1>6, <1>7, ProxyIsHonest, ProduceKeeps

\* A lifespan that runs out keeps it.
LEMMA ExpireKeeps ==
    ASSUME Inductive, NEW oldest \in cache, NEW due \in BOOLEAN, Expire(oldest, due)
    PROVE  Inductive'
<1> USE DEF Expire
<1>1. last \in Nat /\ last' = last /\ last' <= world.writes /\ cache' \subseteq cache
    BY ProxyIsHonest
<1>2. wp \in ReaderProxies(last') /\ acks' \in Seq(Acks(last'))
    BY <1>1, ProxyIsHonest
<1>3. cache' \subseteq cache \cup {last + 1} /\ cache' \subseteq 1..last'
    BY <1>1, ProxyIsHonest
<1>4. world.removals # 0 /\ removed' \in 0..world.removals
    BY ProxyIsHonest
<1>5. last' \in last..last + 1 /\ UNCHANGED <<world, reader>> /\ acks' = acks
    BY <1>1
<1>6. \A i \in DOMAIN acks' : \E j \in DOMAIN acks : acks'[i] = acks[j]
    BY <1>5
<1>7. Produce(wp, cache', last', due)
    BY <1>1
<1> QED
    BY ZenonT(60), <1>1, <1>2, <1>3, <1>4, <1>5, <1>6, <1>7, ProxyIsHonest, ProduceKeeps

\* accept_acknack moves the watermark to where the ACKNACK says and no further.
LEMMA AcceptedType ==
    ASSUME NEW n \in Nat, NEW p \in ReaderProxies(n), NEW ack \in Acks(n), NEW first
    PROVE  /\ Accepted(p, ack, first) \in ReaderProxies(n)
           /\ Accepted(p, ack, first).joined = p.joined
           /\ \/ Accepted(p, ack, first).acked = p.acked
              \/ Accepted(p, ack, first).acked = ack.base - 1
<1> DEFINE acked == Larger(p.acked, ack.base - 1)
           kept == {m \in p.requested : m > acked}
           asked == Lowest({m \in ack.missing : m > acked} \ kept,
                           MaxRequested - Cardinality(kept))
           requested == {m \in kept \cup asked : m >= first}
<1>1. p.acked \in 0..n /\ ack.base - 1 \in 0..n
    BY DEF ReaderProxies, Acks
<1>2. acked \in 0..n /\ (acked = p.acked \/ acked = ack.base - 1)
    BY <1>1 DEF Larger
<1>3. kept \subseteq 1..n
    BY DEF ReaderProxies
<1>4. asked \subseteq ack.missing
    BY DEF Lowest
<1>5. ack.missing \subseteq 1..n
    BY DEF Acks
<1>6. requested \in SUBSET (1..n)
    BY <1>3, <1>4, <1>5
<1>7. Accepted(p, ack, first) = [p EXCEPT !.acked = acked, !.requested = requested]
    BY DEF Accepted
<1> HIDE DEF acked, kept, asked, requested
<1> QED
    BY Zenon, <1>2, <1>6, <1>7 DEF ReaderProxies

\* An ACKNACK, however late, keeps it.
LEMMA OnAckNackKeeps ==
    ASSUME Inductive, NEW i \in DOMAIN acks, NEW due \in BOOLEAN, OnAckNack(i, due)
    PROVE  Inductive'
<1> USE DEF OnAckNack
<1> DEFINE p == Accepted(wp, acks[i], FirstAvailable(cache, last))
<1>1. last \in Nat /\ last' = last /\ last' <= world.writes /\ cache' = cache
    BY ProxyIsHonest
<1>2. acks[i] \in Acks(last) /\ wp \in ReaderProxies(last)
    BY SMTT(60), ProxyIsHonest
<1>3. /\ p \in ReaderProxies(last') /\ p.joined = wp.joined
      /\ p.acked = wp.acked \/ p.acked = acks[i].base - 1
    BY <1>1, <1>2, AcceptedType
<1>4. acks' \in Seq(Acks(last')) /\ AllOf(acks', acks)
    BY <1>1, ProxyIsHonest, BehindIsOf
<1>5. \A k \in DOMAIN acks' : \E j \in DOMAIN acks : acks'[k] = acks[j]
    BY <1>4 DEF AllOf
<1>6. Produce(p, cache', last', due)
    BY ZenonT(60), <1>1
<1> HIDE DEF p
<1>7. world.reliable =>
        \A n \in 1..p.acked : n <= p.joined \/ delivered[n] > 0 \/ Gone(n)
  <2>1. CASE p.acked = wp.acked
      BY <1>3, <2>1, ProxyIsHonest
  <2>2. CASE p.acked = acks[i].base - 1
    <3>1. p.acked <= rp.acked /\ rp.acked \in Nat /\ p.acked \in Nat
        BY SMTT(60), <1>1, <1>3, <2>2 DEF Inductive, AcksHonest, TypeOK, WriterProxies, ReaderProxies
    <3>2. \A n \in 1..p.acked : n \in 1..rp.acked
        BY <3>1
    <3> QED
        BY <3>2 DEF Inductive, NothingSkipped
  <2> QED
      BY ZenonT(60), <1>3, <2>1, <2>2
<1>8. /\ last' \in last..last + 1 /\ removed' \in 0..world.removals
      /\ UNCHANGED <<world, reader>>
    BY <1>1, ProxyIsHonest
<1>9. cache' \subseteq cache \cup {last + 1} /\ cache' \subseteq 1..last'
    BY <1>1, ProxyIsHonest
<1>10. cache \cup (last + 1 .. last') \subseteq cache'
    BY <1>1
<1> HIDE DEF OnAckNack
<1> QED
    BY ZenonT(60), <1>1, <1>3, <1>4, <1>5, <1>6, <1>7, <1>8, <1>9, <1>10, ProduceKeeps

-----------------------------------------------------------------------------
(* The reader's steps.                                                        *)

\* What `advance` does to the proxy p: the watermark moves only over numbers that
\* are received or irrelevant.
Advanced(p) ==
    /\ rp' \in WriterProxies(last) /\ rp'.acked <= rp'.last /\ p.acked <= rp'.acked
    /\ rp'.received = {n \in p.received : n > rp'.acked}
    /\ rp'.irrelevant \subseteq p.irrelevant
    /\ \A n \in 1..rp'.acked : n <= p.acked \/ n \in p.received \cup p.irrelevant

\* `advance` does just that.
LEMMA AdvanceStep ==
    ASSUME last \in Nat, NEW p \in WriterProxies(last), p.acked <= p.last, Advance(p)
    PROVE  Advanced(p)
<1>1. PICK a \in p.acked..p.last :
        /\ p.acked + 1 .. a \subseteq p.received \cup p.irrelevant
        /\ rp' = [p EXCEPT !.acked = a,
                           !.received = {n \in @ : n > a},
                           !.irrelevant = {n \in @ : n \in p.received \/ n \notin p.acked + 1 .. a}]
    BY Zenon DEF Advance
<1>2. p.acked \in 0..last /\ p.last \in 0..last
    BY DEF WriterProxies
<1>3. a \in 0..last /\ p.acked <= a /\ a <= p.last
    BY <1>2
<1>4. /\ rp'.acked = a /\ rp'.received = {n \in p.received : n > a}
      /\ rp'.irrelevant \subseteq p.irrelevant /\ rp'.last = p.last
    BY ZenonT(60), <1>1 DEF WriterProxies
<1>5. rp' \in WriterProxies(last)
    BY Zenon, <1>1, <1>3 DEF WriterProxies
<1>6. \A n \in 1..a : n <= p.acked \/ n \in p.received \cup p.irrelevant
    BY SMTT(60), <1>1, <1>2, <1>3
<1> QED
    BY ZenonT(60), <1>3, <1>4, <1>5, <1>6 DEF Advanced

\* The invariant survives a step of the reader that marks received only what it has
\* delivered and passes over only what it has delivered or is gone.
LEMMA AdvancedKeeps ==
    ASSUME Inductive, NEW p \in WriterProxies(last), Advanced(p),
           UNCHANGED <<world, writer, data, gaps>>,
           delivered' \in [Numbers -> Nat],
           \A n \in Numbers : delivered[n] > 0 => delivered'[n] > 0,
           \A n \in p.received : delivered'[n] > 0,
           \A n \in Numbers :
             delivered'[n] <= 1 /\ (delivered'[n] > 0 => n <= p.acked \/ n \in p.received),
           ~world.reliable => p.received = {},
           world.reliable =>
             \A n \in 1..p.acked \cup p.irrelevant : delivered'[n] > 0 \/ Gone(n),
           beats' \in Seq(Beats(last)), AllOf(beats', beats),
           acks' \in Seq(Acks(last)), \A i \in DOMAIN acks' : acks'[i].base - 1 <= rp'.acked
    PROVE  Inductive'
<1> USE DEF Inductive
<1>1. /\ world' = world /\ last' = last /\ cache' = cache /\ removed' = removed /\ wp' = wp
      /\ data' = data /\ gaps' = gaps
    BY ZenonT(60) DEF writer
<1>2. /\ last \in Nat /\ last <= world.writes /\ world.writes \in Nat
      /\ Numbers = 1..world.writes /\ Numbers' = Numbers
    BY <1>1, ProxyIsHonest DEF Numbers
<1>3. \A n : Gone(n)' <=> Gone(n)
    BY ZenonT(60), <1>1 DEF Gone
<1>4. TypeOK'
    BY ZenonT(60), <1>1, <1>2 DEF TypeOK, Advanced
<1>5. GapsHonest' /\ BeatsHonest' /\ AcksHonest'
    BY <1>1, <1>3 DEF GapsHonest, BeatsHonest, AcksHonest, AllOf
<1>6. rp'.acked \in 0..last /\ p.acked \in 0..last /\ p.acked <= rp'.acked
      /\ p.received \subseteq 1..last /\ p.irrelevant \subseteq 1..last
    BY ZenonT(60), <1>2 DEF Advanced, WriterProxies
<1>7. Counted'
  <2>1. DOMAIN delivered' = Numbers
      BY ZenonT(60)
  <2>2. \A n \in Numbers : (n <= p.acked \/ n \in p.received) => n <= rp'.acked \/ n \in rp'.received
      BY SMTT(60), <1>2, <1>6 DEF Advanced
  <2> QED
      BY ZenonT(60), <1>1, <2>1, <2>2 DEF Counted, Advanced
<1>8. NothingSkipped'
  <2> SUFFICES ASSUME world.reliable, NEW n \in 1..rp'.acked \cup rp'.irrelevant
               PROVE  delivered'[n] > 0 \/ Gone(n)
      BY ZenonT(60), <1>1, <1>3 DEF NothingSkipped
  <2>1. n \in 1..p.acked \/ n \in p.received \/ n \in p.irrelevant
      BY SMTT(60), <1>2, <1>6 DEF Advanced
  <2> QED
      BY ZenonT(60), <2>1
<1>9. AckIsHonest'
  <2>1. \A n \in 1..wp.acked : n \in Numbers
      BY SMTT(60), <1>2 DEF TypeOK, ReaderProxies
  <2> QED
      BY ZenonT(60), <1>1, <1>3, <2>1 DEF AckIsHonest
<1>10. Held'
  <2>1. \A n \in 1..last : n \in Numbers
      BY <1>2
  <2> QED
      BY ZenonT(60), <1>1, <2>1 DEF Held
<1> QED
    BY ZenonT(60), <1>4, <1>5, <1>7, <1>8, <1>9, <1>10

\* What is in force when the reader's proxy is as it was before a step.
ReaderFacts ==
    /\ last \in Nat /\ last <= world.writes /\ world.writes \in Nat
    /\ Numbers = 1..world.writes /\ world.inflight \in Nat
    /\ rp \in WriterProxies(last) /\ rp.acked <= rp.last
    /\ rp.acked \in 0..last /\ rp.last \in 0..last
    /\ rp.received \subseteq 1..last /\ rp.irrelevant \subseteq 1..last
    /\ beats \in Seq(Beats(last)) /\ acks \in Seq(Acks(last))
    /\ delivered \in [Numbers -> Nat]
    /\ \A n \in rp.received : delivered[n] > 0
    /\ \A n \in Numbers :
        delivered[n] <= 1 /\ (delivered[n] > 0 => n <= rp.acked \/ n \in rp.received)
    /\ ~world.reliable => rp.received = {}

\* The invariant has them.
LEMMA ReaderIsHonest == ASSUME Inductive PROVE ReaderFacts
<1>1. /\ world \in World /\ last \in 0..world.writes /\ rp \in WriterProxies(last)
      /\ rp.acked <= rp.last
      /\ beats \in Seq(Beats(last)) /\ acks \in Seq(Acks(last))
      /\ delivered \in [Numbers -> Nat]
    BY RtpsAssumption DEF Inductive, TypeOK
<1>2. world.writes \in Nat /\ world.inflight \in Nat
    BY <1>1 DEF World
<1>3. /\ rp.acked \in 0..last /\ rp.last \in 0..last
      /\ rp.received \subseteq 1..last /\ rp.irrelevant \subseteq 1..last
    BY <1>1 DEF WriterProxies
<1>4. /\ \A n \in rp.received : delivered[n] > 0
      /\ \A n \in Numbers :
            delivered[n] <= 1 /\ (delivered[n] > 0 => n <= rp.acked \/ n \in rp.received)
      /\ ~world.reliable => rp.received = {}
  <2>1. DOMAIN delivered = Numbers
      BY <1>1
  <2> QED
      BY <2>1 DEF Inductive, Counted
<1> QED
    BY SMTT(60), <1>1, <1>2, <1>3, <1>4 DEF Numbers, ReaderFacts

\* No ACKNACK in flight overtakes a watermark that only rises.
LEMMA AcksStayHonest ==
    ASSUME Inductive, NEW acked \in Nat, rp.acked <= acked
    PROVE  \A i \in DOMAIN acks : acks[i].base - 1 <= acked
<1>1. rp.acked \in Nat /\ last \in Nat /\ acks \in Seq(Acks(last))
    BY ReaderIsHonest DEF ReaderFacts
<1>2. \A i \in DOMAIN acks : acks[i] \in Acks(last)
    BY <1>1
<1>3. \A i \in DOMAIN acks : acks[i].base \in Nat
    BY <1>1, <1>2 DEF Acks
<1> QED
    BY SMTT(60), <1>1, <1>3 DEF Inductive, AcksHonest

\* A queue is made of its own messages.
LEMMA AllOfItself == ASSUME NEW queue PROVE AllOf(queue, queue)
    BY DEF AllOf

\* Matching a writer keeps the invariant.
LEMMA MatchWriterKeeps == ASSUME Inductive, MatchWriter PROVE Inductive'
<1>1. UNCHANGED <<world, writer, data, gaps, beats, acks, delivered>>
    BY DEF MatchWriter, network
<1>2. rp' = [rp EXCEPT !.matched = TRUE]
    BY DEF MatchWriter
<1>3. /\ rp' \in WriterProxies(last) /\ rp'.acked = rp.acked /\ rp'.last = rp.last
      /\ rp'.received = rp.received /\ rp'.irrelevant = rp.irrelevant
    BY Zenon, <1>2, ReaderIsHonest DEF WriterProxies, ReaderFacts
<1>4. /\ world' = world /\ last' = last /\ cache' = cache /\ removed' = removed /\ wp' = wp
      /\ data' = data /\ gaps' = gaps /\ beats' = beats /\ acks' = acks
      /\ delivered' = delivered
    BY <1>1 DEF writer
<1>5. \A n : Gone(n)' <=> Gone(n)
    BY <1>4 DEF Gone
<1>6. TypeOK'
    BY ZenonT(60), <1>3, <1>4, ReaderIsHonest DEF Inductive, TypeOK, Numbers, ReaderFacts
<1>7. GapsHonest' /\ BeatsHonest' /\ AcksHonest' /\ Counted'
    BY ZenonT(60), <1>3, <1>4, <1>5 DEF Inductive, GapsHonest, BeatsHonest, AcksHonest, Counted
<1>8. NothingSkipped' /\ AckIsHonest' /\ Held'
    BY <1>3, <1>4, <1>5 DEF Inductive, NothingSkipped, AckIsHonest, Held
<1> QED
    BY <1>6, <1>7, <1>8 DEF Inductive

\* A DATA, repeated or out of order, keeps it.
LEMMA OnDataKeeps == ASSUME Inductive, NEW n \in data, OnData(n) PROVE Inductive'
<1>0. ReaderFacts
    BY ReaderIsHonest
<1> USE DEF ReaderFacts
<1> DEFINE p == IF world.reliable
                THEN [rp EXCEPT !.received = @ \cup {n}, !.last = Larger(@, n)]
                ELSE [rp EXCEPT !.acked = n, !.last = Larger(@, n)]
<1>1. n \in 1..last /\ n \in Numbers /\ n > rp.acked /\ n \notin rp.received
  <2>1. n \in 1..last /\ n > rp.acked
      BY DEF OnData, Fresh, Inductive, TypeOK
  <2>2. n \notin rp.received
      BY ZenonT(60), <1>0 DEF OnData, Fresh
  <2> QED
      BY <2>1, <2>2, <1>0
<1>2. Larger(rp.last, n) \in 0..last /\ n <= Larger(rp.last, n) /\ rp.last <= Larger(rp.last, n)
    BY <1>1, <1>0 DEF Larger
<1>3. UNCHANGED <<world, writer, data, gaps, beats, acks>>
    BY DEF OnData, network
<1>4. delivered[n] = 0 /\ delivered' = [delivered EXCEPT ![n] = 1]
  <2>1. delivered[n] \in Nat /\ ~(delivered[n] > 0)
      BY <1>1, <1>0, SMTT(60)
  <2>2. delivered[n] = 0 /\ delivered[n] + 1 = 1
      BY <2>1
  <2> QED
      BY <2>2 DEF OnData
<1>5. /\ delivered' \in [Numbers -> Nat] /\ delivered'[n] = 1
      /\ \A m \in Numbers : m # n => delivered'[m] = delivered[m]
    BY <1>1, <1>4, <1>0
<1>6. /\ \A m \in Numbers : delivered[m] > 0 => delivered'[m] > 0
      /\ \A m \in Numbers : delivered'[m] <= 1
  <2>1. ASSUME NEW m \in Numbers
        PROVE  (delivered[m] > 0 => delivered'[m] > 0) /\ delivered'[m] <= 1
    <3>1. CASE m = n
        BY <1>5, <3>1
    <3>2. CASE m # n
        BY <1>0, <1>5, <3>2
    <3> QED
        BY <3>1, <3>2
  <2> QED
      BY <2>1
<1>7. /\ beats' \in Seq(Beats(last)) /\ AllOf(beats', beats)
      /\ acks' \in Seq(Acks(last)) /\ acks' = acks
    BY ZenonT(60), <1>3, <1>0, AllOfItself
<1>8. CASE world.reliable
  <2>1. /\ p \in WriterProxies(last) /\ p.acked <= p.last /\ p.acked = rp.acked
        /\ p.received = rp.received \cup {n} /\ p.irrelevant = rp.irrelevant
    <3> DEFINE newest == Larger(rp.last, n)
               received == rp.received \cup {n}
    <3>1. p = [rp EXCEPT !.received = received, !.last = newest]
        BY <1>8
    <3>2. received \in SUBSET (1..last) /\ newest \in 0..last /\ rp.acked <= newest
        BY <1>0, <1>1, <1>2
    <3>3. rp \in WriterProxies(last)
        BY <1>0
    <3> HIDE DEF p, newest
    <3> QED
        BY ONLY ZenonT(60), <3>1, <3>2, <3>3 DEF WriterProxies
  <2>2. Advance(p)
      BY ZenonT(60), <1>8 DEF OnData
  <2> HIDE DEF p
  <2>3. Advanced(p)
      BY ZenonT(60), <2>1, <2>2, AdvanceStep, <1>0
  <2>4. \A m \in p.received : delivered'[m] > 0
      BY SMTT(60), <1>5, <1>6, <2>1, <1>0
  <2>5. \A m \in Numbers :
            delivered'[m] <= 1 /\ (delivered'[m] > 0 => m <= p.acked \/ m \in p.received)
      BY ZenonT(60), <1>5, <1>6, <2>1, <1>0
  <2>6. \A m \in 1..p.acked \cup p.irrelevant : delivered'[m] > 0 \/ Gone(m)
    <3>1. \A m \in 1..p.acked \cup p.irrelevant : m \in Numbers
        BY <2>1, <1>0
    <3> QED
        BY ZenonT(60), <1>6, <1>8, <2>1, <3>1 DEF Inductive, NothingSkipped
  <2>7. \A i \in DOMAIN acks' : acks'[i].base - 1 <= rp'.acked
    <3>1. rp.acked <= rp'.acked /\ rp'.acked \in Nat
        BY SMTT(60), <2>1, <2>3, <1>0 DEF Advanced, WriterProxies
    <3> QED
        BY <1>7, <3>1, AcksStayHonest
  <2> QED
      BY ZenonT(60), <1>3, <1>5, <1>6, <1>7, <1>8, <2>1, <2>3, <2>4, <2>5, <2>6, <2>7, AdvancedKeeps
<1>9. CASE ~world.reliable
  <2>1. /\ p \in WriterProxies(last) /\ p.acked = n /\ p.last = Larger(rp.last, n)
        /\ p.received = {} /\ p.irrelevant = rp.irrelevant
    <3> DEFINE newest == Larger(rp.last, n)
    <3>1. p = [rp EXCEPT !.acked = n, !.last = newest]
        BY <1>9
    <3>2. n \in 0..last /\ newest \in 0..last /\ rp.received = {}
        BY SMTT(60), <1>0, <1>1, <1>2, <1>9
    <3>3. rp \in WriterProxies(last)
        BY <1>0
    <3> HIDE DEF p, newest
    <3>4. /\ p \in WriterProxies(last) /\ p.acked = n /\ p.last = newest
          /\ p.received = {} /\ p.irrelevant = rp.irrelevant
        BY ONLY ZenonT(60), <3>1, <3>2, <3>3 DEF WriterProxies
    <3> QED
        BY <3>4 DEF newest
  <2>2. rp' = p
      BY <1>9 DEF OnData
  <2> HIDE DEF p
  <2>3. Advanced(p)
    <3>1. rp' \in WriterProxies(last) /\ rp'.acked <= rp'.last /\ p.acked <= rp'.acked
        BY SMTT(60), <1>1, <1>2, <2>1, <2>2
    <3>2. \A m \in 1..rp'.acked : m <= p.acked
        BY SMTT(60), <1>1, <2>1, <2>2
    <3> QED
        BY <3>1, <3>2, <2>1, <2>2 DEF Advanced
  <2>4. \A m \in Numbers :
            delivered'[m] <= 1 /\ (delivered'[m] > 0 => m <= p.acked \/ m \in p.received)
    <3>1. \A m \in Numbers : delivered[m] > 0 => m <= rp.acked
        BY ZenonT(60), <1>9, <1>0
    <3>2. \A m \in Numbers : m <= rp.acked => m <= n
        BY <1>1, <1>0
    <3> QED
        BY SMTT(60), <1>1, <1>5, <1>6, <2>1, <3>1, <3>2, <1>0
  <2>5. \A i \in DOMAIN acks' : acks'[i].base - 1 <= rp'.acked
    <3>1. rp.acked <= rp'.acked /\ rp'.acked \in Nat
        BY SMTT(60), <1>0, <1>1, <2>1, <2>2
    <3> QED
        BY <1>7, <3>1, AcksStayHonest
  <2> QED
      BY ZenonT(60), <1>3, <1>5, <1>6, <1>7, <1>9, <2>1, <2>3, <2>4, <2>5, AdvancedKeeps
<1> QED
    BY <1>8, <1>9

\* A GAP keeps it.
LEMMA OnGapKeeps == ASSUME Inductive, NEW gap \in gaps, OnGap(gap) PROVE Inductive'
<1>0. ReaderFacts
    BY ReaderIsHonest
<1> USE DEF ReaderFacts
<1> DEFINE new == Lowest({n \in gap : n > rp.acked} \ rp.irrelevant,
                         MaxTracked - Cardinality(rp.irrelevant))
           all == new \cup {rp.last}
           newest == CHOOSE m \in all : \A n \in all : n <= m
           p == [rp EXCEPT !.irrelevant = @ \cup new, !.last = newest]
<1>1. Advance(p) /\ UNCHANGED <<world, writer, data, gaps, beats, acks, delivered>>
    BY DEF OnGap, network
<1>2. new \subseteq gap
    BY DEF Lowest
<1>3. gap \subseteq 1..last /\ \A n \in gap : Gone(n)
    BY DEF Inductive, TypeOK, GapsHonest
<1> HIDE DEF new
<1>4. all \subseteq 0..last /\ all # {}
  <2>1. new \subseteq 0..last
      BY <1>2, <1>3
  <2>2. rp.last \in 0..last
      BY <1>0
  <2> QED
      BY ONLY Zenon, <2>1, <2>2
<1>5. \E m \in all : \A n \in all : n <= m
    BY Zenon, <1>0, <1>4, GreatestNatural
<1>6. newest \in all /\ rp.last <= newest
    BY <1>5
<1>7. newest \in 0..last /\ rp.acked <= newest
  <2>1. newest \in 0..last
      BY Zenon, <1>4, <1>6
  <2> HIDE DEF newest
  <2> QED
      BY <1>0, <1>6, <2>1
<1> HIDE DEF all, newest
<1>8. /\ p \in WriterProxies(last) /\ p.acked <= p.last /\ p.acked = rp.acked
      /\ p.received = rp.received /\ p.irrelevant = rp.irrelevant \cup new
  <2>1. rp \in WriterProxies(last) /\ rp.irrelevant \cup new \in SUBSET (1..last)
      BY ZenonT(60), <1>0, <1>2, <1>3
  <2> QED
      BY ONLY Zenon, <2>1, <1>7 DEF WriterProxies
<1> HIDE DEF p
<1>9. Advanced(p)
    BY <1>0, <1>1, <1>8, AdvanceStep
<1>10. /\ delivered' \in [Numbers -> Nat] /\ delivered' = delivered
       /\ beats' \in Seq(Beats(last)) /\ AllOf(beats', beats)
       /\ acks' \in Seq(Acks(last)) /\ acks' = acks
    BY ZenonT(60), <1>0, <1>1, AllOfItself
<1>11. world.reliable =>
        \A n \in 1..p.acked \cup p.irrelevant : delivered'[n] > 0 \/ Gone(n)
    BY ZenonT(60), <1>2, <1>3, <1>8, <1>10 DEF Inductive, NothingSkipped
<1>12. \A i \in DOMAIN acks' : acks'[i].base - 1 <= rp'.acked
  <2>1. rp.acked <= rp'.acked /\ rp'.acked \in Nat
      BY <1>0, <1>8, <1>9 DEF Advanced, WriterProxies
  <2> QED
      BY <1>10, <2>1, AcksStayHonest
<1>13. /\ \A n \in Numbers : delivered[n] > 0 => delivered'[n] > 0
       /\ \A n \in p.received : delivered'[n] > 0
       /\ \A n \in Numbers :
            delivered'[n] <= 1 /\ (delivered'[n] > 0 => n <= p.acked \/ n \in p.received)
       /\ ~world.reliable => p.received = {}
    BY ZenonT(60), <1>0, <1>8, <1>10
<1> QED
    BY ZenonT(60), <1>1, <1>8, <1>9, <1>10, <1>11, <1>12, <1>13, AdvancedKeeps

\* accept_heartbeat raises the watermark at most to just below the first sample the
\* writer holds.
LEMMA WindowedType ==
    ASSUME NEW n \in Nat, NEW p \in WriterProxies(n), p.acked <= p.last,
           NEW beat \in Beats(n), beat.first <= beat.last + 1
    PROVE  /\ Windowed(p, beat) \in WriterProxies(n)
           /\ Windowed(p, beat).acked <= Windowed(p, beat).last
           /\ p.acked <= Windowed(p, beat).acked
           /\ \A m \in 1..Windowed(p, beat).acked : m <= p.acked \/ m < beat.first
           /\ Windowed(p, beat).received \subseteq p.received
           /\ \A m \in p.received :
                m \in Windowed(p, beat).received \/ m <= Windowed(p, beat).acked
           /\ Windowed(p, beat).irrelevant \subseteq p.irrelevant
<1> DEFINE acked == IF beat.first > p.first THEN Larger(p.acked, beat.first - 1) ELSE p.acked
           first == Larger(p.first, beat.first)
           newest == Larger(p.last, beat.last)
           received == {m \in p.received : m > acked \/ acked = p.acked}
           irrelevant == {m \in p.irrelevant : m > acked \/ acked = p.acked}
           w == Windowed(p, beat)
<1>1. /\ p.acked \in 0..n /\ p.last \in 0..n /\ p.first \in 1..n + 1
      /\ p.received \subseteq 1..n /\ p.irrelevant \subseteq 1..n
      /\ beat.first \in 1..n + 1 /\ beat.last \in 0..n
    BY ZenonT(60) DEF WriterProxies, Beats
<1>2. /\ acked \in 0..n /\ first \in 1..n + 1 /\ newest \in 0..n
      /\ acked <= newest /\ p.acked <= acked
      /\ acked = p.acked \/ acked < beat.first
    BY SMTT(60), <1>1 DEF Larger
<1>3. received \in SUBSET (1..n) /\ irrelevant \in SUBSET (1..n)
    BY <1>1
<1>4. w = [p EXCEPT !.first = first, !.last = newest, !.acked = acked,
                    !.received = received, !.irrelevant = irrelevant]
    BY ZenonT(60) DEF Windowed
<1>5. /\ received \subseteq p.received /\ irrelevant \subseteq p.irrelevant
      /\ \A m \in p.received : m \in received \/ m <= acked
    BY <1>1, <1>2
<1> HIDE DEF acked, first, newest, received, irrelevant, w
<1>6. /\ w \in WriterProxies(n) /\ w.acked = acked /\ w.last = newest
      /\ w.received = received /\ w.irrelevant = irrelevant
    BY ONLY Zenon, <1>2, <1>3, <1>4, p \in WriterProxies(n) DEF WriterProxies
<1>7. \A m \in 1..acked : m <= p.acked \/ m < beat.first
    BY <1>1, <1>2
<1> QED
    BY ZenonT(60), <1>2, <1>5, <1>6, <1>7 DEF w

\* An ACKNACK acknowledges the watermark and asks only for numbers the reader knows of.
LEMMA AckNackType ==
    ASSUME NEW n \in Nat, NEW p \in WriterProxies(n)
    PROVE  AckNack(p) \in Acks(n) /\ AckNack(p).base = p.acked + 1
<1> DEFINE missing == {m \in p.acked + 1 .. p.acked + SetBits :
                         m <= p.last /\ m \notin p.received \cup p.irrelevant}
<1>1. p.acked \in 0..n /\ p.last \in 0..n
    BY DEF WriterProxies
<1>2. SetBits \in Nat
    BY RtpsAssumption
<1>3. \A m \in missing : m \in 1..n
    BY <1>1, <1>2
<1>4. missing \in SUBSET (1..n) /\ p.acked + 1 \in 1..n + 1
    BY SMTT(60), <1>1, <1>3
<1>5. AckNack(p) = [base |-> p.acked + 1, missing |-> missing]
    BY ZenonT(60) DEF AckNack
<1> HIDE DEF missing
<1> QED
    BY <1>4, <1>5 DEF Acks

\* A heartbeat keeps it.
LEMMA OnHeartbeatKeeps ==
    ASSUME Inductive, NEW i \in DOMAIN beats, OnHeartbeat(i) PROVE Inductive'
<1>0. ReaderFacts
    BY ReaderIsHonest
<1> USE DEF ReaderFacts
<1> DEFINE p == Windowed(rp, beats[i])
<1>1. /\ Advance(p) /\ UNCHANGED <<world, writer, data, gaps>> /\ delivered' = delivered
      /\ beats' = SubSeq(beats, i + 1, Len(beats))
      /\ acks' = acks \/ acks' = Sent(acks, AckNack(rp'), world.inflight)
    BY ZenonT(60) DEF OnHeartbeat
<1>2. beats[i] \in Beats(last)
    BY SMTT(60), <1>0
<1>3. /\ beats[i].first <= beats[i].last + 1
      /\ \A n \in 1..last : n < beats[i].first => Gone(n)
    BY ZenonT(60) DEF Inductive, BeatsHonest
<1>4. /\ p \in WriterProxies(last) /\ p.acked <= p.last /\ rp.acked <= p.acked
      /\ \A m \in 1..p.acked : m <= rp.acked \/ m < beats[i].first
      /\ p.received \subseteq rp.received
      /\ \A m \in rp.received : m \in p.received \/ m <= p.acked
      /\ p.irrelevant \subseteq rp.irrelevant
  <2>1. last \in Nat /\ rp \in WriterProxies(last) /\ rp.acked <= rp.last
      BY ZenonT(60), <1>0
  <2> QED
      BY ONLY ZenonT(60), <1>2, <1>3, <2>1, WindowedType
<1> HIDE DEF p
<1>5. Advanced(p)
    BY ZenonT(60), <1>0, <1>1, <1>4, AdvanceStep
<1>6. p.acked \in 0..last
    BY ZenonT(60), <1>4 DEF WriterProxies
<1>7. beats' \in Seq(Beats(last)) /\ AllOf(beats', beats)
    BY ZenonT(60), <1>0, <1>1, BehindIsOf
<1>8. delivered' \in [Numbers -> Nat]
    BY ZenonT(60), <1>0, <1>1
<1>9. world.reliable =>
        \A n \in 1..p.acked \cup p.irrelevant : delivered'[n] > 0 \/ Gone(n)
  <2> SUFFICES ASSUME world.reliable, NEW n \in 1..p.acked \cup p.irrelevant
               PROVE  delivered[n] > 0 \/ Gone(n)
      BY <1>1
  <2>1. n \in 1..rp.acked \/ n \in rp.irrelevant \/ (n \in 1..last /\ n < beats[i].first)
      BY SMTT(60), <1>0, <1>4, <1>6
  <2> QED
      BY Zenon, <1>3, <2>1 DEF Inductive, NothingSkipped
<1>10. /\ \A n \in Numbers : delivered[n] > 0 => delivered'[n] > 0
       /\ \A n \in p.received : delivered'[n] > 0
       /\ ~world.reliable => p.received = {}
    BY ZenonT(60), <1>0, <1>1, <1>4
<1>11. \A n \in Numbers :
        delivered'[n] <= 1 /\ (delivered'[n] > 0 => n <= p.acked \/ n \in p.received)
  <2>1. \A n \in Numbers : n <= rp.acked => n <= p.acked
      BY SMTT(60), <1>0, <1>4, <1>6
  <2>2. \A n \in Numbers :
          delivered[n] <= 1 /\ (delivered[n] > 0 => n <= rp.acked \/ n \in rp.received)
      BY ZenonT(60), <1>0
  <2> QED
      BY ONLY Zenon, <1>1, <1>4, <2>1, <2>2
<1>12. rp'.acked \in 0..last /\ rp'.last \in 0..last /\ rp.acked <= rp'.acked
    BY SMTT(60), <1>0, <1>4, <1>5, <1>6 DEF Advanced, WriterProxies
<1>13. \A k \in DOMAIN acks : acks[k].base - 1 <= rp'.acked
    BY SMTT(60), <1>0, <1>12, AcksStayHonest
<1>14. acks' \in Seq(Acks(last)) /\ \A k \in DOMAIN acks' : acks'[k].base - 1 <= rp'.acked
  <2> DEFINE ack == AckNack(rp')
  <2>1. ack \in Acks(last) /\ ack.base - 1 = rp'.acked
    <3>1. rp' \in WriterProxies(last)
        BY ZenonT(60), <1>5 DEF Advanced
    <3>2. ack \in Acks(last) /\ ack.base = rp'.acked + 1
        BY ZenonT(60), <1>0, <3>1, AckNackType
    <3> QED
        BY SMTT(60), <1>0, <1>12, <3>2
  <2> HIDE DEF ack
  <2>2. CASE acks' = acks
      BY <1>0, <1>13, <2>2
  <2>3. CASE acks' = Sent(acks, ack, world.inflight)
    <3>1. PICK k \in Nat : k = world.inflight
        BY ZenonT(60), <1>0
    <3>2. acks \in Seq(Acks(last))
        BY <1>0
    <3>3. Sent(acks, ack, k) \in Seq(Acks(last)) /\ AllFrom(Sent(acks, ack, k), acks, ack)
        BY ONLY ZenonT(60), <2>1, <3>2, SentFrom
    <3>4. acks' \in Seq(Acks(last)) /\ AllFrom(acks', acks, ack)
        BY <2>3, <3>1, <3>3
    <3>5. ack.base - 1 <= rp'.acked
        BY <1>12, <2>1
    <3> QED
        BY ZenonT(60), <1>13, <3>4, <3>5, Zenon DEF AllFrom
  <2> QED
      BY ZenonT(60), <1>1, <2>2, <2>3 DEF ack
<1> QED
    BY ZenonT(60), <1>1, <1>4, <1>5, <1>7, <1>8, <1>9, <1>10, <1>11, <1>14, AdvancedKeeps

-----------------------------------------------------------------------------
\* A loss keeps it.
LEMMA LoseKeeps == ASSUME Inductive, Lose PROVE Inductive'
<1>1. /\ world' = world /\ last' = last /\ cache' = cache /\ removed' = removed /\ wp' = wp
      /\ rp' = rp /\ delivered' = delivered
    BY DEF Lose, writer, reader
<1>2. \A n : Gone(n)' <=> Gone(n)
    BY <1>1 DEF Gone
<1>3. beats \in Seq(Beats(last)) /\ acks \in Seq(Acks(last))
    BY ZenonT(60) DEF Inductive, TypeOK
<1>4. /\ data' \subseteq data /\ gaps' \subseteq gaps
      /\ beats' \in Seq(Beats(last)) /\ AllOf(beats', beats)
      /\ acks' \in Seq(Acks(last)) /\ AllOf(acks', acks)
  <2>1. CASE UNCHANGED <<beats, acks>> /\ data' \subseteq data /\ gaps' \subseteq gaps
      BY <1>3, <2>1, AllOfItself
  <2>2. CASE /\ UNCHANGED <<data, gaps, acks>>
             /\ \E i \in DOMAIN beats :
                    beats' = SubSeq(beats, 1, i - 1) \o SubSeq(beats, i + 1, Len(beats))
      BY ZenonT(60), <1>3, <2>2, AllOfItself, RestIsOf
  <2>3. CASE /\ UNCHANGED <<data, gaps, beats>>
             /\ \E i \in DOMAIN acks :
                    acks' = SubSeq(acks, 1, i - 1) \o SubSeq(acks, i + 1, Len(acks))
      BY ZenonT(60), <1>3, <2>3, AllOfItself, RestIsOf
  <2> QED
      BY Zenon, <2>1, <2>2, <2>3 DEF Lose
<1>5. TypeOK'
    BY ZenonT(60), <1>1, <1>4 DEF Inductive, TypeOK, Numbers
<1>6. GapsHonest' /\ BeatsHonest' /\ AcksHonest'
    BY ZenonT(60), <1>1, <1>2, <1>4 DEF Inductive, GapsHonest, BeatsHonest, AcksHonest, AllOf
<1>7. Counted' /\ NothingSkipped' /\ AckIsHonest' /\ Held'
    BY <1>1, <1>2 DEF Inductive, Counted, NothingSkipped, AckIsHonest, Held
<1> QED
    BY <1>5, <1>6, <1>7 DEF Inductive

\* It holds at first.
LEMMA InitHonest == ASSUME Init PROVE Inductive
<1>1. world \in World /\ world \in Worlds
    BY RtpsAssumption DEF Init
<1>2. world.writes \in Nat /\ world.removals \in Nat
    BY <1>1 DEF World
<1>3. TypeOK
  <2>1. wp \in ReaderProxies(0) /\ rp \in WriterProxies(0)
      BY DEF Init, NewReaderProxy, NewWriterProxy, ReaderProxies, WriterProxies
  <2>2. rp.acked <= rp.last
      BY DEF Init, NewWriterProxy
  <2>3. beats \in Seq(Beats(0)) /\ acks \in Seq(Acks(0))
      BY DEF Init
  <2> QED
      BY SMTT(60), <1>1, <1>2, <2>1, <2>2, <2>3 DEF Init, TypeOK, Numbers
<1>4. GapsHonest /\ BeatsHonest /\ AcksHonest
    BY SMTT(60) DEF Init, GapsHonest, BeatsHonest, AcksHonest
<1>5. Counted
    BY SMTT(60), <1>2 DEF Init, Counted, NewWriterProxy
<1>6. NothingSkipped /\ AckIsHonest /\ Held
    BY <1>2 DEF Init, NothingSkipped, AckIsHonest, Held, NewWriterProxy, NewReaderProxy
<1> QED
    BY ZenonT(60), <1>3, <1>4, <1>5, <1>6 DEF Inductive

\* Every step of the writer, of the reader and of the network keeps the invariant.
LEMMA StepKeeps == ASSUME Inductive, [Next]_vars PROVE Inductive'
<1>1. CASE WriterNext
    BY ZenonT(60), <1>1, MatchReaderKeeps, WriteKeeps, CadenceKeeps, ExpireKeeps, OnAckNackKeeps,
       ForgetKeeps, ReclaimKeeps DEF WriterNext
<1>2. CASE ReaderNext
    BY <1>2, MatchWriterKeeps, OnDataKeeps, OnGapKeeps, OnHeartbeatKeeps DEF ReaderNext
<1>3. CASE Lose
    BY ZenonT(60), <1>3, LoseKeeps
<1>4. CASE UNCHANGED vars
  <2>1. /\ world' = world /\ last' = last /\ cache' = cache /\ removed' = removed /\ wp' = wp
        /\ rp' = rp /\ delivered' = delivered
        /\ data' = data /\ gaps' = gaps /\ beats' = beats /\ acks' = acks
      BY <1>4 DEF vars, writer, reader, network
  <2> QED
      BY Zenon, <2>1 DEF Inductive, TypeOK, Numbers, GapsHonest, BeatsHonest, AcksHonest, Counted,
                  NothingSkipped, AckIsHonest, Held, Gone
<1> QED
    BY ZenonT(60), <1>1, <1>2, <1>3, <1>4 DEF Next

\* The inductive invariant holds throughout.
THEOREM InductiveHolds == Spec => []Inductive
    BY InitHonest, StepKeeps, PTL DEF Spec

-----------------------------------------------------------------------------
(* The theorems.                                                              *)

\* The variables keep their types, and no watermark passes what was written: for
\* every QoS, every network and every bound.
THEOREM TypesHold == Spec => []TypeOK
<1>1. Inductive => TypeOK
    BY DEF Inductive
<1> QED
    BY <1>1, InductiveHolds, PTL

\* A GAP or a HEARTBEAT, however late, never talks a reliable reader out of a
\* sample the writer still holds and the reader has not delivered.
THEOREM NothingIsSkipped == Spec => []NothingSkipped
<1>1. Inductive => NothingSkipped
    BY DEF Inductive
<1> QED
    BY <1>1, InductiveHolds, PTL

\* What the writer takes for acknowledged the reader has delivered or cannot get.
THEOREM AcksAreHonest == Spec => []AckIsHonest
<1>1. Inductive => AckIsHonest
    BY ZenonT(60) DEF Inductive
<1> QED
    BY <1>1, InductiveHolds, PTL

\* A KEEP_ALL writer, `reclaim` included, holds every sample until it is delivered.
THEOREM NothingIsLost == Spec => []NothingLost
<1>1. Inductive => NothingLost
  <2> SUFFICES ASSUME Inductive, world.reliable, world.depth = KeepAll, world.removals = 0,
                      NEW n \in wp.joined + 1 .. last
               PROVE  n \in cache \/ delivered[n] > 0
      BY DEF NothingLost
  <2>1. last \in Nat /\ wp.joined \in 0..last
      BY ProxyIsHonest DEF ReaderProxies
  <2>2. n \in 1..last /\ n > wp.joined
      BY SMTT(60), <2>1
  <2> QED
      BY <2>2 DEF Inductive, Held
<1> QED
    BY <1>1, InductiveHolds, PTL

\* No sample is delivered twice.
THEOREM DeliveredAtMostOnce == Spec => []DeliveredOnce
<1>1. Inductive => DeliveredOnce
    BY DEF Inductive, Counted, DeliveredOnce
<1> QED
    BY <1>1, InductiveHolds, PTL

\* A best-effort reader never delivers a sample older than one it has delivered.
THEOREM BestEffortNeverGoesBack == Spec => NeverGoesBack
<1> DEFINE Forward ==
        \A n \in DOMAIN delivered :
            (~world.reliable /\ delivered'[n] # delivered[n]) =>
                \A m \in DOMAIN delivered : m > n => delivered[m] = 0
<1>1. ASSUME Inductive, [Next]_vars PROVE [Forward]_vars
  <2>0. ReaderFacts
      BY <1>1, ReaderIsHonest
  <2>1. ASSUME NEW k \in data, OnData(k) PROVE Forward
    <3> SUFFICES ASSUME NEW n \in Numbers, ~world.reliable, delivered'[n] # delivered[n],
                        NEW m \in Numbers, m > n
                 PROVE  delivered[m] = 0
        BY Zenon, <2>0 DEF ReaderFacts
    <3>1. k > rp.acked
        BY <2>1 DEF OnData, Fresh
    <3>2. n = k
        BY <2>0, <2>1 DEF OnData, ReaderFacts
    <3>3. ~(m <= rp.acked) /\ m \notin rp.received
        BY SMTT(60), <2>0, <3>1, <3>2 DEF ReaderFacts
    <3>4. delivered[m] \in Nat /\ ~(delivered[m] > 0)
        BY ZenonT(60), <2>0, <3>3 DEF ReaderFacts
    <3> QED
        BY SMTT(60), <3>4
  <2>2. CASE delivered' = delivered
      BY <2>2
  <2>3. CASE WriterNext
    <3>1. UNCHANGED reader
        BY ZenonT(60), <2>3 DEF WriterNext, MatchReader, Write, Cadence, Expire, Forget, Reclaim, OnAckNack
    <3> QED
        BY <2>2, <3>1 DEF reader
  <2>4. CASE ReaderNext
      BY ZenonT(60), <2>1, <2>2, <2>4 DEF ReaderNext, MatchWriter, OnGap, OnHeartbeat
  <2>5. CASE Lose \/ UNCHANGED vars
    <3>1. UNCHANGED reader
        BY <2>5 DEF Lose, vars
    <3> QED
        BY <2>2, <3>1 DEF reader
  <2> QED
      BY <1>1, <2>3, <2>4, <2>5 DEF Next
<1> QED
    BY <1>1, InductiveHolds, PTL DEF Spec, NeverGoesBack
=============================================================================
