---------------------------- MODULE Uplink_proofs ----------------------------
(* Proofs about a daemon's link to its coordinator, for any number of          *)
(* connections and any budgets of faults: the inductive invariant, the facts   *)
(* about queues it rests on, its parts (the types and the places of the        *)
(* connections, the cursor, the facts), and what it says: the cursor the       *)
(* daemon registers with is honest about what it was told, and the facts it    *)
(* reports are applied once and in order.                                      *)
EXTENDS Uplink, WellFoundedInduction, TLAPS

-----------------------------------------------------------------------------
(* The inductive invariant.                                                   *)

Events == [kind : {"register", "beat", "fact", "ack", "built"}, n : Nat]
Frames == [kind : {"state"}, entries : SUBSET Nat, high : Nat] \cup [kind : {"build"}]
States == {"new", "upsert", "catchup", "serve", "fold", "unreach", "release", "gone"}

Types ==
    /\ world \in World
    /\ sink \in Seq(Events) /\ holding \in Seq(Events) /\ Len(holding) <= 1
    /\ dialled \in Nat /\ cursor \in Nat /\ told \in SUBSET Nat /\ reported \in Nat
    /\ up \in [Conns -> Seq(Events)] /\ broken \in BOOLEAN
    /\ down \in [Conns -> Seq(Frames)] /\ outbound \in [Conns -> Seq(Frames)]
    /\ page \in [Conns -> Nat] /\ session \in [Conns -> States]
    /\ log \in Seq(BOOLEAN) /\ folded \in Seq(Conns \X Nat)
    /\ link \in Conns \cup {0} /\ registry \in Conns \cup {0}

\* Only the last connection dialled can be the one in use; later ones are untouched;
\* a registration waits until its session reads it, and a session that handles a
\* frame has one.
PlacedOn(c) ==
    /\ c > dialled => up[c] = <<>> /\ outbound[c] = <<>> /\ session[c] = "new"
    /\ c # link => down[c] = <<>>
    /\ session[c] = "fold" => up[c] # <<>>
    /\ link = c /\ ~broken /\ session[c] = "new" => up[c] # <<>>

Placed == link \in {0, dialled} /\ registry <= dialled /\ \A c \in Conns : PlacedOn(c)

\* In the log l everything up to n that has an entry is in S.
Honest(l, n, S) == \A i \in 1..n : i <= Len(l) /\ (l[i] => i \in S)

EntriesOf(f) == IF f.kind = "state" THEN f.entries ELSE {}
Entries(frames, k) == UNION {EntriesOf(frames[i]) : i \in 1..k}
Queued(frames) == Entries(frames, Len(frames))

\* Every batch is honest, given S and the batches up to it.
Batches(l, frames, S) ==
    \A k \in 1..Len(frames) :
        frames[k].kind = "state" => Honest(l, frames[k].high, S \cup Entries(frames, k))

\* On a connection the cursor that registers, the batches on their way and the page
\* that comes next are honest, each after those before it.
CatchUpOn(c) ==
    /\ session[c] = "new" /\ up[c] # <<>> =>
          up[c][1].kind = "register" /\ Honest(log, up[c][1].n, told)
    /\ link = c => Batches(log, down[c], told)
    /\ link = c /\ ~broken =>
          /\ Batches(log, outbound[c], told \cup Queued(down[c]))
          /\ session[c] \in {"upsert", "catchup"} =>
                Honest(log, page[c], told \cup Queued(down[c]) \cup Queued(outbound[c]))

CatchUp == Honest(log, cursor, told) /\ \A c \in Conns : CatchUpOn(c)

\* The facts in a queue, and those that came on a connection and were applied.
FactsOf(queue) == {queue[i].n : i \in {j \in 1..Len(queue) : queue[j].kind = "fact"}}
FoldedOn(c) == {folded[i][2] : i \in {j \in 1..Len(folded) : folded[j][1] = c}}

Before(S, T) == \A s \in S, t \in T : s < t

Ascending(queue) ==
    \A i, j \in 1..Len(queue) :
        i < j /\ queue[i].kind = "fact" /\ queue[j].kind = "fact" => queue[i].n < queue[j].n

Waiting == FactsOf(holding) \cup FactsOf(sink)
Sent(c) == FoldedOn(c) \cup FactsOf(up[c])

\* The facts lie in the order they were reported: on earlier connections before later
\* ones, applied before in flight, in flight before waiting.
Ordered ==
    /\ Ascending(sink) /\ Before(FactsOf(holding), FactsOf(sink))
    /\ Waiting \subseteq 1..reported
    /\ \A c \in Conns :
          /\ Ascending(up[c]) /\ Before(FoldedOn(c), FactsOf(up[c])) /\ Before(Sent(c), Waiting)
          /\ Sent(c) \subseteq 1..reported
          /\ c > dialled => FoldedOn(c) = {}
          /\ \A d \in Conns : c < d => Before(Sent(c), Sent(d))
    /\ \A i, j \in 1..Len(folded) :
          i < j /\ folded[i][1] = folded[j][1] => folded[i][2] < folded[j][2]

Inductive == Types /\ Placed /\ CatchUp /\ Ordered

-----------------------------------------------------------------------------
(* Queues, and the numbers in them.                                           *)

\* The length of a queue, and the empty queue.
LEMMA QueueLen ==
    ASSUME NEW S, NEW q \in Seq(S)
    PROVE  /\ Len(q) \in Nat /\ DOMAIN q = 1..Len(q)
           /\ q # <<>> => Len(q) # 0
    BY SMTT(60)

\* Two queues with the same events in the same places are the same.
LEMMA QueueSame ==
    ASSUME NEW S, NEW q \in Seq(S), NEW r \in Seq(S), Len(q) = Len(r),
           \A i \in 1..Len(q) : q[i] = r[i]
    PROVE  q = r
    BY SMTT(60)

\* What is in a queue put before another.
LEMMA QueueConcat ==
    ASSUME NEW S, NEW q \in Seq(S), NEW r \in Seq(S)
    PROVE  /\ q \o r \in Seq(S) /\ Len(q \o r) = Len(q) + Len(r)
           /\ \A i \in 1..Len(q) + Len(r) :
                 (q \o r)[i] = IF i <= Len(q) THEN q[i] ELSE r[i - Len(q)]
    BY SMTT(60)

\* What is in a stretch of a queue.
LEMMA QueueSlice ==
    ASSUME NEW S, NEW q \in Seq(S), NEW m \in 1..Len(q) + 1, NEW n \in 0..Len(q), m <= n + 1
    PROVE  /\ SubSeq(q, m, n) \in Seq(S) /\ Len(SubSeq(q, m, n)) = n - m + 1
           /\ \A i \in 1..n - m + 1 : SubSeq(q, m, n)[i] = q[m + i - 1]
    BY SMTT(60)

\* What is in a queue whose first element was taken.
LEMMA QueueTail ==
    ASSUME NEW S, NEW q \in Seq(S), q # <<>>
    PROVE  /\ Head(q) \in S /\ Tail(q) \in Seq(S) /\ Len(Tail(q)) = Len(q) - 1
           /\ \A i \in 1..Len(Tail(q)) : Tail(q)[i] = q[i + 1]
    BY SMTT(60)

\* What is in a queue after an element was added.
LEMMA QueueAppend ==
    ASSUME NEW S, NEW q \in Seq(S), NEW x \in S
    PROVE  /\ Append(q, x) \in Seq(S) /\ Append(q, x) # <<>> /\ Len(Append(q, x)) = Len(q) + 1
           /\ \A i \in 1..Len(q) : Append(q, x)[i] = q[i]
           /\ Append(q, x)[Len(q) + 1] = x
    BY SMTT(60)

-----------------------------------------------------------------------------
(* Queues.                                                                    *)

\* What is left of a queue when one event is removed.
LEMMA Removed ==
    ASSUME NEW q \in Seq(Events), NEW v \in 1..Len(q)
    PROVE  /\ Without(q, v) \in Seq(Events) /\ Len(Without(q, v)) = Len(q) - 1
           /\ \A i \in 1..Len(q) - 1 : Without(q, v)[i] = IF i < v THEN q[i] ELSE q[i + 1]
<1> DEFINE a == SubSeq(q, 1, v - 1)  b == SubSeq(q, v + 1, Len(q))
<1>1. a \in Seq(Events) /\ Len(a) = v - 1 /\ \A i \in 1..v - 1 : a[i] = q[i]
    BY SMTT(60), QueueSlice
<1>2. b \in Seq(Events) /\ Len(b) = Len(q) - v /\ \A i \in 1..Len(q) - v : b[i] = q[v + i]
    BY SMTT(60), QueueSlice
<1> HIDE DEF a, b
<1>3. /\ a \o b \in Seq(Events) /\ Len(a \o b) = Len(a) + Len(b)
      /\ \A i \in 1..Len(a) + Len(b) :
            (a \o b)[i] = IF i <= Len(a) THEN a[i] ELSE b[i - Len(a)]
    BY Zenon, <1>1, <1>2, QueueConcat
<1>4. Len(a) + Len(b) = Len(q) - 1
    BY SMTT(60), <1>1, <1>2
<1>5. ASSUME NEW i \in 1..Len(q) - 1
      PROVE  (a \o b)[i] = IF i < v THEN q[i] ELSE q[i + 1]
  <2>1. CASE i < v
    BY SMTT(60), <1>1, <1>3, <1>4, <2>1
  <2>2. CASE ~(i < v)
    <3>1. i - Len(a) \in 1..Len(q) - v /\ v + (i - Len(a)) = i + 1 /\ ~(i <= Len(a))
      BY SMTT(60), <1>1, <2>2
    <3>2. (a \o b)[i] = b[i - Len(a)]
      BY ZenonT(60), <1>3, <1>4, <3>1
    <3>3. b[i - Len(a)] = q[v + (i - Len(a))]
      BY Zenon, <1>2, <3>1
    <3> QED
      BY ZenonT(60), <2>2, <3>1, <3>2, <3>3
  <2> QED
    BY Zenon, <2>1, <2>2
<1> QED
    BY Zenon, <1>3, <1>4, <1>5 DEF Without, a, b

\* A prefix of a sequence.
LEMMA Prefix ==
    ASSUME NEW S, NEW q \in Seq(S), NEW m \in 0..Len(q)
    PROVE  /\ SubSeq(q, 1, m) \in Seq(S) /\ Len(SubSeq(q, 1, m)) = m
           /\ \A i \in 1..m : SubSeq(q, 1, m)[i] = q[i]
    BY SMTT(60), QueueSlice

\* The first shedable event is an element of the queue.
LEMMA VictimInQueue ==
    ASSUME NEW q \in Seq(Events), q # <<>>
    PROVE  Victim(q) \in 1..Len(q)
<1>1. CASE \E i \in DOMAIN q : IsShedable(q[i])
  <2> DEFINE S == {i \in 1..Len(q) : IsShedable(q[i])}
  <2>1. S \subseteq Nat /\ S # {}
    BY SMTT(60), <1>1
  <2>2. PICK m \in S : \A n \in S : ~(<<n, m>> \in OpToRel(<, Nat))
    BY Zenon, <2>1, NatLessThanWellFounded, WFMin
  <2>3. \A n \in S : ~(n < m)
    BY Zenon, <2>1, <2>2 DEF OpToRel
  <2>4. m \in DOMAIN q /\ IsShedable(q[m]) /\ \A j \in 1..m - 1 : ~IsShedable(q[j])
    BY SMTT(60), <2>3
  <2> QED
    BY SMTT(60), <1>1, <2>4 DEF Victim
<1>2. CASE ~\E i \in DOMAIN q : IsShedable(q[i])
    BY SMTT(60), <1>2 DEF Victim
<1> QED
    BY ZenonT(60), <1>1, <1>2

\* A queue after `report`: what was there except perhaps one event, and the new one.
LEMMA AfterReport ==
    ASSUME world \in World, NEW q \in Seq(Events), NEW e \in Events
    PROVE  /\ Reported(q, e) \in Seq(Events)
           /\ FactsOf(Reported(q, e)) \subseteq FactsOf(q) \cup {n \in {e.n} : e.kind = "fact"}
           /\ Ascending(q) /\ Before(FactsOf(q), {n \in {e.n} : e.kind = "fact"})
                => Ascending(Reported(q, e))
<1> DEFINE p == IF Len(q) >= world.capacity THEN Without(q, Victim(q)) ELSE q
<1>1. p \in Seq(Events) /\ FactsOf(p) \subseteq FactsOf(q) /\ (Ascending(q) => Ascending(p))
  <2>1. CASE Len(q) >= world.capacity
    <3>1. q # <<>>
      BY SMTT(60), <2>1 DEF World
    <3>2. Victim(q) \in 1..Len(q)
      BY ZenonT(60), <3>1, VictimInQueue
    <3>3. /\ p \in Seq(Events) /\ Len(p) = Len(q) - 1
          /\ \A i \in 1..Len(q) - 1 : p[i] = IF i < Victim(q) THEN q[i] ELSE q[i + 1]
      BY ZenonT(60), <2>1, <3>2, Removed
    <3> HIDE DEF p
    <3>4. FactsOf(p) \subseteq FactsOf(q)
      BY SMTT(60), <3>3, <3>2 DEF FactsOf
    <3>5. Ascending(q) => Ascending(p)
      BY <3>3, <3>2, SMTT(60) DEF Ascending
    <3> QED
      BY ZenonT(60), <3>3, <3>4, <3>5
  <2>2. CASE ~(Len(q) >= world.capacity)
    BY ZenonT(60), <2>2
  <2> QED
    BY ZenonT(60), <2>1, <2>2
<1> HIDE DEF p
<1> DEFINE r == Append(p, e)
<1>2. /\ r \in Seq(Events) /\ Len(r) = Len(p) + 1
      /\ \A i \in 1..Len(p) : r[i] = p[i]
      /\ r[Len(p) + 1] = e
    BY SMTT(60), <1>1
<1>3. Reported(q, e) = r
    BY ZenonT(60) DEF Reported, p
<1> HIDE DEF r
<1>4. FactsOf(r) \subseteq FactsOf(p) \cup {n \in {e.n} : e.kind = "fact"}
    BY SMTT(60), <1>1, <1>2 DEF FactsOf
<1>5. ASSUME Ascending(p), Before(FactsOf(p), {n \in {e.n} : e.kind = "fact"})
      PROVE  Ascending(r)
  <2> SUFFICES ASSUME NEW i \in 1..Len(r), NEW j \in 1..Len(r), i < j,
                      r[i].kind = "fact", r[j].kind = "fact"
               PROVE  r[i].n < r[j].n
    BY ZenonT(60) DEF Ascending
  <2>1. CASE j <= Len(p)
    <3>1. i \in 1..Len(p) /\ j \in 1..Len(p) /\ r[i] = p[i] /\ r[j] = p[j]
      BY SMTT(60), <1>1, <1>2, <2>1
    <3> QED
      BY ZenonT(60), <1>5, <3>1 DEF Ascending
  <2>2. CASE j = Len(p) + 1
    <3>1. i \in 1..Len(p) /\ p[i].kind = "fact" /\ r[i].n \in FactsOf(p)
      BY SMTT(60), <1>1, <1>2, <2>2 DEF FactsOf
    <3> QED
      BY ZenonT(60), <1>2, <1>5, <2>2, <3>1 DEF Before
  <2> QED
    BY SMTT(60), <1>1, <1>2, <2>1, <2>2
<1> QED
    BY ZenonT(60), <1>1, <1>2, <1>3, <1>4, <1>5 DEF Before

\* A queue after `requeue`: the event, and what was there except perhaps the last.
LEMMA AfterRequeue ==
    ASSUME world \in World, NEW q \in Seq(Events), NEW e \in Events
    PROVE  /\ Requeued(q, e) \in Seq(Events)
           /\ FactsOf(Requeued(q, e)) \subseteq FactsOf(q) \cup {n \in {e.n} : e.kind = "fact"}
           /\ Ascending(q) /\ Before({n \in {e.n} : e.kind = "fact"}, FactsOf(q))
                => Ascending(Requeued(q, e))
<1> DEFINE p == IF Len(q) >= world.capacity THEN SubSeq(q, 1, Len(q) - 1) ELSE q
<1>1. p \in Seq(Events) /\ Len(p) <= Len(q) /\ \A i \in 1..Len(p) : p[i] = q[i]
  <2>1. CASE Len(q) >= world.capacity
    <3>1. Len(q) - 1 \in 0..Len(q)
      BY SMTT(60), <2>1 DEF World
    <3> QED
      BY SMTT(60), <2>1, <3>1, Prefix
  <2>2. CASE ~(Len(q) >= world.capacity)
    BY SMTT(60), <2>2
  <2> QED
    BY ZenonT(60), <2>1, <2>2
<1> HIDE DEF p
<1> DEFINE r == <<e>> \o p
<1>2. /\ r \in Seq(Events) /\ Len(r) = Len(p) + 1 /\ r[1] = e
      /\ \A i \in 2..Len(p) + 1 : r[i] = p[i - 1]
    BY SMTT(60), <1>1, QueueConcat
<1>3. Requeued(q, e) = r
    BY ZenonT(60) DEF Requeued, p
<1> HIDE DEF r
<1>4. FactsOf(r) \subseteq FactsOf(q) \cup {n \in {e.n} : e.kind = "fact"}
  <2> SUFFICES ASSUME NEW i \in 1..Len(r), r[i].kind = "fact"
               PROVE  r[i].n \in FactsOf(q) \cup {n \in {e.n} : e.kind = "fact"}
    BY ZenonT(60) DEF FactsOf
  <2>1. CASE i = 1
    BY ZenonT(60), <1>2, <2>1
  <2>2. CASE i > 1
    <3>1. i - 1 \in 1..Len(p) /\ i \in 2..Len(p) + 1
      BY SMTT(60), <1>1, <1>2, <2>2
    <3>2. i - 1 \in 1..Len(q) /\ r[i] = q[i - 1]
      BY SMTT(60), <1>1, <1>2, <3>1
    <3> QED
      BY ZenonT(60), <3>2 DEF FactsOf
  <2> QED
    BY SMTT(60), <2>1, <2>2
<1>5. ASSUME Ascending(q), Before({n \in {e.n} : e.kind = "fact"}, FactsOf(q))
      PROVE  Ascending(r)
  <2> SUFFICES ASSUME NEW i \in 1..Len(r), NEW j \in 1..Len(r), i < j,
                      r[i].kind = "fact", r[j].kind = "fact"
               PROVE  r[i].n < r[j].n
    BY ZenonT(60) DEF Ascending
  <2>0. j - 1 \in 1..Len(q) /\ r[j] = q[j - 1]
    BY SMTT(60), <1>1, <1>2
  <2>1. CASE i = 1
    <3>1. r[j].n \in FactsOf(q)
      BY ZenonT(60), <2>0 DEF FactsOf
    <3> QED
      BY ZenonT(60), <1>2, <1>5, <2>1, <3>1 DEF Before
  <2>2. CASE i > 1
    <3>1. i - 1 \in 1..Len(q) /\ r[i] = q[i - 1] /\ i - 1 < j - 1
      BY SMTT(60), <1>1, <1>2, <2>2
    <3> QED
      BY ZenonT(60), <1>5, <2>0, <3>1 DEF Ascending
  <2> QED
    BY SMTT(60), <2>1, <2>2
<1> QED
    BY ZenonT(60), <1>2, <1>3, <1>4, <1>5

\* A queue after its head is taken.
LEMMA AfterTake ==
    ASSUME NEW q \in Seq(Events), q # <<>>
    PROVE  /\ Head(q) \in Events /\ Tail(q) \in Seq(Events)
           /\ FactsOf(Tail(q)) \subseteq FactsOf(q)
           /\ Head(q).kind = "fact" => Head(q).n \in FactsOf(q)
           /\ Ascending(q) => Ascending(Tail(q))
           /\ Ascending(q) /\ Head(q).kind = "fact" => Before({Head(q).n}, FactsOf(Tail(q)))
<1> DEFINE t == Tail(q)
<1>1. t \in Seq(Events) /\ Len(t) = Len(q) - 1 /\ \A i \in 1..Len(t) : t[i] = q[i + 1]
    BY ZenonT(60), QueueTail
<1>2. Head(q) = q[1] /\ Head(q) \in Events /\ 1 \in 1..Len(q)
    BY SMTT(60)
<1> HIDE DEF t
<1>3. FactsOf(t) \subseteq FactsOf(q) /\ (Head(q).kind = "fact" => Head(q).n \in FactsOf(q))
    BY SMTT(60), <1>1, <1>2 DEF FactsOf
<1>4. Ascending(q) => Ascending(t)
    BY SMTT(60), <1>1 DEF Ascending
<1>5. Ascending(q) /\ Head(q).kind = "fact" => Before({Head(q).n}, FactsOf(t))
    BY SMTT(60), <1>1, <1>2 DEF Ascending, FactsOf, Before
<1> QED
    BY ZenonT(60), <1>1, <1>2, <1>3, <1>4, <1>5 DEF t

\* A queue after an event is appended.
LEMMA AfterAppend ==
    ASSUME NEW q \in Seq(Events), NEW e \in Events
    PROVE  /\ Append(q, e) \in Seq(Events)
           /\ FactsOf(Append(q, e)) \subseteq FactsOf(q) \cup {n \in {e.n} : e.kind = "fact"}
           /\ Ascending(q) /\ Before(FactsOf(q), {n \in {e.n} : e.kind = "fact"})
                => Ascending(Append(q, e))
<1> DEFINE r == Append(q, e)
<1>1. /\ r \in Seq(Events) /\ Len(r) = Len(q) + 1
      /\ \A i \in 1..Len(q) : r[i] = q[i]
      /\ r[Len(q) + 1] = e
    BY SMTT(60)
<1> HIDE DEF r
<1>2. FactsOf(r) \subseteq FactsOf(q) \cup {n \in {e.n} : e.kind = "fact"}
    BY SMTT(60), <1>1 DEF FactsOf
<1>3. ASSUME Ascending(q), Before(FactsOf(q), {n \in {e.n} : e.kind = "fact"})
      PROVE  Ascending(r)
  <2> SUFFICES ASSUME NEW i \in 1..Len(r), NEW j \in 1..Len(r), i < j,
                      r[i].kind = "fact", r[j].kind = "fact"
               PROVE  r[i].n < r[j].n
    BY ZenonT(60) DEF Ascending
  <2>1. CASE j <= Len(q)
    BY SMTT(60), <1>1, <1>3, <2>1 DEF Ascending
  <2>2. CASE j = Len(q) + 1
    <3>1. i \in 1..Len(q) /\ r[i].n \in FactsOf(q)
      BY SMTT(60), <1>1, <2>2 DEF FactsOf
    <3> QED
      BY ZenonT(60), <1>1, <1>3, <2>2, <3>1 DEF Before
  <2> QED
    BY SMTT(60), <1>1, <2>1, <2>2
<1> QED
    BY ZenonT(60), <1>1, <1>2, <1>3 DEF r

\* A queue of which a break leaves a prefix.
LEMMA AfterBreak ==
    ASSUME NEW q \in Seq(Events), NEW m \in 0..Len(q)
    PROVE  /\ SubSeq(q, 1, m) \in Seq(Events)
           /\ FactsOf(SubSeq(q, 1, m)) \subseteq FactsOf(q)
           /\ Ascending(q) => Ascending(SubSeq(q, 1, m))
<1> DEFINE r == SubSeq(q, 1, m)
<1>1. r \in Seq(Events) /\ Len(r) = m /\ \A i \in 1..m : r[i] = q[i]
    BY ZenonT(60), Prefix
<1> HIDE DEF r
<1>2. FactsOf(r) \subseteq FactsOf(q) /\ (Ascending(q) => Ascending(r))
    BY SMTT(60), <1>1 DEF FactsOf, Ascending
<1> QED
    BY ZenonT(60), <1>1, <1>2 DEF r

\* Queues without facts.
LEMMA NoFacts ==
    /\ FactsOf(<<>>) = {} /\ Ascending(<<>>)
    /\ \A e \in Events : FactsOf(<<e>>) = {n \in {e.n} : e.kind = "fact"} /\ Ascending(<<e>>)
<1>1. \A e : Len(<<e>>) = 1 /\ <<e>>[1] = e
    BY ZenonT(60)
<1>2. ASSUME NEW e \in Events
      PROVE  FactsOf(<<e>>) = {n \in {e.n} : e.kind = "fact"}
  <2>1. \A i \in 1..1 : i = 1
    BY SMTT(60)
  <2> QED
    BY SMTT(60), <1>1, <2>1 DEF FactsOf
<1> QED
    BY SMTT(60), <1>1, <1>2 DEF FactsOf, Ascending

-----------------------------------------------------------------------------
(* Batches.                                                                   *)

\* The mutation log only grows at its end.
Grows(l, m) ==
    /\ m \in Seq(BOOLEAN) /\ Len(l) <= Len(m)
    /\ \A i \in 1..Len(l) : m[i] = l[i]

\* Honesty survives a longer log and a daemon that was told more.
LEMMA HonestLater ==
    ASSUME NEW l \in Seq(BOOLEAN), NEW m, Grows(l, m), NEW n \in Nat, NEW S, NEW T,
           S \subseteq T, Honest(l, n, S)
    PROVE  Honest(m, n, T)
    BY SMTT(60) DEF Grows, Honest

\* The same of a queue of batches.
LEMMA BatchesLater ==
    ASSUME NEW l \in Seq(BOOLEAN), NEW m, Grows(l, m), NEW q \in Seq(Frames), NEW S, NEW T,
           S \subseteq T, Batches(l, q, S)
    PROVE  Batches(m, q, T)
<1> SUFFICES ASSUME NEW k \in 1..Len(q), q[k].kind = "state"
             PROVE  Honest(m, q[k].high, T \cup Entries(q, k))
    BY ZenonT(60) DEF Batches
<1>1. q[k] \in Frames
    BY SMTT(60)
<1>2. q[k].high \in Nat
    BY ZenonT(60), <1>1 DEF Frames
<1>3. Honest(l, q[k].high, S \cup Entries(q, k))
    BY Zenon DEF Batches
<1> QED
    BY ZenonT(60), <1>2, <1>3, HonestLater

\* The queue after its first batch was told.
LEMMA BatchesTold ==
    ASSUME NEW l, NEW q \in Seq(Frames), q # <<>>, NEW S, Batches(l, q, S)
    PROVE  /\ Batches(l, Tail(q), S \cup EntriesOf(Head(q)))
           /\ Queued(q) = EntriesOf(Head(q)) \cup Queued(Tail(q))
           /\ Head(q).kind = "state" => Honest(l, Head(q).high, S \cup EntriesOf(Head(q)))
<1> DEFINE t == Tail(q)
<1>1. t \in Seq(Frames) /\ Len(t) = Len(q) - 1 /\ \A i \in 1..Len(t) : t[i] = q[i + 1]
    BY ZenonT(60), QueueTail
<1>2. Head(q) = q[1] /\ 1 \in 1..Len(q)
    BY SMTT(60)
<1> HIDE DEF t
<1>3. ASSUME NEW k \in 0..Len(t)
      PROVE  Entries(q, k + 1) = EntriesOf(Head(q)) \cup Entries(t, k)
  <2>1. ASSUME NEW i \in 1..k + 1 PROVE i = 1 \/ (i - 1 \in 1..k /\ q[i] = t[i - 1])
    BY SMTT(60), <1>1
  <2>2. ASSUME NEW i \in 1..k PROVE i + 1 \in 1..k + 1 /\ q[i + 1] = t[i]
    BY SMTT(60), <1>1
  <2>3. 1 \in 1..k + 1
    BY SMTT(60)
  <2> QED
    BY ZenonT(60), <1>2, <2>1, <2>2, <2>3 DEF Entries
<1>4. Batches(l, t, S \cup EntriesOf(Head(q)))
  <2> SUFFICES ASSUME NEW k \in 1..Len(t), t[k].kind = "state"
               PROVE  Honest(l, t[k].high, S \cup EntriesOf(Head(q)) \cup Entries(t, k))
    BY Zenon DEF Batches
  <2>1. k + 1 \in 1..Len(q) /\ q[k + 1] = t[k] /\ k \in 0..Len(t)
    BY SMTT(60), <1>1
  <2>2. Honest(l, t[k].high, S \cup Entries(q, k + 1))
    BY Zenon, <2>1 DEF Batches
  <2> QED
    BY ZenonT(60), <1>3, <2>1, <2>2 DEF Honest
<1>5. Queued(q) = EntriesOf(Head(q)) \cup Queued(t)
  <2>1. Len(t) \in 0..Len(t) /\ Len(q) = Len(t) + 1
    BY SMTT(60), <1>1
  <2> QED
    BY ZenonT(60), <1>3, <2>1 DEF Queued
<1>6. Head(q).kind = "state" => Honest(l, Head(q).high, S \cup EntriesOf(Head(q)))
  <2>1. Entries(q, 1) = EntriesOf(Head(q))
    <3>1. \A i \in 1..1 : i = 1
      BY SMTT(60)
    <3> QED
      BY SMTT(60), <1>2, <3>1 DEF Entries
  <2> QED
    BY Zenon, <1>2, <2>1 DEF Batches
<1> QED
    BY ZenonT(60), <1>4, <1>5, <1>6 DEF t

\* The queue after one more frame, which may rest on all before it.
LEMMA BatchesAppended ==
    ASSUME NEW l, NEW q \in Seq(Frames), NEW f \in Frames, NEW S, Batches(l, q, S),
           f.kind = "state" => Honest(l, f.high, S \cup Queued(q) \cup EntriesOf(f))
    PROVE  /\ Batches(l, Append(q, f), S)
           /\ Queued(Append(q, f)) = Queued(q) \cup EntriesOf(f)
<1> DEFINE r == Append(q, f)
<1>1. /\ r \in Seq(Frames) /\ Len(r) = Len(q) + 1 /\ r[Len(q) + 1] = f
      /\ \A i \in 1..Len(q) : r[i] = q[i]
    BY SMTT(60)
<1> HIDE DEF r
<1>2. ASSUME NEW k \in 1..Len(q) PROVE Entries(r, k) = Entries(q, k)
  <2>1. \A i \in 1..k : r[i] = q[i]
    BY SMTT(60), <1>1
  <2> QED
    BY ZenonT(60), <2>1 DEF Entries
<1>3. Queued(r) = Queued(q) \cup EntriesOf(f)
  <2>1. ASSUME NEW i \in 1..Len(r)
        PROVE  (i \in 1..Len(q) /\ r[i] = q[i]) \/ (i = Len(q) + 1 /\ r[i] = f)
    BY SMTT(60), <1>1
  <2>2. \A i \in 1..Len(q) : i \in 1..Len(r)
    BY SMTT(60), <1>1
  <2>3. Len(q) + 1 \in 1..Len(r)
    BY SMTT(60), <1>1
  <2> QED
    BY ZenonT(60), <1>1, <2>1, <2>2, <2>3 DEF Queued, Entries
<1>4. Batches(l, r, S)
  <2> SUFFICES ASSUME NEW k \in 1..Len(r), r[k].kind = "state"
               PROVE  Honest(l, r[k].high, S \cup Entries(r, k))
    BY Zenon DEF Batches
  <2>1. CASE k \in 1..Len(q)
    BY ZenonT(60), <1>1, <1>2, <2>1 DEF Batches
  <2>2. CASE k = Len(q) + 1
    <3>1. Entries(r, k) = Queued(q) \cup EntriesOf(f)
      BY ZenonT(60), <1>1, <1>3, <2>2 DEF Queued
    <3>2. r[k] = f
      BY ZenonT(60), <1>1, <2>2
    <3> QED
      BY ZenonT(60), <3>1, <3>2 DEF Honest
  <2> QED
    BY SMTT(60), <1>1, <2>1, <2>2
<1> QED
    BY ZenonT(60), <1>3, <1>4 DEF r

\* The queue of which a break leaves a prefix.
LEMMA BatchesPrefix ==
    ASSUME NEW l, NEW q \in Seq(Frames), NEW m \in 0..Len(q), NEW S, Batches(l, q, S)
    PROVE  Batches(l, SubSeq(q, 1, m), S)
<1> DEFINE r == SubSeq(q, 1, m)
<1>1. r \in Seq(Frames) /\ Len(r) = m /\ \A i \in 1..m : r[i] = q[i]
    BY ZenonT(60), Prefix
<1> HIDE DEF r
<1> SUFFICES ASSUME NEW k \in 1..Len(r), r[k].kind = "state"
             PROVE  Honest(l, r[k].high, S \cup Entries(r, k))
    BY Zenon DEF Batches, r
<1>2. k \in 1..Len(q) /\ r[k] = q[k] /\ \A i \in 1..k : r[i] = q[i]
    BY SMTT(60), <1>1
<1>3. Entries(r, k) = Entries(q, k)
    BY ZenonT(60), <1>2 DEF Entries
<1> QED
    BY Zenon, <1>2, <1>3 DEF Batches

\* Queues of no frames.
LEMMA NoBatches ==
    Queued(<<>>) = {} /\ \A l, S : Batches(l, <<>>, S)
    BY SMTT(60) DEF Queued, Entries, Batches

\* A bounded set of numbers that is not empty has a greatest element.
LEMMA HasGreatest ==
    ASSUME NEW k \in Nat, NEW S, S \subseteq 0..k, S # {}
    PROVE  \E m \in S : \A n \in S : n <= m
<1> DEFINE B == {u \in Nat : \A n \in S : n <= u}
<1>1. k \in B /\ B \subseteq Nat
    BY SMTT(60)
<1>2. PICK u \in B : \A v \in B : ~(<<v, u>> \in OpToRel(<, Nat))
    BY Zenon, <1>1, NatLessThanWellFounded, WFMin
<1>3. \A v \in B : ~(v < u)
    BY Zenon, <1>1, <1>2 DEF OpToRel
<1>4. u \in S
  <2> SUFFICES ASSUME u \notin S PROVE FALSE
    BY ZenonT(60)
  <2>1. \A n \in S : n <= u - 1
    BY SMTT(60) DEF B
  <2>2. PICK n \in S : TRUE
    BY Zenon
  <2>3. u - 1 \in Nat
    BY SMTT(60), <2>1, <2>2
  <2>4. u - 1 \in B
    BY ZenonT(60), <2>1, <2>3
  <2> QED
    BY SMTT(60), <1>3, <2>4
<1> QED
    BY ZenonT(60), <1>4

-----------------------------------------------------------------------------
(* Types and places.                                                          *)

\* The connections are numbered from one.
LEMMA ConnsAreNumbers == Conns \subseteq Nat \ {0} /\ 0 \notin Conns
    BY ZenonT(60), UplinkAssumption

\* Spending a budget leaves a world.
LEMMA WorldSpent ==
    ASSUME world \in World, NEW b \in {"facts", "lapses", "builds", "restarts"}, Has(b), Spend(b)
    PROVE  world' \in World
<1> DEFINE S == Seq(BOOLEAN)  T == 0..1
<1>0. World = [capacity : Nat \ {0}, page : Nat \ {0}, records : Nat, facts : Nat, talks : Nat,
               ops : S, builds : T, cuts : Nat, lapses : Nat, restarts : Nat]
    BY ZenonT(60) DEF World
<1>5. /\ \A n \in Nat : n > 0 => n - 1 \in Nat
      /\ \A n \in T : n > 0 => n - 1 \in T
    BY SMTT(60)
<1> HIDE DEF S, T
<1>1. CASE b = "facts"
  <2>1. world.facts > 0 /\ world' = [world EXCEPT !.facts = world.facts - 1]
    BY Zenon, <1>1 DEF Has, Spend
  <2> QED
    BY Zenon, <1>0, <1>5, <2>1
<1>2. CASE b = "lapses"
  <2>1. world.lapses > 0 /\ world' = [world EXCEPT !.lapses = world.lapses - 1]
    BY Zenon, <1>2 DEF Has, Spend
  <2> QED
    BY Zenon, <1>0, <1>5, <2>1
<1>3. CASE b = "builds"
  <2>1. world.builds > 0 /\ world' = [world EXCEPT !.builds = world.builds - 1]
    BY Zenon, <1>3 DEF Has, Spend
  <2> QED
    BY Zenon, <1>0, <1>5, <2>1
<1>4. CASE b = "restarts"
  <2>1. world.restarts > 0 /\ world' = [world EXCEPT !.restarts = world.restarts - 1]
    BY Zenon, <1>4 DEF Has, Spend
  <2> QED
    BY Zenon, <1>0, <1>5, <2>1
<1> QED
    BY ZenonT(60), <1>1, <1>2, <1>3, <1>4

\* A write to the store lengthens the log or leaves it alone.
LEMMA LoggedGrows ==
    ASSUME log \in Seq(BOOLEAN), NEW writes, Logged(writes)
    PROVE  Grows(log, log')
<1>1. log' = log \/ log' = Append(log, TRUE)
    BY Zenon DEF Logged
<1>2. CASE log' = log
    BY SMTT(60), <1>2 DEF Grows
<1>3. CASE log' = Append(log, TRUE)
  <2>1. /\ Append(log, TRUE) \in Seq(BOOLEAN)
        /\ Len(Append(log, TRUE)) = Len(log) + 1
        /\ \A i \in 1..Len(log) : Append(log, TRUE)[i] = log[i]
    BY SMTT(60)
  <2> QED
    BY SMTT(60), <1>3, <2>1 DEF Grows
<1> QED
    BY Zenon, <1>1, <1>2, <1>3

\* No step shortens or rewrites the log.
LEMMA LogGrows ==
    ASSUME Types, [Next]_vars
    PROVE  Grows(log, log')
<1> USE DEF Types
<1>1. Grows(log, log)
    BY SMTT(60) DEF Grows
<1>2. CASE Mutate
  <2>1. world.ops \in Seq(BOOLEAN) /\ world.ops # <<>>
    BY ZenonT(60), <1>2 DEF Mutate, World
  <2>2. Head(world.ops) \in BOOLEAN
    BY SMTT(60), <2>1
  <2> QED
    BY SMTT(60), <1>2, <2>2, QueueAppend DEF Mutate, Grows
<1>3. CASE Declare
    BY ZenonT(60), <1>1, <1>3, LoggedGrows DEF Declare
<1>4. CASE Place \/ Building
    BY Zenon, <1>1, <1>4, LoggedGrows DEF Place, Building, AwaitBuild, Dispatch
<1>5. ASSUME NEW c \in Conns, Serve(c) PROVE Grows(log, log')
    BY ZenonT(60), <1>1, <1>5, LoggedGrows
       DEF Serve, Accept, Upsert, PushPage, Check, Fold, Eof, NeverRegistered, Unreach, Release
<1>6. CASE \/ ReportFact \/ Heartbeat \/ WriteLoop \/ UplinkLoop \/ Sweep \/ Restart \/ Cut
           \/ \E c \in Conns : Forward(c)
    BY Zenon, <1>1, <1>6
       DEF ReportFact, Heartbeat, WriteLoop, Pop, WriteEvent, WriteFails, UplinkLoop, Dial, Receive,
           ReadFails, Hangup, Sweep, Restart, Cut, Forward, daemon
<1>7. CASE UNCHANGED vars
    BY ZenonT(60), <1>1, <1>7 DEF vars
<1> QED
    BY ZenonT(60), <1>2, <1>3, <1>4, <1>5, <1>6, <1>7 DEF Next

\* The daemon's steps keep the types.
LEMMA DaemonTypes ==
    ASSUME Types, ReportFact \/ Heartbeat \/ WriteLoop \/ UplinkLoop
    PROVE  Types'
<1> USE DEF Types
<1>1. CASE ReportFact
  <2>1. Event("fact", reported + 1) \in Events
    BY SMTT(60) DEF Event, Events
  <2>2. world' \in World /\ sink' \in Seq(Events)
    BY Zenon, <1>1, <2>1, WorldSpent, AfterReport DEF ReportFact
  <2>3. reported' \in Nat
    BY SMTT(60), <1>1 DEF ReportFact
  <2> QED
    BY Zenon, <1>1, <2>2, <2>3 DEF ReportFact, network, sessions
<1>2. CASE Heartbeat
  <2>1. Event("beat", 0) \in Events
    BY ZenonT(60) DEF Event, Events
  <2>2. sink' \in Seq(Events)
    BY Zenon, <1>2, <2>1, AfterReport DEF Heartbeat
  <2> QED
    BY Zenon, <1>2, <2>2 DEF Heartbeat, network, sessions
<1>3. CASE Pop
  <2>1. Head(sink) \in Events /\ sink' \in Seq(Events)
    BY ZenonT(60), <1>3, AfterTake DEF Pop
  <2> QED
    BY SMTT(60), <1>3, <2>1 DEF Pop, network, sessions
<1>4. CASE WriteEvent
  <2>1. Head(holding) \in Events /\ link \in Conns
    BY ZenonT(60), <1>4, AfterTake DEF WriteEvent
  <2>2. Append(up[link], Head(holding)) \in Seq(Events)
    BY SMTT(60), <2>1
  <2>3. up' \in [Conns -> Seq(Events)]
    BY ZenonT(60), <1>4, <2>2 DEF WriteEvent
  <2>4. <<>> \in Seq(Events) /\ Len(<<>>) <= 1
    BY SMTT(60)
  <2> QED
    BY Zenon, <1>4, <2>3, <2>4 DEF WriteEvent, sessions
<1>5. ASSUME NEW q \in Seq(Events), Hangup(q) PROVE Types'
  <2>1. <<>> \in Seq(Events) /\ <<>> \in Seq(Frames) /\ Len(<<>>) <= 1
    BY SMTT(60)
  <2> QED
    BY Zenon, <1>5, <2>1 DEF Hangup, sessions
<1>6. CASE WriteFails
  <2>1. Requeued(sink, Head(holding)) \in Seq(Events)
    BY Zenon, <1>6, AfterTake, AfterRequeue DEF WriteFails
  <2> QED
    BY Zenon, <1>5, <1>6, <2>1 DEF WriteFails
<1>7. CASE ReadFails
    BY Zenon, <1>5, <1>7 DEF ReadFails
<1>8. CASE Dial
  <2>1. Event("register", cursor) \in Events
    BY ZenonT(60) DEF Event, Events
  <2>2. up' \in [Conns -> Seq(Events)]
    BY SMTT(60), <1>8, <2>1 DEF Dial
  <2>3. dialled' \in Nat /\ link' \in Conns
    BY SMTT(60), <1>8 DEF Dial
  <2> QED
    BY Zenon, <1>8, <2>2, <2>3 DEF Dial, sessions
<1>9. CASE Receive
  <2> DEFINE f == Head(down[link])
  <2>1. link \in Conns /\ down[link] \in Seq(Frames) /\ down[link] # <<>>
    BY ZenonT(60), <1>9 DEF Receive
  <2>2. f \in Frames /\ Tail(down[link]) \in Seq(Frames)
    BY ZenonT(60), <2>1, QueueTail
  <2>3. f.kind = "state" => f.high \in Nat /\ f.entries \in SUBSET Nat
    BY ZenonT(60), <2>2 DEF Frames
  <2>4. down' \in [Conns -> Seq(Frames)]
    BY ZenonT(60), <1>9, <2>1, <2>2 DEF Receive
  <2>5. Event("ack", 0) \in Events /\ Event("built", 0) \in Events
    BY ZenonT(60) DEF Event, Events
  <2>6. sink' \in Seq(Events)
    BY ZenonT(60), <1>9, <2>5, AfterReport DEF Receive
  <2>7. cursor' \in Nat /\ told' \in SUBSET Nat
    BY Zenon, <1>9, <2>3 DEF Receive
  <2> QED
    BY ZenonT(60), <1>9, <2>4, <2>6, <2>7 DEF Receive, sessions
<1> QED
    BY Zenon, <1>1, <1>2, <1>3, <1>4, <1>6, <1>7, <1>8, <1>9 DEF WriteLoop, UplinkLoop

\* What a page of the log holds: no entry of it is beyond the log, and whatever lies
\* between its start and the high water has an entry there or none at all.
LEMMA PageOfLog ==
    ASSUME Types, NEW after \in Nat
    PROVE  LET batch   == MutationsSince(after)
               next    == NextSeq(batch, after)
               entries == {i \in batch.entries : log[i]}
               high    == HighWater(entries, next)
           IN /\ batch.entries \subseteq Nat /\ next \in Nat /\ high \in Nat
              /\ \A S : Honest(log, after, S) =>
                    Honest(log, next, S \cup entries) /\ Honest(log, high, S \cup entries)
<1> DEFINE b == MutationsSince(after).entries
           next == NextSeq(MutationsSince(after), after)
           entries == {i \in b : log[i]}
           high == HighWater(entries, next)
<1>1. world.page \in Nat /\ log \in Seq(BOOLEAN) /\ Len(log) \in Nat
    BY SMTT(60) DEF Types, World
<1>2. b = {i \in after + 1 .. after + world.page : i <= Len(log)}
    BY ZenonT(60) DEF MutationsSince
<1>3. b \subseteq 0..Len(log)
    BY SMTT(60), <1>1, <1>2
<1>4. next \in Nat /\ \A i \in after + 1 .. next : i \in b
  <2>1. CASE b = {}
    BY SMTT(60), <2>1 DEF NextSeq
  <2>2. CASE b # {}
    <3>1. next \in b
      BY ZenonT(60), <1>1, <1>3, <2>2, HasGreatest DEF NextSeq
    <3> QED
      BY SMTT(60), <1>1, <1>2, <3>1
  <2> QED
    BY ZenonT(60), <2>1, <2>2
<1>5. high \in Nat /\ (high \in b \/ high = next)
  <2>1. CASE entries = {}
    BY ZenonT(60), <1>4, <2>1 DEF HighWater
  <2>2. CASE entries # {}
    <3>1. entries \subseteq 0..Len(log)
      BY ZenonT(60), <1>3
    <3>2. high \in entries
      BY Zenon, <1>1, <2>2, <3>1, HasGreatest DEF HighWater
    <3> QED
      BY SMTT(60), <1>3, <3>2
  <2> QED
    BY ZenonT(60), <2>1, <2>2
<1> HIDE DEF b, next, high
<1>6. \A i \in after + 1 .. high : i \in b
    BY SMTT(60), <1>1, <1>2, <1>4, <1>5
<1>7. ASSUME NEW S, Honest(log, after, S), NEW n \in {next, high}
      PROVE  Honest(log, n, S \cup entries)
  <2> SUFFICES ASSUME NEW i \in 1..n
               PROVE  i <= Len(log) /\ (log[i] => i \in S \cup entries)
    BY ZenonT(60) DEF Honest
  <2>1. CASE i <= after
    BY SMTT(60), <1>4, <1>5, <1>7, <2>1 DEF Honest
  <2>2. CASE ~(i <= after)
    <3>1. i \in b
      BY SMTT(60), <1>4, <1>5, <1>6, <2>2
    <3> QED
      BY SMTT(60), <1>3, <3>1
  <2> QED
    BY ZenonT(60), <2>1, <2>2
<1> QED
    BY SMTT(60), <1>3, <1>4, <1>5, <1>7 DEF b, next, high

\* The coordinator's steps keep the types.
LEMMA SessionTypes ==
    ASSUME Types, Placed, NEW c \in Conns, Serve(c) \/ Forward(c)
    PROVE  Types'
<1> USE DEF Types
<1>0. Grows(log, log')
    BY ZenonT(60), LogGrows DEF Next
<1>1. log' \in Seq(BOOLEAN)
    BY ZenonT(60), <1>0 DEF Grows
<1>2. <<>> \in Seq(Events) /\ <<>> \in Seq(Frames)
    BY SMTT(60)
<1>3. ASSUME Leave(c) PROVE up' \in [Conns -> Seq(Events)] /\ outbound' \in [Conns -> Seq(Frames)]
    BY Zenon, <1>2, <1>3 DEF Leave
<1>4. CASE Accept(c)
  <2>1. Head(up[c]) \in Events /\ Tail(up[c]) \in Seq(Events)
    BY ZenonT(60), <1>4, AfterTake DEF Accept
  <2>2. Head(up[c]).n \in Nat
    BY ZenonT(60), <2>1 DEF Events
  <2>3. up' \in [Conns -> Seq(Events)] /\ page' \in [Conns -> Nat]
    BY Zenon, <1>4, <2>1, <2>2 DEF Accept
  <2>4. session' \in [Conns -> States] /\ registry' \in Conns
    BY ZenonT(60), <1>4 DEF Accept, States
  <2> QED
    BY Zenon, <1>1, <1>4, <2>3, <2>4 DEF Accept, daemon
<1>5. CASE Upsert(c) \/ Unreach(c) \/ Release(c) \/ NeverRegistered(c)
  <2>1. session' \in [Conns -> States]
    BY Zenon, <1>5 DEF Upsert, Unreach, Release, NeverRegistered, States
  <2> QED
    BY Zenon, <1>1, <1>5, <2>1 DEF Upsert, Unreach, Release, NeverRegistered, daemon, network
<1>6. CASE PushPage(c)
  <2> DEFINE batch == MutationsSince(page[c])
             next == NextSeq(batch, page[c])
             entries == {i \in batch.entries : log[i]}
             f == [kind |-> "state", entries |-> entries, high |-> HighWater(entries, next)]
  <2>1. batch.entries \subseteq Nat /\ next \in Nat /\ HighWater(entries, next) \in Nat
    BY Zenon, PageOfLog
  <2>4. f \in Frames
    BY Zenon, <2>1 DEF Frames
  <2>5. Append(outbound[c], f) \in Seq(Frames)
    BY SMTT(60), <2>4
  <2>6. outbound' \in [Conns -> Seq(Frames)]
    BY ZenonT(60), <1>6, <2>5 DEF PushPage
  <2>7. page' \in [Conns -> Nat]
    BY ZenonT(60), <1>6, <2>1 DEF PushPage
  <2>8. session' \in [Conns -> States]
    BY ZenonT(60), <1>6 DEF PushPage, States
  <2> QED
    BY Zenon, <1>1, <1>6, <2>6, <2>7, <2>8 DEF PushPage, daemon, network
<1>7. CASE Check(c)
  <2>1. up' \in [Conns -> Seq(Events)] /\ outbound' \in [Conns -> Seq(Frames)]
    BY Zenon, <1>3, <1>7 DEF Check
  <2>2. session' \in [Conns -> States] /\ registry' \in Conns \cup {0}
    BY ZenonT(60), <1>7 DEF Check, Leave, States
  <2> QED
    BY Zenon, <1>1, <1>7, <2>1, <2>2 DEF Check, daemon
<1>8. CASE Fold(c)
  <2>1. up[c] # <<>>
    BY ZenonT(60), <1>8 DEF Fold, Placed, PlacedOn
  <2>2. Head(up[c]) \in Events /\ Tail(up[c]) \in Seq(Events)
    BY ZenonT(60), <2>1, AfterTake
  <2>3. <<c, Head(up[c]).n>> \in Conns \X Nat
    BY ZenonT(60), <2>2 DEF Events
  <2>4. folded' \in Seq(Conns \X Nat)
    BY SMTT(60), <1>8, <2>3 DEF Fold
  <2>5. session' \in [Conns -> States] /\ up' \in [Conns -> Seq(Events)]
    BY Zenon, <1>8, <2>2 DEF Fold, States
  <2> QED
    BY Zenon, <1>1, <1>8, <2>4, <2>5 DEF Fold, daemon
<1>9. CASE Eof(c)
  <2>1. session' \in [Conns -> States] /\ registry' \in Conns \cup {0}
    BY ZenonT(60), <1>9 DEF Eof, Leave, States
  <2>2. up' \in [Conns -> Seq(Events)] /\ outbound' \in [Conns -> Seq(Frames)]
    BY Zenon, <1>3, <1>9 DEF Eof
  <2> QED
    BY Zenon, <1>1, <1>9, <2>1, <2>2 DEF Eof, daemon
<1>10. CASE Forward(c)
  <2>1. Head(outbound[c]) \in Frames /\ Tail(outbound[c]) \in Seq(Frames)
    BY ZenonT(60), <1>10, QueueTail DEF Forward
  <2>2. Append(down[c], Head(outbound[c])) \in Seq(Frames)
    BY SMTT(60), <2>1
  <2>3. down' \in [Conns -> Seq(Frames)]
    BY ZenonT(60), <1>10, <2>2 DEF Forward
  <2> QED
    BY ZenonT(60), <1>1, <1>10, <2>1, <2>3 DEF Forward, daemon
<1> QED
    BY Zenon, <1>4, <1>5, <1>6, <1>7, <1>8, <1>9, <1>10 DEF Serve

\* So does every step.
LEMMA TypesKept ==
    ASSUME Types, Placed, [Next]_vars
    PROVE  Types'
<1> USE DEF Types
<1>1. log' \in Seq(BOOLEAN)
    BY Zenon, LogGrows DEF Grows
<1>2. <<>> \in Seq(Events) /\ <<>> \in Seq(Frames)
    BY SMTT(60)
<1>3. CASE Mutate
  <2>1. world.ops \in Seq(BOOLEAN) /\ world.ops # <<>>
    BY ZenonT(60), <1>3 DEF Mutate, World
  <2>2. Tail(world.ops) \in Seq(BOOLEAN)
    BY Zenon, <2>1, QueueTail
  <2>3. world' \in World
    BY Zenon, <1>3, <2>2 DEF Mutate, World
  <2> QED
    BY Zenon, <1>1, <1>3, <2>3 DEF Mutate, daemon, network, sessions
<1>4. CASE Sweep
    BY ZenonT(60), <1>4, WorldSpent DEF Sweep, daemon, network, sessions
<1>5. CASE Declare
    BY ZenonT(60), <1>1, <1>5 DEF Declare, daemon, network, sessions
<1>6. CASE Place
    BY Zenon, <1>1, <1>6, WorldSpent DEF Place, daemon, network, sessions
<1>7. CASE AwaitBuild
    BY Zenon, <1>1, <1>7 DEF AwaitBuild, daemon, network, sessions
<1>8. CASE Dispatch
  <2>1. [kind |-> "build"] \in Frames
    BY ZenonT(60) DEF Frames
  <2>2. CASE registry # 0 /\ Len(outbound[registry]) < OutboundDepth
    <3>1. Append(outbound[registry], [kind |-> "build"]) \in Seq(Frames) /\ registry \in Conns
      BY SMTT(60), <2>1, <2>2
    <3>2. outbound' = [outbound EXCEPT ![registry] = Append(outbound[registry], [kind |-> "build"])]
      BY Zenon, <1>8, <2>2 DEF Dispatch
    <3>3. outbound' \in [Conns -> Seq(Frames)]
      BY ZenonT(60), <3>1, <3>2
    <3> QED
      BY Zenon, <1>1, <1>8, <3>3 DEF Dispatch, daemon, network
  <2>3. CASE ~(registry # 0 /\ Len(outbound[registry]) < OutboundDepth)
    BY Zenon, <1>1, <1>8, <2>3 DEF Dispatch, daemon, network
  <2> QED
    BY Zenon, <2>2, <2>3
<1>9. CASE Restart
  <2>1. world' \in World
    BY ZenonT(60), <1>9, WorldSpent DEF Restart
  <2>2. session' \in [Conns -> States]
    BY ZenonT(60), <1>9 DEF Restart, States
  <2>3. up' \in [Conns -> Seq(Events)] /\ outbound' \in [Conns -> Seq(Frames)]
    BY ZenonT(60), <1>2, <1>9 DEF Restart
  <2> QED
    BY Zenon, <1>1, <1>9, <2>1, <2>2, <2>3 DEF Restart, daemon
<1>10. CASE Cut
  <2>1. PICK n \in 0..Len(up[link]), m \in 0..Len(down[link]) :
            /\ up' = [up EXCEPT ![link] = SubSeq(@, 1, n)]
            /\ down' = [down EXCEPT ![link] = SubSeq(@, 1, m)]
    BY Zenon, <1>10 DEF Cut
  <2>2. link \in Conns
    BY SMTT(60), <1>10 DEF Cut
  <2>3. SubSeq(up[link], 1, n) \in Seq(Events) /\ SubSeq(down[link], 1, m) \in Seq(Frames)
    BY Zenon, <2>2, Prefix
  <2> QED
    BY Zenon, <1>1, <1>10, <2>1, <2>3 DEF Cut, daemon, sessions
<1>11. CASE UNCHANGED vars
    BY ZenonT(60), <1>11 DEF vars, daemon, network, sessions
<1> QED
    BY Zenon, <1>3, <1>4, <1>5, <1>6, <1>7, <1>8, <1>9, <1>10, <1>11, DaemonTypes, SessionTypes
       DEF Next, Building

\* A connection that a step leaves alone keeps its place.
LEMMA PlacedSame ==
    ASSUME NEW c \in Conns, PlacedOn(c), UNCHANGED <<link, dialled, broken>>,
           up'[c] = up[c], down'[c] = down[c], outbound'[c] = outbound[c], session'[c] = session[c]
    PROVE  PlacedOn(c)'
    BY Zenon DEF PlacedOn

\* The daemon's steps and the network's keep the places.
LEMMA DaemonPlaced ==
    ASSUME Types, Placed, ReportFact \/ Heartbeat \/ WriteLoop \/ UplinkLoop \/ Cut
    PROVE  Placed'
<1>1. /\ up \in [Conns -> Seq(Events)] /\ down \in [Conns -> Seq(Frames)]
      /\ dialled \in Nat /\ link \in Conns \cup {0} /\ registry \in Conns \cup {0}
      /\ holding \in Seq(Events)
    BY ZenonT(60) DEF Types
<1>2. /\ link \in {0, dialled} /\ registry <= dialled /\ \A c \in Conns : PlacedOn(c)
      /\ Conns \subseteq Nat /\ 0 \notin Conns
    BY ZenonT(60), ConnsAreNumbers DEF Placed
<1>3. CASE ReportFact \/ Heartbeat \/ Pop
  <2>1. UNCHANGED <<link, dialled, registry, broken, up, down, outbound, session>>
    BY ZenonT(60), <1>3 DEF ReportFact, Heartbeat, Pop, network, sessions
  <2> QED
    BY ZenonT(60), <1>2, <2>1, PlacedSame DEF Placed
<1>4. CASE WriteEvent
  <2>1. /\ link \in Conns /\ link = dialled /\ Head(holding) \in Events
        /\ UNCHANGED <<link, dialled, down, broken, session, outbound, registry>>
    BY ZenonT(60), <1>1, <1>2, <1>4, AfterTake DEF WriteEvent, sessions
  <2>2. Append(up[link], Head(holding)) # <<>>
    <3>1. up[link] \in Seq(Events)
      BY ZenonT(60), <1>1, <2>1
    <3>2. Len(Append(up[link], Head(holding))) = Len(up[link]) + 1 /\ Len(up[link]) \in Nat
      BY SMTT(60), <2>1, <3>1, QueueAppend, QueueLen
    <3>3. Len(<<>>) = 0
      BY ZenonT(60)
    <3> QED
      BY SMTT(60), <3>2, <3>3
  <2>3. ASSUME NEW c \in Conns
        PROVE  (c # link => up'[c] = up[c]) /\ (up[c] # <<>> => up'[c] # <<>>)
    BY ZenonT(60), <1>1, <1>4, <2>1, <2>2 DEF WriteEvent
  <2>4. ASSUME NEW c \in Conns PROVE PlacedOn(c)'
    BY SMTT(60), <1>2, <2>1, <2>3 DEF PlacedOn
  <2> QED
    BY ZenonT(60), <1>2, <2>1, <2>4 DEF Placed
<1>5. ASSUME NEW q, Hangup(q), link # 0 PROVE Placed'
  <2>1. /\ link' = 0 /\ UNCHANGED <<dialled, registry, up, outbound, session>>
        /\ down' = [down EXCEPT ![link] = <<>>]
    BY ZenonT(60), <1>5 DEF Hangup, sessions
  <2>2. ASSUME NEW c \in Conns PROVE PlacedOn(c)'
    BY ZenonT(60), <1>1, <1>2, <2>1 DEF PlacedOn
  <2> QED
    BY ZenonT(60), <1>2, <2>1, <2>2 DEF Placed
<1>6. CASE WriteFails
    BY ZenonT(60), <1>5, <1>6 DEF WriteFails
<1>7. CASE ReadFails
    BY ZenonT(60), <1>5, <1>7 DEF ReadFails
<1>8. CASE Dial
  <2>1. /\ link = 0 /\ link' = dialled + 1 /\ dialled' = dialled + 1 /\ dialled + 1 \in Conns
        /\ up' = [up EXCEPT ![dialled + 1] = <<Event("register", cursor)>>]
        /\ UNCHANGED <<down, outbound, session, registry>>
    BY ZenonT(60), <1>8 DEF Dial, sessions
  <2>2. ASSUME NEW c \in Conns PROVE PlacedOn(c)'
    <3>1. CASE c = dialled + 1
      <4>1. up'[c] # <<>>
        BY ZenonT(60), <1>1, <2>1, <3>1
      <4> QED
        BY SMTT(60), <1>1, <1>2, <2>1, <3>1, <4>1 DEF PlacedOn
    <3>2. CASE c # dialled + 1
      <4>1. up'[c] = up[c] /\ (c > dialled' => c > dialled)
        BY SMTT(60), <1>1, <1>2, <2>1, <3>2
      <4> QED
        BY ZenonT(60), <1>1, <1>2, <2>1, <3>2, <4>1 DEF PlacedOn
    <3> QED
      BY ZenonT(60), <3>1, <3>2
  <2> QED
    BY SMTT(60), <1>1, <1>2, <2>1, <2>2 DEF Placed
<1>9. CASE Receive
  <2>1. /\ link # 0 /\ down' = [down EXCEPT ![link] = Tail(@)]
        /\ UNCHANGED <<link, dialled, up, broken, outbound, session, registry>>
    BY ZenonT(60), <1>9 DEF Receive, sessions
  <2>2. ASSUME NEW c \in Conns PROVE PlacedOn(c)'
    BY ZenonT(60), <1>1, <1>2, <2>1 DEF PlacedOn
  <2> QED
    BY ZenonT(60), <1>2, <2>1, <2>2 DEF Placed
<1>10. CASE Cut
  <2>1. PICK n \in 0..Len(up[link]), m \in 0..Len(down[link]) :
            /\ session[link] = "fold" => n > 0
            /\ up' = [up EXCEPT ![link] = SubSeq(@, 1, n)]
            /\ down' = [down EXCEPT ![link] = SubSeq(@, 1, m)]
    BY ZenonT(60), <1>10 DEF Cut
  <2>2. /\ link \in Conns /\ link = dialled /\ broken' = TRUE
        /\ UNCHANGED <<link, dialled, session, outbound, registry>>
    BY SMTT(60), <1>1, <1>2, <1>10 DEF Cut, daemon, sessions
  <2>3. Len(SubSeq(up[link], 1, n)) = n
    BY SMTT(60), <1>1, <2>2, Prefix
  <2>4. n > 0 => SubSeq(up[link], 1, n) # <<>>
    <3>1. Len(<<>>) = 0
      BY ZenonT(60)
    <3> QED
      BY SMTT(60), <2>3, <3>1
  <2>5. /\ \A c \in Conns : c # link => up'[c] = up[c] /\ down'[c] = down[c]
        /\ session[link] = "fold" => up'[link] # <<>>
    BY ZenonT(60), <1>1, <2>1, <2>2, <2>4
  <2>6. PlacedOn(link)'
    BY SMTT(60), <1>1, <1>2, <2>2, <2>5 DEF PlacedOn
  <2>7. ASSUME NEW c \in Conns PROVE PlacedOn(c)'
    BY ZenonT(60), <1>2, <2>2, <2>5, <2>6 DEF PlacedOn
  <2> QED
    BY ZenonT(60), <1>2, <2>2, <2>7 DEF Placed
<1> QED
    BY ZenonT(60), <1>3, <1>4, <1>6, <1>7, <1>8, <1>9, <1>10 DEF WriteLoop, UplinkLoop

\* The coordinator's steps do too.
LEMMA PlacedKept ==
    ASSUME Types, Placed, [Next]_vars
    PROVE  Placed'
<1>1. /\ up \in [Conns -> Seq(Events)] /\ down \in [Conns -> Seq(Frames)]
      /\ outbound \in [Conns -> Seq(Frames)] /\ session \in [Conns -> States]
      /\ dialled \in Nat /\ link \in Conns \cup {0} /\ registry \in Conns \cup {0}
    BY ZenonT(60) DEF Types
<1>2. /\ link \in {0, dialled} /\ registry <= dialled /\ \A c \in Conns : PlacedOn(c)
      /\ Conns \subseteq Nat /\ 0 \notin Conns
    BY ZenonT(60), ConnsAreNumbers DEF Placed
<1>3. ASSUME NEW c \in Conns, UNCHANGED <<link, dialled, broken>>, registry' \in {0, c, registry},
             \A d \in Conns : d # c => /\ up'[d] = up[d] /\ down'[d] = down[d]
                                       /\ outbound'[d] = outbound[d] /\ session'[d] = session[d],
             session[c] = "new" => up[c] # <<>> \/ c <= dialled, session'[c] # "new",
             session'[c] = "fold" => up'[c] # <<>>, c # link => down'[c] = down[c]
      PROVE  Placed'
  <2>1. c <= dialled
    BY SMTT(60), <1>1, <1>2, <1>3 DEF PlacedOn
  <2>2. PlacedOn(c)'
    <3>1. ~(c > dialled')
      BY SMTT(60), <1>1, <1>2, <1>3, <2>1
    <3>2. c # link' => down'[c] = <<>>
      BY ZenonT(60), <1>2, <1>3 DEF PlacedOn
    <3> QED
      BY ZenonT(60), <1>3, <3>1, <3>2 DEF PlacedOn
  <2>3. \A d \in Conns : PlacedOn(d)'
    BY ZenonT(60), <1>2, <1>3, <2>2, PlacedSame
  <2>4. registry' <= dialled'
    BY SMTT(60), <1>1, <1>2, <1>3, <2>1
  <2> QED
    BY ZenonT(60), <1>2, <1>3, <2>3, <2>4 DEF Placed
<1>4. ASSUME NEW c \in Conns, Accept(c) PROVE Placed'
    BY ZenonT(60), <1>1, <1>3, <1>4 DEF Accept, daemon
<1>5. ASSUME NEW c \in Conns, Upsert(c) \/ Unreach(c) \/ Release(c)
      PROVE  Placed'
    BY ZenonT(60), <1>1, <1>3, <1>5 DEF Upsert, Unreach, Release, daemon, network
<1>6. ASSUME NEW c \in Conns, PushPage(c) PROVE Placed'
    BY ZenonT(60), <1>1, <1>3, <1>6 DEF PushPage, daemon, network
<1>7. ASSUME NEW c \in Conns, NeverRegistered(c) PROVE Placed'
    BY ZenonT(60), <1>1, <1>3, <1>7 DEF NeverRegistered, Ended, daemon, network
<1>8. ASSUME NEW c \in Conns, Leave(c), session[c] # "new", UNCHANGED <<daemon, down, broken>>
      PROVE  Placed'
    BY ZenonT(60), <1>1, <1>3, <1>8 DEF Leave, daemon
<1>9. ASSUME NEW c \in Conns, Check(c) PROVE Placed'
  <2>1. CASE registry = 0
    BY Zenon, <1>8, <1>9, <2>1 DEF Check
  <2>2. CASE registry # 0
    BY ZenonT(60), <1>1, <1>3, <1>9, <2>2 DEF Check, daemon
  <2> QED
    BY ZenonT(60), <2>1, <2>2
<1>10. ASSUME NEW c \in Conns, Fold(c) PROVE Placed'
    BY ZenonT(60), <1>1, <1>3, <1>10 DEF Fold, daemon
<1>11. ASSUME NEW c \in Conns, Eof(c) PROVE Placed'
    BY ZenonT(60), <1>8, <1>11 DEF Eof
<1>12. ASSUME NEW c \in Conns, Forward(c) PROVE Placed'
  <2>1. /\ \A d \in Conns : d # c => down'[d] = down[d] /\ outbound'[d] = outbound[d]
        /\ c # link => down'[c] = down[c]
        /\ session[c] \in {"serve", "fold"}
        /\ UNCHANGED <<link, dialled, broken, registry, up, session>>
    BY ZenonT(60), <1>1, <1>12 DEF Forward, daemon
  <2>2. session'[c] = "fold" => up'[c] # <<>>
    BY ZenonT(60), <1>2, <2>1 DEF PlacedOn
  <2> QED
    BY ZenonT(60), <1>3, <2>1, <2>2
<1>13. CASE Mutate \/ Sweep \/ Place \/ AwaitBuild
  <2>1. UNCHANGED <<link, dialled, registry, broken, up, down, outbound, session>>
    BY Zenon, <1>13 DEF Mutate, Sweep, Place, AwaitBuild, daemon, network, sessions
  <2> QED
    BY ZenonT(60), <1>2, <2>1, PlacedSame DEF Placed
<1>14. CASE Declare
  <2>1. UNCHANGED <<link, dialled, broken, up, down, outbound, session>> /\ registry' \in {0, registry}
    BY ZenonT(60), <1>14 DEF Declare, daemon, network, sessions
  <2> QED
    BY SMTT(60), <1>1, <1>2, <2>1, PlacedSame DEF Placed
<1>15. CASE Dispatch
  <2>1. /\ UNCHANGED <<link, dialled, registry, broken, up, down, session>>
        /\ \A c \in Conns : c # registry => outbound'[c] = outbound[c]
    BY ZenonT(60), <1>1, <1>15 DEF Dispatch, daemon, network
  <2>2. ASSUME NEW c \in Conns PROVE PlacedOn(c)'
    BY SMTT(60), <1>1, <1>2, <2>1 DEF PlacedOn
  <2> QED
    BY ZenonT(60), <1>2, <2>1, <2>2 DEF Placed
<1>16. CASE Restart
  <2>1. /\ UNCHANGED <<link, dialled, broken, down>> /\ registry' = 0
        /\ session' = [c \in Conns |-> IF c <= dialled THEN "gone" ELSE "new"]
        /\ outbound' = [c \in Conns |-> <<>>] /\ up' = [c \in Conns |-> <<>>]
    BY ZenonT(60), <1>16 DEF Restart, daemon
  <2>2. ASSUME NEW c \in Conns PROVE PlacedOn(c)'
    BY SMTT(60), <1>1, <1>2, <2>1 DEF PlacedOn
  <2> QED
    BY SMTT(60), <1>1, <1>2, <2>1, <2>2 DEF Placed
<1>17. CASE UNCHANGED vars
  <2>1. UNCHANGED <<link, dialled, registry, broken, up, down, outbound, session>>
    BY ZenonT(60), <1>17 DEF vars, daemon, network, sessions
  <2> QED
    BY ZenonT(60), <1>2, <2>1, PlacedSame DEF Placed
<1> QED
    BY ZenonT(60), <1>4, <1>5, <1>6, <1>7, <1>9, <1>10, <1>11, <1>12, <1>13, <1>14, <1>15, <1>16, <1>17,
       DaemonPlaced DEF Next, Serve, Building

-----------------------------------------------------------------------------
(* The cursor.                                                                *)

\* A connection on which a step moves no batch stays honest, even when its session
\* ends and its queue is dropped.
LEMMA CatchUpSame ==
    ASSUME Types, Grows(log, log'), told \subseteq told', NEW c \in Conns, CatchUpOn(c),
           link' = c => link = c, link' = c /\ ~broken' => ~broken,
           session'[c] = "new" /\ up'[c] # <<>> =>
              session[c] = "new" /\ up[c] # <<>> /\ up'[c][1] = up[c][1],
           link' = c =>
              /\ down'[c] = down[c]
              /\ \/ /\ outbound'[c] = outbound[c] /\ page'[c] = page[c]
                    /\ session'[c] \in {"upsert", "catchup"} => session[c] \in {"upsert", "catchup"}
                 \/ outbound'[c] = <<>> /\ session'[c] \notin {"upsert", "catchup"}
    PROVE  CatchUpOn(c)'
<1>1. /\ up[c] \in Seq(Events) /\ down[c] \in Seq(Frames) /\ outbound[c] \in Seq(Frames)
      /\ page[c] \in Nat /\ log \in Seq(BOOLEAN)
    BY ZenonT(60) DEF Types
<1>2. ASSUME session'[c] = "new", up'[c] # <<>>
      PROVE  up'[c][1].kind = "register" /\ Honest(log', up'[c][1].n, told')
  <2>1. up[c][1] \in Events /\ up'[c][1] = up[c][1]
    BY SMTT(60), <1>1, <1>2
  <2>2. up[c][1].n \in Nat
    BY ZenonT(60), <2>1 DEF Events
  <2>3. up[c][1].kind = "register" /\ Honest(log, up[c][1].n, told)
    BY ZenonT(60), <1>2 DEF CatchUpOn
  <2> QED
    BY ZenonT(60), <1>1, <2>1, <2>2, <2>3, HonestLater
<1>3. ASSUME link' = c PROVE Batches(log', down'[c], told')
  <2>1. Batches(log, down[c], told)
    BY ZenonT(60), <1>3 DEF CatchUpOn
  <2> QED
    BY ZenonT(60), <1>1, <1>3, <2>1, BatchesLater
<1>4. ASSUME link' = c, ~broken' PROVE Batches(log', outbound'[c], told' \cup Queued(down'[c]))
  <2>1. CASE outbound'[c] = <<>>
    BY ZenonT(60), <2>1, NoBatches
  <2>2. CASE outbound'[c] = outbound[c]
    <3>1. Batches(log, outbound[c], told \cup Queued(down[c]))
      BY ZenonT(60), <1>4 DEF CatchUpOn
    <3>2. told \cup Queued(down[c]) \subseteq told' \cup Queued(down'[c])
      BY ZenonT(60), <1>4
    <3> DEFINE S == told \cup Queued(down[c])
               T == told' \cup Queued(down'[c])
    <3>3. S \subseteq T /\ Batches(log, outbound[c], S)
      BY Zenon, <3>1, <3>2
    <3> HIDE DEF S, T
    <3>4. Batches(log', outbound[c], T)
      BY ZenonT(60), <1>1, <3>3, BatchesLater
    <3> QED
      BY Zenon, <2>2, <3>4 DEF T
  <2> QED
    BY ZenonT(60), <1>4, <2>1, <2>2
<1>5. ASSUME link' = c, ~broken', session'[c] \in {"upsert", "catchup"}
      PROVE  Honest(log', page'[c], told' \cup Queued(down'[c]) \cup Queued(outbound'[c]))
  <2>1. Honest(log, page[c], told \cup Queued(down[c]) \cup Queued(outbound[c]))
    BY ZenonT(60), <1>5 DEF CatchUpOn
  <2>2. /\ page'[c] = page[c]
        /\ told \cup Queued(down[c]) \cup Queued(outbound[c])
              \subseteq told' \cup Queued(down'[c]) \cup Queued(outbound'[c])
    BY ZenonT(60), <1>5
  <2> DEFINE S == told \cup Queued(down[c]) \cup Queued(outbound[c])
             T == told' \cup Queued(down'[c]) \cup Queued(outbound'[c])
  <2>3. S \subseteq T /\ Honest(log, page[c], S)
    BY ZenonT(60), <2>1, <2>2
  <2> HIDE DEF S, T
  <2>4. Honest(log', page[c], T)
    BY ZenonT(60), <1>1, <2>3, HonestLater
  <2> QED
    BY ZenonT(60), <2>2, <2>4 DEF T
<1> QED
    BY ZenonT(60), <1>2, <1>3, <1>4, <1>5 DEF CatchUpOn

\* The daemon's steps and the network's keep every connection honest.
LEMMA DaemonCatchUp ==
    ASSUME Types, Placed, CatchUp, ReportFact \/ Heartbeat \/ WriteLoop \/ UplinkLoop \/ Cut
    PROVE  CatchUp'
<1>1. /\ up \in [Conns -> Seq(Events)] /\ down \in [Conns -> Seq(Frames)]
      /\ outbound \in [Conns -> Seq(Frames)] /\ holding \in Seq(Events)
      /\ dialled \in Nat /\ cursor \in Nat /\ log \in Seq(BOOLEAN)
      /\ link \in Conns \cup {0} /\ 0 \notin Conns
    BY Zenon, ConnsAreNumbers DEF Types
<1>2. Honest(log, cursor, told) /\ \A c \in Conns : CatchUpOn(c)
    BY ZenonT(60) DEF CatchUp
<1>3. Grows(log, log)
    BY SMTT(60), <1>1 DEF Grows
<1>4. ASSUME UNCHANGED <<log, cursor, told>>, \A c \in Conns : CatchUpOn(c)'
      PROVE  CatchUp'
    BY ZenonT(60), <1>2, <1>4 DEF CatchUp
<1>5. CASE ReportFact \/ Heartbeat \/ Pop
  <2>1. UNCHANGED <<log, cursor, told, link, broken, up, down, outbound, session, page>>
    BY ZenonT(60), <1>5 DEF ReportFact, Heartbeat, Pop, network, sessions
  <2> QED
    BY ZenonT(60), <1>2, <1>3, <1>4, <2>1, CatchUpSame
<1>6. CASE WriteEvent
  <2>1. /\ UNCHANGED <<log, cursor, told, link, broken, down, outbound, session, page>>
        /\ link \in Conns /\ Head(holding) \in Events
    BY ZenonT(60), <1>1, <1>6, AfterTake DEF WriteEvent, sessions
  <2>2. ASSUME NEW c \in Conns, session[c] = "new", up'[c] # <<>>
        PROVE  up[c] # <<>> /\ up'[c][1] = up[c][1]
    <3>1. CASE up' = up
      BY ZenonT(60), <2>2, <3>1
    <3>2. CASE up' # up
      <4>1. /\ ~broken /\ up' = [up EXCEPT ![link] = Append(@, Head(holding))]
        BY ZenonT(60), <1>6, <3>2 DEF WriteEvent
      <4>2. CASE c # link
        BY ZenonT(60), <1>1, <2>1, <2>2, <4>1, <4>2
      <4>3. CASE c = link
        <5>1. up[c] # <<>> /\ up[c] \in Seq(Events)
          BY ZenonT(60), <1>1, <2>2, <4>1, <4>3 DEF Placed, PlacedOn
        <5>2. up'[c] = Append(up[c], Head(holding))
          BY ZenonT(60), <1>1, <2>1, <4>1, <4>3
        <5> QED
          BY SMTT(60), <2>1, <5>1, <5>2
      <4> QED
        BY ZenonT(60), <4>2, <4>3
    <3> QED
      BY ZenonT(60), <3>1, <3>2
  <2> QED
    BY ZenonT(60), <1>2, <1>3, <1>4, <2>1, <2>2, CatchUpSame
<1>7. ASSUME NEW q, Hangup(q) PROVE CatchUp'
  <2>1. UNCHANGED <<log, cursor, told, up, outbound, session, page>> /\ link' = 0
    BY ZenonT(60), <1>7 DEF Hangup, sessions
  <2> QED
    BY ZenonT(60), <1>1, <1>2, <1>3, <1>4, <2>1, CatchUpSame
<1>8. CASE WriteFails \/ ReadFails
    BY ZenonT(60), <1>7, <1>8 DEF WriteFails, ReadFails
<1>9. CASE Dial
  <2>1. /\ link' = dialled + 1 /\ dialled + 1 \in Conns /\ link = 0
        /\ up' = [up EXCEPT ![dialled + 1] = <<Event("register", cursor)>>]
        /\ UNCHANGED <<log, cursor, told, down, broken, outbound, session, page>>
    BY ZenonT(60), <1>9 DEF Dial, sessions
  <2>2. ASSUME NEW c \in Conns PROVE CatchUpOn(c)'
    <3>1. CASE c = dialled + 1
      <4>1. up'[c] = <<Event("register", cursor)>>
        BY ZenonT(60), <1>1, <2>1, <3>1
      <4>2. up'[c][1] = Event("register", cursor)
        BY SMTT(60), <4>1
      <4>3. up'[c][1].kind = "register" /\ up'[c][1].n = cursor
        BY SMTT(60), <4>2 DEF Event
      <4>4. down[c] = <<>> /\ outbound[c] = <<>> /\ session[c] = "new"
        BY SMTT(60), <1>1, <2>1, <3>1 DEF Placed, PlacedOn
      <4> QED
        BY ZenonT(60), <1>2, <2>1, <4>3, <4>4, NoBatches DEF CatchUpOn
    <3>2. CASE c # dialled + 1
      <4>1. up'[c] = up[c]
        BY ZenonT(60), <1>1, <2>1, <3>2
      <4> QED
        BY ZenonT(60), <1>2, <1>3, <2>1, <3>2, <4>1, CatchUpSame
    <3> QED
      BY ZenonT(60), <3>1, <3>2
  <2> QED
    BY ZenonT(60), <1>4, <2>1, <2>2
<1>10. CASE Receive
  <2> DEFINE f == Head(down[link])
  <2>1. /\ link \in Conns /\ down[link] # <<>> /\ down' = [down EXCEPT ![link] = Tail(@)]
        /\ UNCHANGED <<log, link, up, broken, outbound, session, page>>
    BY ZenonT(60), <1>1, <1>10 DEF Receive, sessions
  <2>2. told' = told \cup EntriesOf(f)
    BY ZenonT(60), <1>10 DEF Receive, EntriesOf
  <2>3. f \in Frames
    BY SMTT(60), <1>1, <2>1
  <2>4. /\ Batches(log, Tail(down[link]), told \cup EntriesOf(f))
        /\ Queued(down[link]) = EntriesOf(f) \cup Queued(Tail(down[link]))
        /\ f.kind = "state" => Honest(log, f.high, told \cup EntriesOf(f))
    BY Zenon, <1>1, <1>2, <2>1, BatchesTold DEF CatchUpOn
  <2>5. Honest(log, cursor', told')
    <3>1. Honest(log, cursor, told')
      BY SMTT(60), <1>1, <1>2, <1>3, <2>2, HonestLater
    <3>2. cursor' = cursor \/ (f.kind = "state" /\ cursor' = f.high)
      BY ZenonT(60), <1>10 DEF Receive
    <3> QED
      BY ZenonT(60), <2>2, <2>4, <3>1, <3>2
  <2>6. ASSUME NEW c \in Conns, c # link PROVE CatchUpOn(c)'
    BY ZenonT(60), <1>2, <1>3, <2>1, <2>2, <2>6, CatchUpSame
  <2>7. CatchUpOn(link)'
    <3>1. down'[link] = Tail(down[link]) /\ link' = link
      BY ZenonT(60), <1>1, <2>1
    <3>2. ASSUME session[link] = "new", up[link] # <<>>
          PROVE  up[link][1].kind = "register" /\ Honest(log, up[link][1].n, told')
      <4>1. up[link][1] \in Events
        BY SMTT(60), <1>1, <2>1, <3>2
      <4>2. up[link][1].n \in Nat
        BY ZenonT(60), <4>1 DEF Events
      <4>3. up[link][1].kind = "register" /\ Honest(log, up[link][1].n, told)
        BY Zenon, <1>2, <2>1, <3>2 DEF CatchUpOn
      <4>4. told \subseteq told'
        BY ZenonT(60), <2>2
      <4> QED
        BY ZenonT(60), <1>1, <1>3, <4>2, <4>3, <4>4, HonestLater
    <3>3. told' \cup Queued(Tail(down[link])) = told \cup Queued(down[link])
      BY ZenonT(60), <2>2, <2>4
    <3>4. ASSUME ~broken
          PROVE  Batches(log, outbound[link], told' \cup Queued(Tail(down[link])))
      BY Zenon, <1>2, <2>1, <3>3, <3>4 DEF CatchUpOn
    <3>5. ASSUME ~broken, session[link] \in {"upsert", "catchup"}
          PROVE  Honest(log, page[link],
                        told' \cup Queued(Tail(down[link])) \cup Queued(outbound[link]))
      BY Zenon, <1>2, <2>1, <3>3, <3>5 DEF CatchUpOn
    <3> QED
      BY Zenon, <2>1, <2>2, <2>4, <3>1, <3>2, <3>4, <3>5 DEF CatchUpOn
  <2> QED
    BY ZenonT(60), <2>1, <2>5, <2>6, <2>7 DEF CatchUp
<1>11. CASE Cut
  <2>1. PICK n \in 0..Len(up[link]), m \in 0..Len(down[link]) :
            /\ up' = [up EXCEPT ![link] = SubSeq(@, 1, n)]
            /\ down' = [down EXCEPT ![link] = SubSeq(@, 1, m)]
    BY Zenon, <1>11 DEF Cut
  <2>2. /\ link \in Conns /\ broken' = TRUE
        /\ UNCHANGED <<log, cursor, told, link, outbound, session, page>>
    BY SMTT(60), <1>1, <1>11 DEF Cut, daemon, sessions
  <2>3. ASSUME NEW c \in Conns, c # link PROVE CatchUpOn(c)'
    <3>1. up'[c] = up[c]
      BY ZenonT(60), <1>1, <2>1, <2>3
    <3> QED
      BY ZenonT(60), <1>2, <1>3, <2>2, <2>3, <3>1, CatchUpSame
  <2>4. CatchUpOn(link)'
    <3>1. up'[link] = SubSeq(up[link], 1, n) /\ down'[link] = SubSeq(down[link], 1, m)
      BY ZenonT(60), <1>1, <2>1, <2>2
    <3>2. Batches(log, down'[link], told)
      <4>1. Batches(log, down[link], told) /\ down[link] \in Seq(Frames)
        BY Zenon, <1>1, <1>2, <2>2 DEF CatchUpOn
      <4> QED
        BY ZenonT(60), <3>1, <4>1, BatchesPrefix
    <3>3. ASSUME up'[link] # <<>> PROVE up[link] # <<>> /\ up'[link][1] = up[link][1]
      <4>1. up[link] \in Seq(Events)
        BY ZenonT(60), <1>1, <2>2
      <4>2. Len(up'[link]) = n /\ up'[link] \in Seq(Events) /\ \A i \in 1..n : up'[link][i] = up[link][i]
        BY SMTT(60), <3>1, <4>1, Prefix
      <4> QED
        BY SMTT(60), <3>3, <4>1, <4>2
    <3> QED
      BY Zenon, <1>2, <2>2, <3>2, <3>3 DEF CatchUpOn
  <2> QED
    BY ZenonT(60), <1>4, <2>2, <2>3, <2>4
<1> QED
    BY ZenonT(60), <1>5, <1>6, <1>8, <1>9, <1>10, <1>11 DEF WriteLoop, UplinkLoop

\* The coordinator's steps do too.
LEMMA CatchUpKept ==
    ASSUME Types, Placed, CatchUp, [Next]_vars
    PROVE  CatchUp'
<1>1. /\ up \in [Conns -> Seq(Events)] /\ down \in [Conns -> Seq(Frames)]
      /\ outbound \in [Conns -> Seq(Frames)] /\ session \in [Conns -> States]
      /\ page \in [Conns -> Nat] /\ cursor \in Nat /\ log \in Seq(BOOLEAN)
      /\ link \in Conns \cup {0} /\ registry \in Conns \cup {0}
    BY ZenonT(60) DEF Types
<1>2. Honest(log, cursor, told) /\ \A c \in Conns : CatchUpOn(c)
    BY ZenonT(60) DEF CatchUp
<1>3. Grows(log, log')
    BY ZenonT(60), LogGrows
<1>4. ASSUME UNCHANGED <<cursor, told>>, \A c \in Conns : CatchUpOn(c)'
      PROVE  CatchUp'
  <2>1. Honest(log', cursor, told)
    BY ZenonT(60), <1>1, <1>2, <1>3, HonestLater
  <2> QED
    BY ZenonT(60), <1>4, <2>1 DEF CatchUp
<1>5. ASSUME NEW c \in Conns, UNCHANGED <<daemon, broken>>, CatchUpOn(c)',
             \A d \in Conns : d # c =>
                /\ up'[d] = up[d] /\ down'[d] = down[d] /\ outbound'[d] = outbound[d]
                /\ session'[d] = session[d] /\ page'[d] = page[d]
      PROVE  CatchUp'
  <2>1. UNCHANGED <<cursor, told, link>>
    BY ZenonT(60), <1>5 DEF daemon
  <2>2. \A d \in Conns : CatchUpOn(d)'
    BY ZenonT(60), <1>2, <1>3, <1>5, <2>1, CatchUpSame
  <2> QED
    BY ZenonT(60), <1>4, <2>1, <2>2
<1>6. ASSUME UNCHANGED <<daemon, network, sessions>> PROVE CatchUp'
  <2>1. UNCHANGED <<cursor, told, link, broken, up, down, session, outbound, page>>
    BY ZenonT(60), <1>6 DEF daemon, network, sessions
  <2> QED
    BY ZenonT(60), <1>2, <1>3, <1>4, <2>1, CatchUpSame
<1>7. ASSUME NEW c \in Conns, Accept(c) PROVE CatchUp'
  <2>1. /\ session[c] = "new" /\ up[c] # <<>>
        /\ page' = [page EXCEPT ![c] = Head(up[c]).n]
        /\ up' = [up EXCEPT ![c] = Tail(@)]
        /\ session' = [session EXCEPT ![c] = "upsert"]
        /\ UNCHANGED <<daemon, down, broken, outbound, log, link, told>>
    BY ZenonT(60), <1>7 DEF Accept, daemon
  <2>2. up[c][1] = Head(up[c]) /\ Head(up[c]) \in Events
    BY SMTT(60), <1>1, <2>1
  <2>3. page'[c] = Head(up[c]).n /\ page'[c] \in Nat
    BY ZenonT(60), <1>1, <2>1, <2>2 DEF Events
  <2>4. Honest(log, page'[c], told)
    BY Zenon, <1>2, <2>1, <2>2, <2>3 DEF CatchUpOn
  <2>5. Honest(log', page'[c], told \cup Queued(down[c]) \cup Queued(outbound[c]))
    BY SMTT(60), <1>1, <1>3, <2>3, <2>4, HonestLater
  <2>6. session'[c] = "upsert"
    BY ZenonT(60), <1>1, <2>1
  <2>7. CatchUpOn(c)'
    BY Zenon, <1>2, <2>1, <2>5, <2>6 DEF CatchUpOn
  <2> QED
    BY ZenonT(60), <1>1, <1>5, <2>1, <2>7
<1>8. ASSUME NEW c \in Conns, Upsert(c) \/ NeverRegistered(c) \/ Unreach(c) \/ Release(c)
      PROVE  CatchUp'
  <2>1. /\ UNCHANGED <<daemon, network, outbound, page>>
        /\ \A d \in Conns : d # c => session'[d] = session[d]
        /\ session'[c] # "new"
        /\ session'[c] \in {"upsert", "catchup"} => session[c] \in {"upsert", "catchup"}
    BY Zenon, <1>1, <1>8 DEF Upsert, NeverRegistered, Unreach, Release
  <2>2. UNCHANGED <<told, link, broken, up, down>>
    BY ZenonT(60), <2>1 DEF daemon, network
  <2>3. CatchUpOn(c)'
    BY ZenonT(60), <1>2, <1>3, <2>1, <2>2, CatchUpSame
  <2> QED
    BY ZenonT(60), <1>5, <2>1, <2>2, <2>3
<1>9. ASSUME NEW c \in Conns, PushPage(c) PROVE CatchUp'
  <2> DEFINE batch == MutationsSince(page[c])
             next == NextSeq(batch, page[c])
             entries == {i \in batch.entries : log[i]}
             high == HighWater(entries, next)
             f == [kind |-> "state", entries |-> entries, high |-> high]
             S == told \cup Queued(down[c])
  <2>1. /\ session[c] = "catchup"
        /\ outbound' = [outbound EXCEPT ![c] = Append(@, f)]
        /\ page' = [page EXCEPT ![c] = IF batch.caught_up THEN 0 ELSE next]
        /\ session' = IF batch.caught_up THEN [session EXCEPT ![c] = "serve"] ELSE session
        /\ UNCHANGED <<daemon, network, log>>
    BY ZenonT(60), <1>9 DEF PushPage
  <2>2. /\ batch.entries \subseteq Nat /\ next \in Nat /\ high \in Nat
        /\ \A T : Honest(log, page[c], T) =>
              Honest(log, next, T \cup entries) /\ Honest(log, high, T \cup entries)
    BY ZenonT(60), <1>1, PageOfLog
  <2>3. f \in Frames /\ EntriesOf(f) = entries /\ f.high = high
    BY ZenonT(60), <2>2 DEF Frames, EntriesOf
  <2>4. UNCHANGED <<link, told, broken, up, down>>
    BY ZenonT(60), <2>1 DEF daemon, network
  <2>5. /\ outbound'[c] = Append(outbound[c], f)
        /\ session'[c] # "new" /\ session'[c] # "upsert"
        /\ session'[c] = "catchup" => page'[c] = next
        /\ \A d \in Conns : d # c => /\ outbound'[d] = outbound[d] /\ session'[d] = session[d]
                                     /\ page'[d] = page[d]
    BY ZenonT(60), <1>1, <2>1
  <2> HIDE DEF batch, next, entries, high, f
  <2>6. ASSUME link = c, ~broken
        PROVE  /\ Batches(log, Append(outbound[c], f), S)
               /\ Honest(log, next, S \cup Queued(Append(outbound[c], f)))
    <3>1. Batches(log, outbound[c], S) /\ Honest(log, page[c], S \cup Queued(outbound[c]))
      BY ZenonT(60), <1>2, <2>1, <2>6 DEF CatchUpOn
    <3>2. /\ Honest(log, next, S \cup Queued(outbound[c]) \cup entries)
          /\ Honest(log, high, S \cup Queued(outbound[c]) \cup entries)
      BY ZenonT(60), <2>2, <3>1
    <3>3. /\ Batches(log, Append(outbound[c], f), S)
          /\ Queued(Append(outbound[c], f)) = Queued(outbound[c]) \cup entries
      BY ZenonT(60), <1>1, <2>3, <3>1, <3>2, BatchesAppended
    <3>4. S \cup Queued(outbound[c]) \cup entries = S \cup (Queued(outbound[c]) \cup entries)
      BY ZenonT(60)
    <3> QED
      BY ZenonT(60), <3>2, <3>3, <3>4
  <2>7. CatchUpOn(c)'
    BY ZenonT(60), <1>2, <2>1, <2>4, <2>5, <2>6 DEF CatchUpOn
  <2> QED
    BY ZenonT(60), <1>5, <2>1, <2>4, <2>5, <2>7
<1>10. ASSUME NEW c \in Conns, Leave(c), UNCHANGED <<daemon, down, broken, page>> PROVE CatchUp'
  <2>1. /\ outbound'[c] = <<>> /\ session'[c] = "unreach" /\ UNCHANGED <<told, link>>
        /\ \A d \in Conns : d # c => /\ outbound'[d] = outbound[d] /\ session'[d] = session[d]
                                     /\ up'[d] = up[d]
    BY ZenonT(60), <1>1, <1>10 DEF Leave, daemon
  <2>2. CatchUpOn(c)'
    BY ZenonT(60), <1>2, <1>3, <1>10, <2>1, CatchUpSame
  <2> QED
    BY ZenonT(60), <1>5, <1>10, <2>1, <2>2
<1>11. ASSUME NEW c \in Conns, Check(c) PROVE CatchUp'
  <2>1. CASE registry = 0
    BY ZenonT(60), <1>10, <1>11, <2>1 DEF Check
  <2>2. CASE registry # 0
    <3>1. /\ session'[c] = "fold" /\ UNCHANGED <<daemon, link, told, down, broken, up, outbound, page>>
          /\ \A d \in Conns : d # c => session'[d] = session[d]
      BY ZenonT(60), <1>1, <1>11, <2>2 DEF Check, daemon
    <3>2. CatchUpOn(c)'
      BY ZenonT(60), <1>2, <1>3, <3>1, CatchUpSame
    <3> QED
      BY ZenonT(60), <1>5, <3>1, <3>2
  <2> QED
    BY ZenonT(60), <2>1, <2>2
<1>12. ASSUME NEW c \in Conns, Eof(c) PROVE CatchUp'
    BY ZenonT(60), <1>10, <1>12 DEF Eof
<1>13. ASSUME NEW c \in Conns, Fold(c) PROVE CatchUp'
  <2>1. /\ session'[c] = "serve" /\ UNCHANGED <<daemon, link, told, down, broken, outbound, page>>
        /\ \A d \in Conns : d # c => session'[d] = session[d] /\ up'[d] = up[d]
    BY ZenonT(60), <1>1, <1>13 DEF Fold, daemon
  <2>2. CatchUpOn(c)'
    BY ZenonT(60), <1>2, <1>3, <2>1, CatchUpSame
  <2> QED
    BY ZenonT(60), <1>5, <2>1, <2>2
<1>14. ASSUME NEW c \in Conns, Forward(c) PROVE CatchUp'
  <2>1. /\ session[c] \in {"serve", "fold"} /\ outbound[c] # <<>>
        /\ outbound' = [outbound EXCEPT ![c] = Tail(@)]
        /\ UNCHANGED <<daemon, link, told, up, broken, session, page, log>>
        /\ down' = IF broken \/ link # c THEN down
                   ELSE [down EXCEPT ![c] = Append(@, Head(outbound[c]))]
    BY ZenonT(60), <1>14 DEF Forward, daemon
  <2>2. CatchUpOn(c)'
    <3>1. CASE broken \/ link # c
      BY Zenon, <1>2, <2>1, <3>1 DEF CatchUpOn
    <3>2. CASE ~broken /\ link = c
      <4> DEFINE f == Head(outbound[c])
      <4>1. /\ outbound'[c] = Tail(outbound[c]) /\ down'[c] = Append(down[c], f)
            /\ down[c] \in Seq(Frames) /\ outbound[c] \in Seq(Frames) /\ f \in Frames
        BY SMTT(60), <1>1, <2>1, <3>2
      <4>2. Batches(log, down[c], told) /\ Batches(log, outbound[c], told \cup Queued(down[c]))
        BY Zenon, <1>2, <3>2 DEF CatchUpOn
      <4>3. /\ Batches(log, Tail(outbound[c]), told \cup Queued(down[c]) \cup EntriesOf(f))
            /\ f.kind = "state" => Honest(log, f.high, told \cup Queued(down[c]) \cup EntriesOf(f))
        BY Zenon, <2>1, <4>1, <4>2, BatchesTold
      <4>4. /\ Batches(log, Append(down[c], f), told)
            /\ Queued(Append(down[c], f)) = Queued(down[c]) \cup EntriesOf(f)
        <5> HIDE DEF f
        <5>1. down[c] \in Seq(Frames) /\ f \in Frames /\ Batches(log, down[c], told)
          BY ZenonT(60), <4>1, <4>2
        <5>2. f.kind = "state" => Honest(log, f.high, told \cup Queued(down[c]) \cup EntriesOf(f))
          BY ZenonT(60), <4>3
        <5> QED
          BY Zenon, <5>1, <5>2, BatchesAppended
      <4>5. told \cup Queued(down[c]) \cup EntriesOf(f) = told \cup (Queued(down[c]) \cup EntriesOf(f))
        BY ZenonT(60)
      <4> QED
        BY Zenon, <2>1, <4>1, <4>3, <4>4, <4>5 DEF CatchUpOn
    <3> QED
      BY ZenonT(60), <3>1, <3>2
  <2>3. \A d \in Conns : d # c => outbound'[d] = outbound[d] /\ down'[d] = down[d]
    BY ZenonT(60), <1>1, <2>1
  <2> QED
    BY ZenonT(60), <1>5, <2>1, <2>2, <2>3
<1>15. CASE Mutate \/ Sweep \/ Declare \/ Place \/ AwaitBuild
    BY Zenon, <1>6, <1>15 DEF Mutate, Sweep, Declare, Place, AwaitBuild
<1>16. CASE Dispatch
  <2>1. UNCHANGED <<daemon, network, session, page, log, told, link, broken, up, down>>
    BY ZenonT(60), <1>16 DEF Dispatch, daemon, network
  <2>2. CASE outbound' = outbound
    BY ZenonT(60), <1>6, <2>1, <2>2 DEF sessions
  <2>3. CASE outbound' # outbound
    <3> DEFINE f == [kind |-> "build"]
    <3>1. PICK c \in Conns : outbound' = [outbound EXCEPT ![c] = Append(@, f)]
      BY Zenon, <1>1, <1>16, <2>3 DEF Dispatch
    <3>2. /\ outbound'[c] = Append(outbound[c], f)
          /\ \A d \in Conns : d # c => outbound'[d] = outbound[d]
      BY ZenonT(60), <1>1, <3>1
    <3>3. f \in Frames /\ f.kind # "state" /\ EntriesOf(f) = {} /\ outbound[c] \in Seq(Frames)
      BY ZenonT(60), <1>1, <3>1 DEF Frames, EntriesOf
    <3> HIDE DEF f
    <3>4. ASSUME NEW S, Batches(log, outbound[c], S)
          PROVE  Batches(log, outbound'[c], S) /\ Queued(outbound'[c]) = Queued(outbound[c])
      <4>1. /\ Batches(log, Append(outbound[c], f), S)
            /\ Queued(Append(outbound[c], f)) = Queued(outbound[c]) \cup EntriesOf(f)
        BY Zenon, <3>3, <3>4, BatchesAppended
      <4> QED
        BY ZenonT(60), <3>2, <3>3, <4>1
    <3>5. CatchUpOn(c)'
      BY Zenon, <1>2, <2>1, <3>1, <3>4 DEF CatchUpOn
    <3> QED
      BY ZenonT(60), <1>5, <2>1, <3>1, <3>2, <3>5
  <2> QED
    BY ZenonT(60), <2>2, <2>3
<1>17. CASE Restart
  <2>1. /\ UNCHANGED <<cursor, told, link, broken, down, page>>
        /\ session' = [c \in Conns |-> IF c <= dialled THEN "gone" ELSE "new"]
        /\ outbound' = [c \in Conns |-> <<>>] /\ up' = [c \in Conns |-> <<>>]
    BY ZenonT(60), <1>17 DEF Restart, daemon
  <2>2. ASSUME NEW c \in Conns PROVE CatchUpOn(c)'
    BY ZenonT(60), <1>2, <1>3, <2>1, CatchUpSame
  <2> QED
    BY ZenonT(60), <1>4, <2>1, <2>2
<1>18. CASE UNCHANGED vars
    BY ZenonT(60), <1>6, <1>18 DEF vars
<1> QED
    BY ZenonT(60), <1>7, <1>8, <1>9, <1>11, <1>12, <1>13, <1>14, <1>15, <1>16, <1>17, <1>18, DaemonCatchUp
       DEF Next, Serve, Building

-----------------------------------------------------------------------------
(* The order of the facts.                                                    *)

\* A step that applies and reports no fact keeps the order, whatever it drops.
LEMMA OrderedLess ==
    ASSUME Types, Ordered, folded' = folded, dialled <= dialled', dialled' \in Nat, reported' = reported,
           Ascending(sink'), Before(FactsOf(holding'), FactsOf(sink')), Waiting' \subseteq Waiting,
           \A c \in Conns : Ascending(up'[c]) /\ FactsOf(up'[c]) \subseteq FactsOf(up[c])
    PROVE  Ordered'
<1>1. \A c \in Conns : FoldedOn(c)' = FoldedOn(c) /\ Sent(c)' \subseteq Sent(c)
    BY ZenonT(60) DEF FoldedOn, Sent
<1>2. ASSUME NEW c \in Conns
      PROVE  /\ Before(FoldedOn(c)', FactsOf(up'[c])) /\ Before(Sent(c)', Waiting')
             /\ Sent(c)' \subseteq 1..reported'
             /\ \A d \in Conns : c < d => Before(Sent(c)', Sent(d)')
    BY ZenonT(60), <1>1 DEF Ordered, Before
<1>3. ASSUME NEW c \in Conns, c > dialled' PROVE FoldedOn(c)' = {}
  <2>1. c > dialled
    BY SMTT(60), <1>3, ConnsAreNumbers DEF Types
  <2> QED
    BY ZenonT(60), <1>1, <2>1 DEF Ordered
<1>4. Waiting' \subseteq 1..reported'
    BY ZenonT(60) DEF Ordered
<1> QED
    BY ZenonT(60), <1>2, <1>3, <1>4 DEF Ordered

\* The daemon's steps and the network's keep the order.
LEMMA DaemonOrdered ==
    ASSUME Types, Placed, Ordered, ReportFact \/ Heartbeat \/ WriteLoop \/ UplinkLoop \/ Cut
    PROVE  Ordered'
<1>1. /\ world \in World /\ sink \in Seq(Events) /\ holding \in Seq(Events) /\ Len(holding) <= 1
      /\ up \in [Conns -> Seq(Events)] /\ dialled \in Nat /\ reported \in Nat /\ cursor \in Nat
      /\ link \in Conns \cup {0} /\ Conns \subseteq Nat /\ 0 \notin Conns
    BY ZenonT(60), ConnsAreNumbers DEF Types
<1>2. /\ Ascending(sink) /\ Before(FactsOf(holding), FactsOf(sink)) /\ Waiting \subseteq 1..reported
      /\ \A c \in Conns : Ascending(up[c]) /\ Before(Sent(c), Waiting) /\ Sent(c) \subseteq 1..reported
    BY ZenonT(60) DEF Ordered
<1>3. holding = <<>> \/ (Head(holding) \in Events /\ holding = <<Head(holding)>>)
  <2> SUFFICES ASSUME holding # <<>> PROVE Head(holding) \in Events /\ holding = <<Head(holding)>>
    BY ZenonT(60)
  <2>0. Len(holding) \in Nat /\ Len(holding) # 0
    BY ZenonT(60), <1>1, QueueLen
  <2>1. Len(holding) = 1 /\ Head(holding) = holding[1] /\ Head(holding) \in Events
    <3>1. holding \in Seq(Events) /\ Len(holding) <= 1
      BY ZenonT(60), <1>1
    <3>2. \A l \in Nat : l # 0 /\ l <= 1 => l = 1
      BY SMTT(60)
    <3>3. Len(holding) = 1
      BY Zenon, <2>0, <3>1, <3>2, Zenon
    <3> QED
      BY SMTT(60), <3>1, <3>3
  <2>2. <<Head(holding)>> \in Seq(Events) /\ Len(<<Head(holding)>>) = 1 /\ <<Head(holding)>>[1] = holding[1]
    BY SMTT(60), <2>1
  <2>3. \A i \in 1..1 : i = 1
    BY SMTT(60)
  <2> QED
    BY ZenonT(60), <1>1, <2>1, <2>2, <2>3, QueueSame
<1>4. ASSUME NEW e \in Events, e.kind # "fact", sink' = Reported(sink, e),
             UNCHANGED <<folded, dialled, reported, holding, up>>
      PROVE  Ordered'
  <2>1. {n \in {e.n} : e.kind = "fact"} = {}
    BY ZenonT(60), <1>4
  <2>2. FactsOf(sink') \subseteq FactsOf(sink) /\ Ascending(sink')
    <3>1. Before(FactsOf(sink), {n \in {e.n} : e.kind = "fact"})
      BY ZenonT(60), <2>1 DEF Before
    <3> QED
      BY ZenonT(60), <1>1, <1>2, <1>4, <2>1, <3>1, AfterReport
  <2>3. Waiting' \subseteq Waiting /\ Before(FactsOf(holding'), FactsOf(sink'))
    BY ZenonT(60), <1>2, <1>4, <2>2 DEF Waiting, Before
  <2> QED
    BY SMTT(60), <1>1, <1>2, <1>4, <2>2, <2>3, OrderedLess
<1>5. CASE ReportFact
  <2> DEFINE e == Event("fact", reported + 1)
  <2>1. e \in Events /\ e.kind = "fact" /\ e.n = reported + 1
    BY SMTT(60), <1>1 DEF Event, Events
  <2>2. /\ reported' = reported + 1 /\ sink' = Reported(sink, e)
        /\ UNCHANGED <<folded, dialled, holding, up>>
    BY ZenonT(60), <1>5 DEF ReportFact, network
  <2>3. {n \in {e.n} : e.kind = "fact"} = {reported + 1}
    BY ZenonT(60), <2>1
  <2>4. /\ \A c \in Conns : Before(Sent(c), {reported + 1})
        /\ Before(FactsOf(holding), {reported + 1}) /\ Before(FactsOf(sink), {reported + 1})
    BY SMTT(60), <1>1, <1>2 DEF Before, Waiting
  <2>5. FactsOf(sink') \subseteq FactsOf(sink) \cup {reported + 1} /\ Ascending(sink')
    BY ZenonT(60), <1>1, <1>2, <2>1, <2>2, <2>3, <2>4, AfterReport
  <2>6. Before(FactsOf(holding'), FactsOf(sink'))
    BY ZenonT(60), <1>2, <2>2, <2>4, <2>5 DEF Before
  <2>7. Waiting' \subseteq Waiting \cup {reported + 1}
    BY ZenonT(60), <2>2, <2>5 DEF Waiting
  <2>8. \A c \in Conns : FoldedOn(c)' = FoldedOn(c) /\ Sent(c)' = Sent(c)
    BY ZenonT(60), <2>2 DEF FoldedOn, Sent
  <2>9. ASSUME NEW c \in Conns PROVE Before(Sent(c)', Waiting')
    BY ZenonT(60), <1>2, <2>4, <2>7, <2>8 DEF Before
  <2>10. 1..reported \subseteq 1..reported' /\ reported + 1 \in 1..reported'
    BY SMTT(60), <1>1, <2>2
  <2>11. Waiting' \subseteq 1..reported' /\ \A c \in Conns : Sent(c)' \subseteq 1..reported'
    BY ZenonT(60), <1>2, <2>7, <2>8, <2>10
  <2> QED
    BY ZenonT(60), <2>2, <2>5, <2>6, <2>8, <2>9, <2>11 DEF Ordered
<1>6. CASE Heartbeat
  <2>1. Event("beat", 0) \in Events /\ Event("beat", 0).kind # "fact"
    BY ZenonT(60) DEF Event, Events
  <2> QED
    BY ZenonT(60), <1>4, <1>6, <2>1 DEF Heartbeat, network
<1>7. CASE Receive
  <2>1. ASSUME NEW k \in {"ack", "built"} PROVE Event(k, 0) \in Events /\ Event(k, 0).kind # "fact"
    BY ZenonT(60) DEF Event, Events
  <2>2. PICK k \in {"ack", "built"} : sink' = Reported(sink, Event(k, 0))
    BY ZenonT(60), <1>7 DEF Receive
  <2>3. UNCHANGED <<folded, dialled, reported, holding, up>>
    BY ZenonT(60), <1>7 DEF Receive
  <2> QED
    BY ZenonT(60), <1>4, <2>1, <2>2, <2>3
<1>8. CASE Pop
  <2>1. /\ holding = <<>> /\ sink # <<>> /\ holding' = <<Head(sink)>> /\ sink' = Tail(sink)
        /\ UNCHANGED <<folded, dialled, reported, up>>
    BY ZenonT(60), <1>8 DEF Pop, network
  <2>2. FactsOf(holding') = {n \in {Head(sink).n} : Head(sink).kind = "fact"}
    BY ZenonT(60), <1>1, <2>1, AfterTake, NoFacts
  <2>3. /\ Ascending(sink') /\ FactsOf(sink') \subseteq FactsOf(sink)
        /\ Head(sink).kind = "fact" => Head(sink).n \in FactsOf(sink)
        /\ Head(sink).kind = "fact" => Before({Head(sink).n}, FactsOf(sink'))
    BY Zenon, <1>1, <1>2, <2>1, AfterTake
  <2>4. Before(FactsOf(holding'), FactsOf(sink')) /\ Waiting' \subseteq Waiting
    BY ZenonT(60), <2>2, <2>3 DEF Before, Waiting
  <2> QED
    BY SMTT(60), <1>1, <1>2, <2>1, <2>3, <2>4, OrderedLess
<1>9. ASSUME NEW q, Hangup(q), Ascending(q), FactsOf(q) \subseteq Waiting PROVE Ordered'
  <2>1. holding' = <<>> /\ sink' = q /\ UNCHANGED <<folded, dialled, reported, up>>
    BY ZenonT(60), <1>9 DEF Hangup
  <2>2. FactsOf(holding') = {}
    BY ZenonT(60), <2>1, NoFacts
  <2>3. Before(FactsOf(holding'), FactsOf(sink')) /\ Waiting' \subseteq Waiting /\ Ascending(sink')
    BY ZenonT(60), <1>9, <2>1, <2>2 DEF Before, Waiting
  <2> QED
    BY SMTT(60), <1>1, <1>2, <2>1, <2>3, OrderedLess
<1>10. CASE ReadFails
    BY ZenonT(60), <1>2, <1>9, <1>10 DEF ReadFails, Waiting
<1>11. CASE WriteFails
  <2> DEFINE e == Head(holding)
  <2>1. holding # <<>> /\ e \in Events /\ FactsOf(holding) = {n \in {e.n} : e.kind = "fact"}
    BY ZenonT(60), <1>3, <1>11, NoFacts DEF WriteFails
  <2>2. /\ FactsOf(Requeued(sink, e)) \subseteq FactsOf(sink) \cup FactsOf(holding)
        /\ Ascending(Requeued(sink, e))
    BY ZenonT(60), <1>1, <1>2, <2>1, AfterRequeue
  <2> QED
    BY ZenonT(60), <1>9, <1>11, <2>2 DEF WriteFails, Waiting
<1>12. CASE Dial
  <2>1. /\ dialled + 1 \in Conns /\ dialled' = dialled + 1
        /\ up' = [up EXCEPT ![dialled + 1] = <<Event("register", cursor)>>]
        /\ UNCHANGED <<folded, sink, holding, reported>>
    BY ZenonT(60), <1>12 DEF Dial
  <2>2. Event("register", cursor) \in Events /\ Event("register", cursor).kind # "fact"
    BY ZenonT(60), <1>1 DEF Event, Events
  <2>3. FactsOf(<<Event("register", cursor)>>) = {} /\ Ascending(<<Event("register", cursor)>>)
    BY ZenonT(60), <2>2, NoFacts
  <2>4. \A c \in Conns : Ascending(up'[c]) /\ FactsOf(up'[c]) \subseteq FactsOf(up[c])
    BY ZenonT(60), <1>1, <1>2, <2>1, <2>3
  <2>5. dialled <= dialled' /\ dialled' \in Nat /\ Waiting' = Waiting
    BY SMTT(60), <1>1, <2>1 DEF Waiting
  <2> QED
    BY ZenonT(60), <1>2, <2>1, <2>4, <2>5, OrderedLess
<1>13. CASE Cut
  <2>1. PICK n \in 0..Len(up[link]) : up' = [up EXCEPT ![link] = SubSeq(@, 1, n)]
    BY ZenonT(60), <1>13 DEF Cut
  <2>2. UNCHANGED <<folded, sink, holding, reported, dialled>> /\ link \in Conns
    BY SMTT(60), <1>1, <1>13 DEF Cut, daemon
  <2>3. FactsOf(SubSeq(up[link], 1, n)) \subseteq FactsOf(up[link]) /\ Ascending(SubSeq(up[link], 1, n))
    BY ZenonT(60), <1>1, <1>2, <2>2, AfterBreak
  <2>4. \A c \in Conns : Ascending(up'[c]) /\ FactsOf(up'[c]) \subseteq FactsOf(up[c])
    BY ZenonT(60), <1>1, <1>2, <2>1, <2>3
  <2>5. Waiting' = Waiting /\ dialled <= dialled
    BY SMTT(60), <1>1, <2>2 DEF Waiting
  <2> QED
    BY ZenonT(60), <1>1, <1>2, <2>2, <2>4, <2>5, OrderedLess
<1>14. CASE WriteEvent
  <2> DEFINE e == Head(holding)
  <2>1. /\ link \in Conns /\ link = dialled /\ holding # <<>> /\ holding' = <<>>
        /\ UNCHANGED <<folded, sink, reported, dialled>>
    BY ZenonT(60), <1>1, <1>14 DEF WriteEvent, Placed
  <2>2. e \in Events /\ FactsOf(holding) = {n \in {e.n} : e.kind = "fact"} /\ FactsOf(holding') = {}
    BY ZenonT(60), <1>3, <2>1, NoFacts
  <2>3. Waiting' = FactsOf(sink) /\ Waiting = FactsOf(holding) \cup FactsOf(sink)
    BY ZenonT(60), <2>1, <2>2 DEF Waiting
  <2>4. CASE up' = up
    <3>1. Before(FactsOf(holding'), FactsOf(sink')) /\ Waiting' \subseteq Waiting
      BY ZenonT(60), <2>2, <2>3 DEF Before
    <3> QED
      BY SMTT(60), <1>1, <1>2, <2>1, <2>4, <3>1, OrderedLess
  <2>5. CASE up' # up
    <3>0. PICK k \in Conns : k = link /\ k = dialled
      BY ZenonT(60), <2>1
    <3>1. up' = [up EXCEPT ![k] = Append(@, e)]
      BY ZenonT(60), <1>14, <2>5, <3>0 DEF WriteEvent
    <3>2. up'[k] = Append(up[k], e) /\ \A c \in Conns : c # k => up'[c] = up[c]
      BY ZenonT(60), <1>1, <3>1
    <3> HIDE DEF e
    <3>3. Before(FactsOf(up[k]), FactsOf(holding))
      BY ZenonT(60), <1>2, <2>1 DEF Before, Sent, Waiting
    <3>4. FactsOf(up'[k]) \subseteq FactsOf(up[k]) \cup FactsOf(holding) /\ Ascending(up'[k])
      <4>1. up[k] \in Seq(Events) /\ e \in Events /\ Ascending(up[k])
        BY ZenonT(60), <1>1, <1>2, <2>2
      <4>2. Before(FactsOf(up[k]), {n \in {e.n} : e.kind = "fact"})
        BY ZenonT(60), <2>2, <3>3
      <4> QED
        BY ZenonT(60), <2>2, <3>2, <4>1, <4>2, AfterAppend
    <3>5. \A c \in Conns : FoldedOn(c)' = FoldedOn(c)
      BY ZenonT(60), <2>1 DEF FoldedOn
    <3>6. /\ Sent(k)' \subseteq Sent(k) \cup FactsOf(holding)
          /\ \A c \in Conns : c # k => Sent(c)' = Sent(c)
      BY ZenonT(60), <2>1, <3>2, <3>4, <3>5 DEF Sent
    <3>7. Before(Sent(k)', Waiting') /\ Sent(k)' \subseteq 1..reported
      BY ZenonT(60), <1>2, <2>1, <2>3, <3>6 DEF Before
    <3>8. Before(FoldedOn(k)', FactsOf(up'[k]))
      <4>1. Before(FoldedOn(k), FactsOf(up[k]))
        BY ZenonT(60), <2>1 DEF Ordered
      <4>2. Before(FoldedOn(k), FactsOf(holding))
        BY ZenonT(60), <1>2, <2>1, <2>3 DEF Before, Sent
      <4> QED
        BY ZenonT(60), <2>1, <3>4, <3>5, <4>1, <4>2 DEF Before
    <3>9. ASSUME NEW c \in Conns, c > k PROVE Sent(c)' = {}
      <4>1. up[c] = <<>> /\ FoldedOn(c) = {}
        BY ZenonT(60), <3>0, <3>9 DEF Placed, PlacedOn, Ordered
      <4> QED
        <5>1. c # k
          BY SMTT(60), <3>9, ConnsAreNumbers
        <5>2. Sent(c) = {}
          BY ZenonT(60), <4>1, NoFacts DEF Sent
        <5> QED
          BY ZenonT(60), <3>6, <5>1, <5>2
    <3>10. ASSUME NEW c \in Conns, NEW d \in Conns, c < d PROVE Before(Sent(c)', Sent(d)')
      <4>1. CASE d = k
        <5>1. Sent(c)' = Sent(c) /\ Before(Sent(c), Sent(k)) /\ Before(Sent(c), FactsOf(holding))
          BY SMTT(60), <1>1, <1>2, <2>3, <3>6, <3>10, <4>1 DEF Ordered, Before
        <5> QED
          BY ZenonT(60), <3>6, <4>1, <5>1 DEF Before
      <4>2. CASE c = k
        BY ZenonT(60), <1>1, <3>9, <3>10, <4>2 DEF Before
      <4>3. CASE c # k /\ d # k
        BY ZenonT(60), <3>6, <3>10, <4>3 DEF Ordered
      <4> QED
        BY ZenonT(60), <4>1, <4>2, <4>3
    <3>11. ASSUME NEW c \in Conns
           PROVE  /\ Ascending(up'[c]) /\ Before(FoldedOn(c)', FactsOf(up'[c]))
                  /\ Before(Sent(c)', Waiting') /\ Sent(c)' \subseteq 1..reported
                  /\ c > dialled => FoldedOn(c)' = {}
      <4>1. CASE c = k
        BY SMTT(60), <1>1, <3>0, <3>4, <3>5, <3>7, <3>8, <4>1
      <4>2. CASE c # k
        BY SMTT(60), <1>2, <2>3, <3>2, <3>5, <3>6, <4>2 DEF Ordered, Before
      <4> QED
        BY ZenonT(60), <4>1, <4>2
    <3>12. /\ Ascending(sink') /\ Before(FactsOf(holding'), FactsOf(sink'))
           /\ Waiting' \subseteq 1..reported
      BY ZenonT(60), <1>2, <2>1, <2>2, <2>3 DEF Before
    <3> QED
      BY ZenonT(60), <2>1, <3>10, <3>11, <3>12 DEF Ordered
  <2> QED
    BY ZenonT(60), <2>4, <2>5
<1> QED
    BY ZenonT(60), <1>5, <1>6, <1>7, <1>8, <1>10, <1>11, <1>12, <1>13, <1>14 DEF WriteLoop, UplinkLoop

\* The coordinator's steps keep the order too.
LEMMA OrderedKept ==
    ASSUME Types, Placed, Ordered, [Next]_vars
    PROVE  Ordered'
<1>1. /\ up \in [Conns -> Seq(Events)] /\ folded \in Seq(Conns \X Nat) /\ dialled \in Nat
      /\ Conns \subseteq Nat
    BY ZenonT(60), ConnsAreNumbers DEF Types
<1>2. /\ Ascending(sink) /\ Before(FactsOf(holding), FactsOf(sink))
      /\ \A c \in Conns : Ascending(up[c])
    BY ZenonT(60) DEF Ordered
<1>3. ASSUME folded' = folded, UNCHANGED daemon,
             \A c \in Conns : Ascending(up'[c]) /\ FactsOf(up'[c]) \subseteq FactsOf(up[c])
      PROVE  Ordered'
  <2>1. UNCHANGED <<sink, holding, dialled, reported>>
    BY ZenonT(60), <1>3 DEF daemon
  <2>2. Waiting' = Waiting /\ dialled <= dialled
    BY SMTT(60), <1>1, <2>1 DEF Waiting
  <2> QED
    BY ZenonT(60), <1>1, <1>2, <1>3, <2>1, <2>2, OrderedLess
<1>4. ASSUME NEW c \in Conns, up[c] # <<>>, up' = [up EXCEPT ![c] = Tail(@)]
      PROVE  \A d \in Conns : Ascending(up'[d]) /\ FactsOf(up'[d]) \subseteq FactsOf(up[d])
  <2>1. Ascending(Tail(up[c])) /\ FactsOf(Tail(up[c])) \subseteq FactsOf(up[c])
    BY Zenon, <1>1, <1>2, <1>4, AfterTake
  <2> QED
    BY ZenonT(60), <1>1, <1>2, <1>4, <2>1
<1>5. ASSUME NEW c \in Conns, Accept(c) PROVE Ordered'
    BY Zenon, <1>3, <1>4, <1>5 DEF Accept
<1>6. ASSUME NEW c \in Conns, up' = [up EXCEPT ![c] = <<>>]
      PROVE  \A d \in Conns : Ascending(up'[d]) /\ FactsOf(up'[d]) \subseteq FactsOf(up[d])
    BY ZenonT(60), <1>1, <1>2, <1>6, NoFacts
<1>7. ASSUME UNCHANGED <<daemon, network, folded>> PROVE Ordered'
    BY ZenonT(60), <1>2, <1>3, <1>7 DEF network
<1>8. ASSUME NEW c \in Conns,
             Upsert(c) \/ PushPage(c) \/ NeverRegistered(c) \/ Unreach(c) \/ Release(c)
      PROVE  Ordered'
    BY Zenon, <1>7, <1>8 DEF Upsert, PushPage, NeverRegistered, Unreach, Release
<1>9. ASSUME NEW c \in Conns, Check(c) \/ Eof(c) \/ Forward(c) PROVE Ordered'
  <2>1. CASE up' = up
    BY Zenon, <1>2, <1>3, <1>9, <2>1 DEF Check, Eof, Forward
  <2>2. CASE up' # up
    <3>1. up' = [up EXCEPT ![c] = <<>>] /\ UNCHANGED <<daemon, folded>>
      BY ZenonT(60), <1>9, <2>2 DEF Check, Eof, Forward, Leave
    <3> QED
      BY ZenonT(60), <1>3, <1>6, <3>1
  <2> QED
    BY ZenonT(60), <2>1, <2>2
<1>10. CASE Mutate \/ Sweep \/ Declare \/ Place \/ AwaitBuild \/ Dispatch
    BY ZenonT(60), <1>7, <1>10 DEF Mutate, Sweep, Declare, Place, AwaitBuild, Dispatch
<1>11. CASE Restart
  <2>1. up' = [c \in Conns |-> <<>>] /\ UNCHANGED <<daemon, folded>>
    BY ZenonT(60), <1>11 DEF Restart
  <2>2. \A c \in Conns : Ascending(up'[c]) /\ FactsOf(up'[c]) \subseteq FactsOf(up[c])
    BY ZenonT(60), <2>1, NoFacts
  <2> QED
    BY ZenonT(60), <1>3, <2>1, <2>2
<1>12. CASE UNCHANGED vars
    BY ZenonT(60), <1>7, <1>12 DEF vars
<1>13. ASSUME NEW c \in Conns, Fold(c) PROVE Ordered'
  <2> DEFINE e == Head(up[c])
  <2>1. /\ up[c] # <<>> /\ up' = [up EXCEPT ![c] = Tail(@)] /\ UNCHANGED daemon
        /\ folded' = IF e.kind = "fact" THEN Append(folded, <<c, e.n>>) ELSE folded
    BY ZenonT(60), <1>13 DEF Fold, Placed, PlacedOn
  <2>2. CASE e.kind # "fact"
    BY ZenonT(60), <1>3, <1>4, <2>1, <2>2
  <2>3. CASE e.kind = "fact"
    <3>1. /\ e \in Events /\ e.n \in FactsOf(up[c]) /\ Before({e.n}, FactsOf(Tail(up[c])))
          /\ FactsOf(Tail(up[c])) \subseteq FactsOf(up[c]) /\ Ascending(Tail(up[c]))
      BY Zenon, <1>1, <1>2, <2>1, <2>3, AfterTake
    <3>2. e.n \in Nat
      BY ZenonT(60), <3>1 DEF Events
    <3> DEFINE n == e.n
    <3>3. folded' = Append(folded, <<c, n>>) /\ <<c, n>> \in Conns \X Nat
      BY ZenonT(60), <2>1, <2>3, <3>2
    <3>4. up'[c] = Tail(up[c]) /\ \A d \in Conns : d # c => up'[d] = up[d]
      BY ZenonT(60), <1>1, <2>1
    <3> HIDE DEF n, e
    <3>5. /\ folded' \in Seq(Conns \X Nat) /\ Len(folded') = Len(folded) + 1
          /\ folded'[Len(folded) + 1] = <<c, n>>
          /\ \A i \in 1..Len(folded) : folded'[i] = folded[i]
      <4> DEFINE x == <<c, n>>
                 P == Conns \X Nat
      <4>1. folded \in Seq(P) /\ x \in P /\ folded' = Append(folded, x)
        BY Zenon, <1>1, <3>3
      <4> HIDE DEF x, P
      <4>2. /\ folded' \in Seq(P) /\ Len(folded') = Len(folded) + 1
            /\ folded'[Len(folded) + 1] = x
            /\ \A i \in 1..Len(folded) : folded'[i] = folded[i]
        BY ZenonT(60), <4>1, QueueAppend
      <4> QED
        BY Zenon, <4>2 DEF x, P
    <3>6. FoldedOn(c)' = FoldedOn(c) \cup {n} /\ \A d \in Conns : d # c => FoldedOn(d)' = FoldedOn(d)
      <4>1. ASSUME NEW i \in 1..Len(folded')
            PROVE  \/ i \in 1..Len(folded) /\ folded'[i] = folded[i]
                   \/ i = Len(folded) + 1 /\ folded'[i][1] = c /\ folded'[i][2] = n
        BY SMTT(60), <1>1, <3>5
      <4>2. 1..Len(folded) \subseteq 1..Len(folded') /\ Len(folded) + 1 \in 1..Len(folded')
        BY SMTT(60), <1>1, <3>5
      <4>3. folded'[Len(folded) + 1][1] = c /\ folded'[Len(folded) + 1][2] = n
        BY SMTT(60), <3>5
      <4>4. FoldedOn(c)' = FoldedOn(c) \cup {n}
        <5>1. ASSUME NEW x \in FoldedOn(c)' PROVE x \in FoldedOn(c) \cup {n}
          <6>1. PICK i \in 1..Len(folded') : folded'[i][1] = c /\ x = folded'[i][2]
            BY ZenonT(60), <5>1 DEF FoldedOn
          <6> QED
            BY ZenonT(60), <4>1, <6>1 DEF FoldedOn
        <5>2. ASSUME NEW x \in FoldedOn(c) PROVE x \in FoldedOn(c)'
          <6>1. PICK i \in 1..Len(folded) : folded[i][1] = c /\ x = folded[i][2]
            BY ZenonT(60), <5>2 DEF FoldedOn
          <6>2. i \in 1..Len(folded') /\ folded'[i][1] = c /\ x = folded'[i][2]
            BY ZenonT(60), <3>5, <4>2, <6>1
          <6> QED
            BY ZenonT(60), <6>2 DEF FoldedOn
        <5>3. n \in FoldedOn(c)'
          BY ZenonT(60), <4>2, <4>3 DEF FoldedOn
        <5> QED
          BY ZenonT(60), <5>1, <5>2, <5>3
      <4>5. ASSUME NEW d \in Conns, d # c PROVE FoldedOn(d)' = FoldedOn(d)
        <5>1. ASSUME NEW x \in FoldedOn(d)' PROVE x \in FoldedOn(d)
          <6>1. PICK i \in 1..Len(folded') : folded'[i][1] = d /\ x = folded'[i][2]
            BY ZenonT(60), <5>1 DEF FoldedOn
          <6> QED
            BY ZenonT(60), <4>1, <4>5, <6>1 DEF FoldedOn
        <5>2. ASSUME NEW x \in FoldedOn(d) PROVE x \in FoldedOn(d)'
          <6>1. PICK i \in 1..Len(folded) : folded[i][1] = d /\ x = folded[i][2]
            BY ZenonT(60), <5>2 DEF FoldedOn
          <6>2. i \in 1..Len(folded') /\ folded'[i][1] = d /\ x = folded'[i][2]
            BY ZenonT(60), <3>5, <4>2, <6>1
          <6> QED
            BY ZenonT(60), <6>2 DEF FoldedOn
        <5> QED
          BY ZenonT(60), <5>1, <5>2
      <4> QED
        BY ZenonT(60), <4>4, <4>5
    <3>7. n \in FactsOf(up[c]) /\ Before({n}, FactsOf(up'[c])) /\ FactsOf(up'[c]) \subseteq FactsOf(up[c])
      BY ZenonT(60), <3>1, <3>4 DEF n
    <3>8. \A d \in Conns : Sent(d)' \subseteq Sent(d)
      BY ZenonT(60), <3>4, <3>6, <3>7 DEF Sent
    <3>9. Before(FoldedOn(c), FactsOf(up[c])) /\ n \in Sent(c)
      BY ZenonT(60), <3>7 DEF Ordered, Sent
    <3>10. ASSUME NEW i \in 1..Len(folded'), NEW j \in 1..Len(folded'),
                  i < j, folded'[i][1] = folded'[j][1]
           PROVE  folded'[i][2] < folded'[j][2]
      <4>0. Len(folded) \in Nat /\ Len(folded') = Len(folded) + 1
        BY SMTT(60), <1>1, <3>5
      <4>1. i \in 1..Len(folded) /\ folded'[i] = folded[i]
        <5>1. i \in 1..Len(folded)
          BY SMTT(60), <3>10, <4>0
        <5> QED
          BY ZenonT(60), <3>5, <5>1
      <4>2. CASE j \in 1..Len(folded)
        BY ZenonT(60), <3>5, <3>10, <4>1, <4>2 DEF Ordered
      <4>3. CASE j = Len(folded) + 1
        <5>1. folded'[j][1] = c /\ folded'[j][2] = n
          BY SMTT(60), <3>5, <4>3
        <5>2. folded[i][1] = c
          BY ZenonT(60), <3>10, <4>1, <5>1
        <5>3. folded[i][2] \in FoldedOn(c)
          BY ZenonT(60), <4>1, <5>2 DEF FoldedOn
        <5> QED
          BY ZenonT(60), <3>7, <3>9, <4>1, <5>1, <5>3 DEF Before
      <4> QED
        BY SMTT(60), <1>1, <3>5, <4>2, <4>3
    <3>11. UNCHANGED <<sink, holding, dialled, reported>> /\ Waiting' = Waiting
      BY ZenonT(60), <2>1 DEF daemon, Waiting
    <3>12. c <= dialled
      BY SMTT(60), <1>1, <2>1 DEF Placed, PlacedOn
    <3>13. ASSUME NEW d \in Conns
           PROVE  /\ Ascending(up'[d]) /\ Before(FoldedOn(d)', FactsOf(up'[d]))
                  /\ d > dialled => FoldedOn(d)' = {}
      <4>1. CASE d = c
        <5>1. Before(FoldedOn(c)', FactsOf(up'[c]))
          BY ZenonT(60), <3>6, <3>7, <3>9 DEF Before
        <5>2. c \in Nat /\ dialled \in Nat
          BY ZenonT(60), <1>1
        <5>3. ~(c > dialled)
          BY SMTT(60), <3>12, <5>2
        <5> QED
          BY ZenonT(60), <3>1, <3>4, <4>1, <5>1, <5>3
      <4>2. CASE d # c
        BY ZenonT(60), <3>4, <3>6, <4>2 DEF Ordered
      <4> QED
        BY ZenonT(60), <4>1, <4>2
    <3>14. ASSUME NEW d \in Conns
           PROVE  /\ Before(Sent(d)', Waiting) /\ Sent(d)' \subseteq 1..reported
                  /\ \A b \in Conns : d < b => Before(Sent(d)', Sent(b)')
      BY ZenonT(60), <3>8 DEF Ordered, Before
    <3>15. Waiting \subseteq 1..reported
      BY ZenonT(60) DEF Ordered
    <3> QED
      BY ZenonT(60), <1>2, <3>10, <3>11, <3>13, <3>14, <3>15 DEF Ordered
  <2> QED
    BY ZenonT(60), <2>2, <2>3
<1> QED
    BY ZenonT(60), <1>5, <1>8, <1>9, <1>10, <1>11, <1>12, <1>13, DaemonOrdered DEF Next, Serve, Building

-----------------------------------------------------------------------------
(* Results.                                                                   *)

\* The first state.
LEMMA InductiveInit ==
    ASSUME Init
    PROVE  Inductive
<1>1. /\ world \in World /\ sink = <<>> /\ holding = <<>> /\ link = 0 /\ dialled = 0
      /\ cursor = 0 /\ told = {} /\ reported = 0 /\ broken = FALSE /\ registry = 0
      /\ log = <<>> /\ folded = <<>>
      /\ \A c \in Conns : up[c] = <<>> /\ down[c] = <<>> /\ outbound[c] = <<>> /\ session[c] = "new"
    BY ZenonT(60), UplinkAssumption DEF Init
<1>2. Types
  <2>1. /\ <<>> \in Seq(Events) /\ <<>> \in Seq(Frames) /\ <<>> \in Seq(BOOLEAN)
        /\ <<>> \in Seq(Conns \X Nat) /\ Len(<<>>) = 0
    BY SMTT(60)
  <2>2. /\ up \in [Conns -> Seq(Events)] /\ down \in [Conns -> Seq(Frames)]
        /\ outbound \in [Conns -> Seq(Frames)]
    BY ZenonT(60), <2>1 DEF Init
  <2>3. session \in [Conns -> States] /\ page \in [Conns -> Nat]
    BY ZenonT(60) DEF Init, States
  <2>4. /\ sink \in Seq(Events) /\ holding \in Seq(Events) /\ Len(holding) <= 1
        /\ log \in Seq(BOOLEAN) /\ folded \in Seq(Conns \X Nat)
    BY SMTT(60), <1>1, <2>1
  <2>5. /\ dialled \in Nat /\ cursor \in Nat /\ told \in SUBSET Nat /\ reported \in Nat
        /\ broken \in BOOLEAN /\ link \in Conns \cup {0} /\ registry \in Conns \cup {0}
    BY ZenonT(60), <1>1
  <2> QED
    BY ZenonT(60), <1>1, <2>2, <2>3, <2>4, <2>5 DEF Types
<1>3. Placed
  <2>1. link \in {0, dialled} /\ registry <= dialled
    BY SMTT(60), <1>1
  <2>2. ASSUME NEW c \in Conns
        PROVE  PlacedOn(c)
    <3>1. c # link
      BY ZenonT(60), <1>1, ConnsAreNumbers
    <3> QED
      BY ZenonT(60), <1>1, <3>1 DEF PlacedOn
  <2> QED
    BY ZenonT(60), <2>1, <2>2 DEF Placed
<1>4. CatchUp
  <2>1. Honest(log, cursor, told)
    BY SMTT(60), <1>1 DEF Honest
  <2> QED
    BY Zenon, <1>1, <2>1, ConnsAreNumbers DEF CatchUp, CatchUpOn
<1>5. Ordered
  <2>1. \A c \in Conns : FoldedOn(c) = {}
    BY SMTT(60), <1>1 DEF FoldedOn
  <2>2. Waiting = {} /\ \A c \in Conns : Sent(c) = {}
    BY ZenonT(60), <1>1, <2>1, NoFacts DEF Waiting, Sent
  <2>3. \A i \in 1..Len(folded) : FALSE
    BY SMTT(60), <1>1
  <2> QED
    BY ZenonT(60), <1>1, <2>1, <2>2, <2>3, NoFacts DEF Ordered, Before
<1> QED
    BY ZenonT(60), <1>2, <1>3, <1>4, <1>5 DEF Inductive

\* The invariant holds of every behaviour.
THEOREM InductiveInvariant == Spec => []Inductive
<1>1. Init => Inductive
    BY ZenonT(60), InductiveInit
<1>2. Inductive /\ [Next]_vars => Inductive'
    BY ZenonT(60), TypesKept, PlacedKept, CatchUpKept, OrderedKept DEF Inductive
<1> QED
    BY <1>1, <1>2, PTL DEF Spec

\* Whatever breaks, every mutation up to the daemon's cursor that has an entry has
\* reached the daemon (link.rs: a replay "that skips an unapplied entry is wrong").
THEOREM CursorIsHonestAlways == Spec => []CursorIsHonest
<1>1. Inductive => CursorIsHonest
    BY ZenonT(60) DEF Inductive, CatchUp, Honest, CursorIsHonest
<1> QED
    BY <1>1, InductiveInvariant, PTL

\* Reports are applied at most once and, on the same or a later connection, in the
\* order they were made: write_loop puts an event whose write failed back in front.
THEOREM FactsOnceInOrderAlways == Spec => []FactsOnceInOrder
<1>1. Inductive => FactsOnceInOrder
  <2> SUFFICES ASSUME Inductive, NEW i \in DOMAIN folded, NEW j \in DOMAIN folded, i < j
               PROVE  /\ folded[i][2] # folded[j][2]
                      /\ folded[i][1] <= folded[j][1] => folded[i][2] < folded[j][2]
    BY ZenonT(60) DEF FactsOnceInOrder
  <2> DEFINE c == folded[i][1]  d == folded[j][1]
  <2>1. folded \in Seq(Conns \X Nat) /\ Ordered
    BY ZenonT(60) DEF Inductive, Types
  <2>2. /\ i \in 1..Len(folded) /\ j \in 1..Len(folded) /\ c \in Conns /\ d \in Conns
        /\ folded[i][2] \in Nat /\ folded[j][2] \in Nat /\ c \in Nat /\ d \in Nat
    <3>1. i \in 1..Len(folded) /\ j \in 1..Len(folded)
      BY SMTT(60), <2>1
    <3>2. folded[i] \in Conns \X Nat /\ folded[j] \in Conns \X Nat
      BY SMTT(60), <2>1, <3>1
    <3> QED
      BY Zenon, <3>1, <3>2, ConnsAreNumbers
  <2>3. folded[i][2] \in Sent(c) /\ folded[j][2] \in Sent(d)
    BY ZenonT(60), <2>2 DEF Sent, FoldedOn
  <2>4. CASE c = d
    <3>1. folded[i][2] < folded[j][2]
      BY ZenonT(60), <2>1, <2>2, <2>4 DEF Ordered
    <3> QED
      BY SMTT(60), <2>2, <3>1
  <2>5. CASE c < d
    <3>1. folded[i][2] < folded[j][2]
      BY ZenonT(60), <2>1, <2>2, <2>3, <2>5 DEF Ordered, Before
    <3> QED
      BY SMTT(60), <2>2, <3>1
  <2>6. CASE d < c
    <3> DEFINE x == folded[i][2]  y == folded[j][2]
    <3>1. y < x
      BY ZenonT(60), <2>1, <2>2, <2>3, <2>6 DEF Ordered, Before
    <3>2. x \in Nat /\ y \in Nat /\ c \in Nat /\ d \in Nat
      BY ZenonT(60), <2>2
    <3>3. x # y /\ ~(c <= d)
      <4> HIDE DEF x, y, c, d
      <4> QED
        BY SMTT(60), <2>6, <3>1, <3>2
    <3> QED
      BY Zenon, <3>3
  <2>7. c = d \/ c < d \/ d < c
    <3>1. c \in Nat /\ d \in Nat
      BY ZenonT(60), <2>2
    <3> HIDE DEF c, d
    <3> QED
      BY SMTT(60), <3>1
  <2> QED
    BY Zenon, <2>4, <2>5, <2>6, <2>7
<1> QED
    BY <1>1, InductiveInvariant, PTL
=============================================================================
