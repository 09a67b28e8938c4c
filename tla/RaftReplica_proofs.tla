------------------------- MODULE RaftReplica_proofs --------------------------
(* Lemmas for Raft_proofs: what the operations of Raft.tla make of a log, a  *)
(* replica and a set of messages; the inductive invariant; and what a step   *)
(* must do to preserve it (TypesStep, VotesStep, CalmStep).                  *)
EXTENDS Raft, FiniteSetTheorems, WellFoundedInduction, TLAPS

(* What a deployment may write into its logs: C, the configurations of      *)
(* entries ({} for an entry that is not a configuration), and M, the         *)
(* memberships in force.                                                     *)
EntryOf(C)   == [term: Nat, config: C]
BaseOf(M)    == [index: Nat, term: Nat, members: M]
LogOf(C, M)  == [base: BaseOf(M), ents: Seq(EntryOf(C))]

ReplicaOf(C, M) ==
    [role: Role, term: Nat, voted: Node \cup {None}, leader: Node \cup {None},
     log: LogOf(C, M), commit: Nat, applied: Nat, members: M, pending: Nat,
     next: [Node -> Nat], match: [Node -> Nat], yes: SUBSET Node, no: SUBSET Node]

Sound(C, M, s) == s \in ReplicaOf(C, M) /\ s.log.base.index <= s.applied

Scope(C, M) ==
    /\ {} \in C /\ C \subseteq SUBSET Node /\ M \subseteq SUBSET Node
    /\ \A c \in C : c # {} => c \in M

-----------------------------------------------------------------------------
(* Sequences.                                                               *)

(* The elements and the length of a sequence.                               *)
LEMMA ElementOfSeq == ASSUME NEW S, NEW q \in Seq(S), NEW n \in 1 .. Len(q) PROVE q[n] \in S
  OBVIOUS

LEMMA EmptySeq ==
    ASSUME NEW S
    PROVE  /\ <<>> \in Seq(S) /\ Len(<<>>) = 0
           /\ \A q \in Seq(S) : q # <<>> => Len(q) \in Nat \ {0}
  OBVIOUS

LEMMA LenProperties ==
    ASSUME NEW S, NEW q \in Seq(S)
    PROVE  Len(q) \in Nat /\ q \in [1 .. Len(q) -> S] /\ DOMAIN q = 1 .. Len(q)
  OBVIOUS

(* A sequence after another, and one element after a sequence.              *)
LEMMA ConcatProperties ==
    ASSUME NEW S, NEW a \in Seq(S), NEW b \in Seq(S)
    PROVE  /\ a \o b \in Seq(S) /\ Len(a \o b) = Len(a) + Len(b)
           /\ \A i \in 1 .. Len(a) + Len(b) :
                 (a \o b)[i] = IF i <= Len(a) THEN a[i] ELSE b[i - Len(a)]
  OBVIOUS

LEMMA AppendProperties ==
    ASSUME NEW S, NEW q \in Seq(S), NEW e \in S
    PROVE  /\ Append(q, e) \in Seq(S) /\ Append(q, e) # <<>> /\ Len(Append(q, e)) = Len(q) + 1
           /\ \A i \in 1 .. Len(q) : Append(q, e)[i] = q[i]
           /\ Append(q, e)[Len(q) + 1] = e
  OBVIOUS

(* A part of a sequence.                                                    *)
LEMMA SubSeqProperties ==
    ASSUME NEW S, NEW q, NEW m \in Int, NEW n \in Int, \A i \in m .. n : q[i] \in S
    PROVE  /\ SubSeq(q, m, n) \in Seq(S)
           /\ Len(SubSeq(q, m, n)) = IF m <= n THEN n - m + 1 ELSE 0
           /\ \A i \in 1 .. n - m + 1 : SubSeq(q, m, n)[i] = q[m + i - 1]
  OBVIOUS

-----------------------------------------------------------------------------
(* Numbers.                                                                 *)

(* A nonempty set of naturals has a least element.                          *)
LEMMA LeastExists ==
    ASSUME NEW S \in SUBSET Nat, S # {}
    PROVE  \E x \in S : \A y \in S : x <= y
<1> DEFINE R == OpToRel(<, Nat)
<1>1. IsWellFoundedOn(R, Nat)
  BY Zenon, NatLessThanWellFounded
<1>2. \A a, b \in Nat : <<a, b>> \in R <=> a < b
  BY DEF OpToRel
<1> HIDE DEF R
<1>3. PICK x \in S : \A y \in S : ~ (<<y, x>> \in R)
  BY Zenon, <1>1, WFMin
<1>4. \A y \in S : x <= y
  <2> TAKE y \in S
  <2>1. x \in Nat /\ y \in Nat
    OBVIOUS
  <2>2. ~(y < x)
    BY Zenon, <1>2, <1>3, <2>1
  <2> QED
    BY <2>1, <2>2
<1> QED
  BY <1>4

(* A nonempty set of indices of a sequence has a greatest element.          *)
LEMMA GreatestExists ==
    ASSUME NEW n \in Nat, NEW S \in SUBSET (1 .. n), S # {}
    PROVE  \E x \in S : \A y \in S : y <= x
<1> DEFINE T == {k \in Nat : \E x \in S : k = n - x}
<1>1. T \in SUBSET Nat
  OBVIOUS
<1>2. PICK s : s \in S
  OBVIOUS
<1>3. n - s \in T
  BY <1>2
<1>4. PICK k \in T : \A y \in T : k <= y
  BY Zenon, <1>1, <1>3, LeastExists
<1>5. PICK x \in S : k = n - x
  BY <1>4
<1>6. \A y \in S : y <= x
  <2> TAKE y \in S
  <2>1. n - y \in T
    OBVIOUS
  <2> QED
    BY <2>1, <1>4, <1>5
<1> QED
  BY <1>6

-----------------------------------------------------------------------------
(* The log store.                                                           *)

(* A log has the type of its fields, and its ends are numbers.              *)
LEMMA LogFields ==
    ASSUME NEW C, NEW M, NEW l \in LogOf(C, M)
    PROVE  /\ l.base \in BaseOf(M) /\ l.ents \in Seq(EntryOf(C))
           /\ l.base.index \in Nat /\ l.base.term \in Nat /\ l.base.members \in M
           /\ Len(l.ents) \in Nat
           /\ \A i \in 1 .. Len(l.ents) :
                 l.ents[i] \in EntryOf(C) /\ l.ents[i].term \in Nat /\ l.ents[i].config \in C
           /\ first_index(l) \in Nat /\ last_index(l) \in Nat /\ last_term(l) \in Nat
           /\ l.base.index <= last_index(l)
<1>1. l.base \in BaseOf(M) /\ l.ents \in Seq(EntryOf(C))
  BY DEF LogOf
<1>2. l.base.index \in Nat /\ l.base.term \in Nat /\ l.base.members \in M
  BY <1>1 DEF BaseOf
<1>3. Len(l.ents) \in Nat
  BY <1>1
<1>4. \A i \in 1 .. Len(l.ents) : l.ents[i] \in EntryOf(C)
  BY <1>1, ElementOfSeq
<1>5. \A e \in EntryOf(C) : e.term \in Nat /\ e.config \in C
  BY DEF EntryOf
<1>6. l.ents # <<>> => Len(l.ents) \in 1 .. Len(l.ents)
  BY <1>1, <1>3, EmptySeq
<1>7. last_term(l) \in Nat
  BY ZenonT(60), <1>2, <1>4, <1>5, <1>6 DEF last_term
<1>8. \A i \in 1 .. Len(l.ents) : l.ents[i].term \in Nat /\ l.ents[i].config \in C
  BY <1>4, <1>5
<1>9. first_index(l) \in Nat /\ last_index(l) \in Nat /\ l.base.index <= last_index(l)
  BY <1>2, <1>3 DEF first_index, last_index
<1> QED
  BY ZenonT(60), <1>1, <1>2, <1>3, <1>4, <1>7, <1>8, <1>9

(* term_at of an index the log holds is a number.                           *)
LEMMA TermAt ==
    ASSUME NEW C, NEW M, NEW l \in LogOf(C, M), NEW i \in Nat, Held(l, i)
    PROVE  term_at(l, i) \in Nat
<1>1. CASE i = 0
  BY <1>1 DEF term_at
<1>2. CASE i # 0 /\ i = l.base.index
  BY <1>2, LogFields DEF term_at
<1>3. CASE i # 0 /\ i # l.base.index
  <2>1. i - l.base.index \in 1 .. Len(l.ents)
    BY SMTT(60), <1>3, LogFields DEF Held, last_index
  <2> QED
    BY ZenonT(60), <1>3, <2>1, LogFields DEF term_at, entry
<1> QED
  BY <1>1, <1>2, <1>3

(* append yields a log.                                                     *)
LEMMA AppendLog ==
    ASSUME NEW C, NEW M, NEW l \in LogOf(C, M), NEW es \in Seq(EntryOf(C))
    PROVE  append(l, es) \in LogOf(C, M) /\ append(l, es).base = l.base
<1>1. l.ents \o es \in Seq(EntryOf(C))
  BY LogFields, ConcatProperties
<1> QED
  BY Zenon, <1>1 DEF append, LogOf

(* A part of a sequence of entries is one.                                  *)
LEMMA PartOfEntries ==
    ASSUME NEW C, NEW es \in Seq(EntryOf(C)), NEW a \in Nat \ {0}, NEW b \in Int, b <= Len(es)
    PROVE  SubSeq(es, a, b) \in Seq(EntryOf(C))
<1>1. \A i \in a .. b : es[i] \in EntryOf(C)
  BY ElementOfSeq
<1> QED
  BY <1>1, SubSeqProperties

(* truncate_from, no further than the end, yields a log with the same base. *)
LEMMA TruncateLog ==
    ASSUME NEW C, NEW M, NEW l \in LogOf(C, M), NEW i \in Nat,
           i - 1 <= last_index(l)
    PROVE  truncate_from(l, i) \in LogOf(C, M) /\ truncate_from(l, i).base = l.base
<1>1. SubSeq(l.ents, 1, i - 1 - l.base.index) \in Seq(EntryOf(C))
  BY LogFields, PartOfEntries DEF last_index
<1> QED
  BY Zenon, <1>1 DEF truncate_from, LogOf

(* entries yields a sequence of entries.                                    *)
LEMMA EntriesFrom ==
    ASSUME NEW C, NEW M, NEW l \in LogOf(C, M), NEW i \in Nat,
           world \in World, first_index(l) <= i
    PROVE  entries(l, i) \in Seq(EntryOf(C))
<1>1. world.max_append \in Nat
  BY DEF World
<1>2. i - l.base.index \in Nat \ {0}
  BY LogFields DEF first_index
<1> DEFINE from == i - l.base.index
           upto == IF Len(l.ents) < from + world.max_append - 1 THEN Len(l.ents)
                   ELSE from + world.max_append - 1
<1>3. upto \in Int /\ upto <= Len(l.ents)
  <2>1. Len(l.ents) \in Nat
    BY LogFields
  <2>2. \A a, b, c \in Int : LET u == IF c < a + b - 1 THEN c ELSE a + b - 1
                            IN  u \in Int /\ u <= c
    OBVIOUS
  <2> QED
    BY SMTT(60), <1>1, <1>2, <2>1, <2>2
<1>4. entries(l, i) = SubSeq(l.ents, from, upto)
  BY DEF entries
<1> HIDE DEF from, upto
<1>5. from \in Nat \ {0} /\ l.ents \in Seq(EntryOf(C))
  BY <1>2, LogFields DEF from
<1> QED
  BY <1>3, <1>4, <1>5, PartOfEntries

(* save_snapshot, not below the base, yields a log with that base.          *)
LEMMA SaveSnapshot ==
    ASSUME NEW C, NEW M, NEW l \in LogOf(C, M), NEW b \in BaseOf(M), l.base.index <= b.index
    PROVE  save_snapshot(l, b) \in LogOf(C, M) /\ save_snapshot(l, b).base = b
<1>1. b.index \in Nat
  BY DEF BaseOf
<1>2. SubSeq(l.ents, b.index - l.base.index + 1, Len(l.ents)) \in Seq(EntryOf(C))
  BY <1>1, LogFields, PartOfEntries
<1> QED
  BY <1>2 DEF save_snapshot, LogOf

(* The last configuration of a log is one of its entries.                   *)
LEMMA LastConfig ==
    ASSUME NEW C, NEW M, NEW l \in LogOf(C, M),
           {i \in 1 .. Len(l.ents) : l.ents[i].config # {}} # {}
    PROVE  LET config == {i \in 1 .. Len(l.ents) : l.ents[i].config # {}}
               last == CHOOSE i \in config : \A j \in config : j <= i
           IN  last \in config /\ \A j \in config : j <= last
<1> DEFINE config == {i \in 1 .. Len(l.ents) : l.ents[i].config # {}}
<1>1. Len(l.ents) \in Nat
  BY LogFields
<1>2. \E i \in config : \A j \in config : j <= i
  BY Zenon, <1>1, GreatestExists
<1> QED
  BY Zenon, <1>2

(* The membership read back from a log is one of the memberships allowed.   *)
LEMMA ConfigOfLog ==
    ASSUME NEW C, NEW M, Scope(C, M), NEW l \in LogOf(C, M), NEW c \in Nat
    PROVE  from_entries(l) \in M /\ in_flight(l, c) \in Nat
<1> DEFINE config == {i \in 1 .. Len(l.ents) : l.ents[i].config # {}}
           last == CHOOSE i \in config : \A j \in config : j <= i
<1>1. CASE config = {}
  BY <1>1, LogFields DEF from_entries, in_flight
<1>2. CASE config # {}
  <2>1. last \in config
    BY Zenon, <1>2, LastConfig
  <2> HIDE DEF last
  <2>2. last \in Nat /\ l.ents[last].config \in C /\ l.ents[last].config # {}
    BY <2>1, LogFields
  <2>3. l.ents[last].config \in M
    BY <2>2 DEF Scope
  <2>4. from_entries(l) = l.ents[last].config
    BY <1>2 DEF from_entries, last
  <2>5. in_flight(l, c) \in {0, l.base.index + last}
    BY <1>2 DEF in_flight, last
  <2> QED
    BY SMTT(60), <2>2, <2>3, <2>4, <2>5, LogFields
<1> QED
  BY <1>1, <1>2

(* merge_entries leaves a log behind, compacted where it was.               *)
LEMMA MergeLog ==
    ASSUME NEW C, NEW M, NEW l \in LogOf(C, M), NEW es \in Seq(EntryOf(C)),
           NEW prev \in l.base.index .. last_index(l)
    PROVE  Merge(l, prev, es) \in LogOf(C, M) /\ Merge(l, prev, es).base = l.base
<1> DEFINE new == Unmatched(l, prev, es)
           k == CHOOSE i \in new : \A j \in new : i <= j
<1>0. l.base.index \in Nat /\ last_index(l) \in Nat /\ Len(es) \in Nat
  BY LogFields
<1>1. CASE new = {}
  BY <1>1 DEF Merge
<1>2. CASE new # {}
  <2>1. new \in SUBSET Nat /\ new \subseteq 1 .. Len(es)
    BY <1>0 DEF Unmatched
  <2>2. k \in new /\ \A j \in new : k <= j
    <3>1. \E i \in new : \A j \in new : i <= j
      BY <1>2, <2>1, LeastExists
    <3> QED
      BY <3>1
  <2> HIDE DEF k
  <2>3. k \in 1 .. Len(es)
    BY <2>1, <2>2
  <2>4. prev + k - 1 <= last_index(l)
    <3>1. CASE k = 1
      BY <1>0, <3>1
    <3>2. CASE k # 1
      <4>1. k - 1 \in 1 .. Len(es) /\ k - 1 \notin new
        BY <1>0, <2>2, <2>3, <3>2
      <4>2. Held(l, prev + (k - 1))
        BY <4>1 DEF Unmatched
      <4> QED
        BY <1>0, <2>3, <3>2, <4>2 DEF Held
    <3> QED
      BY <3>1, <3>2
  <2>5. truncate_from(l, prev + k) \in LogOf(C, M) /\ truncate_from(l, prev + k).base = l.base
    BY <1>0, <2>3, <2>4, TruncateLog
  <2>6. SubSeq(es, k, Len(es)) \in Seq(EntryOf(C))
    BY <1>0, <2>3, PartOfEntries
  <2>7. Merge(l, prev, es) = append(truncate_from(l, prev + k), SubSeq(es, k, Len(es)))
    BY <1>2 DEF Merge, k
  <2> HIDE DEF new
  <2>8. \A x \in LogOf(C, M), y \in Seq(EntryOf(C)) :
            append(x, y) \in LogOf(C, M) /\ append(x, y).base = x.base
    BY AppendLog
  <2> QED
    BY Zenon, <2>5, <2>6, <2>7, <2>8
<1> QED
  BY <1>1, <1>2
-----------------------------------------------------------------------------
(* One replica.                                                             *)

(* What a call that is not about elections leaves alone.                    *)
Kept(s, t) == t.role = s.role /\ t.term = s.term /\ t.voted = s.voted /\ t.yes = s.yes

(* A replica has the type of its fields.                                    *)
LEMMA Fields ==
    ASSUME NEW C, NEW M, NEW s \in ReplicaOf(C, M)
    PROVE  /\ s.role \in Role /\ s.term \in Nat /\ s.voted \in Node \cup {None}
           /\ s.leader \in Node \cup {None} /\ s.log \in LogOf(C, M) /\ s.commit \in Nat
           /\ s.applied \in Nat /\ s.members \in M /\ s.pending \in Nat
           /\ s.next \in [Node -> Nat] /\ s.match \in [Node -> Nat]
           /\ s.yes \in SUBSET Node /\ s.no \in SUBSET Node
BY DEF ReplicaOf

(* Noting what was sent to followers keeps a replica sound.                 *)
LEMMA SentSound ==
    ASSUME NEW C, NEW M, NEW s, Sound(C, M, s), NEW Q
    PROVE  /\ Sound(C, M, Sent(s, Q)) /\ Kept(s, Sent(s, Q)) /\ Sent(s, Q).log = s.log
           /\ Sent(s, Q).commit = s.commit /\ Sent(s, Q).members = s.members
<1> DEFINE n == [q \in Node |-> IF q \in Q /\ MustSnapshot(s, q)
                                THEN first_index(s.log) ELSE s.next[q]]
<1>1. s \in ReplicaOf(C, M) /\ first_index(s.log) \in Nat /\ s.next \in [Node -> Nat]
  BY Fields, LogFields DEF Sound
<1>2. n \in [Node -> Nat]
  BY <1>1
<1>3. Sent(s, Q) = [s EXCEPT !.next = n]
  BY DEF Sent
<1> HIDE DEF n
<1>4. Sent(s, Q) \in ReplicaOf(C, M)
  BY <1>1, <1>2, <1>3 DEF ReplicaOf
<1>5. /\ Sent(s, Q).log = s.log /\ Sent(s, Q).applied = s.applied /\ Kept(s, Sent(s, Q))
      /\ Sent(s, Q).commit = s.commit /\ Sent(s, Q).members = s.members
  BY <1>1, <1>3 DEF ReplicaOf, Kept
<1> QED
  BY <1>4, <1>5 DEF Sound

(* take_snapshot keeps a replica sound, and its votes as they were.         *)
LEMMA TakeSnapshotSound ==
    ASSUME NEW C, NEW M, NEW s, Sound(C, M, s)
    PROVE  LET t == take_snapshot(s)
           IN  Sound(C, M, t) /\ Kept(s, t) /\ t.commit = s.commit /\ t.members = s.members
<1>1. CASE s.applied = 0 \/ ~Held(s.log, s.applied)
  BY <1>1 DEF take_snapshot, Kept
<1>2. CASE s.applied # 0 /\ Held(s.log, s.applied)
  <2> DEFINE b == [index |-> s.applied, term |-> term_at(s.log, s.applied), members |-> s.members]
             l == save_snapshot(s.log, b)
  <2>1. /\ s \in ReplicaOf(C, M) /\ s.log \in LogOf(C, M) /\ s.applied \in Nat /\ s.members \in M
        /\ s.log.base.index <= s.applied
    BY Fields DEF Sound
  <2>2. term_at(s.log, s.applied) \in Nat
    BY <1>2, <2>1, TermAt
  <2>3. b \in BaseOf(M) /\ b.index = s.applied
    BY <2>1, <2>2 DEF BaseOf
  <2>4. take_snapshot(s) = [s EXCEPT !.log = l]
    BY <1>2, <2>1 DEF take_snapshot, ReplicaOf
  <2> HIDE DEF b
  <2>5. l \in LogOf(C, M) /\ l.base = b
    BY <2>1, <2>3, SaveSnapshot
  <2> HIDE DEF l
  <2>6. take_snapshot(s) \in ReplicaOf(C, M)
    BY <2>1, <2>4, <2>5 DEF ReplicaOf
  <2>7. /\ take_snapshot(s).log = l /\ take_snapshot(s).applied = s.applied
        /\ Kept(s, take_snapshot(s)) /\ take_snapshot(s).commit = s.commit
        /\ take_snapshot(s).members = s.members
    BY <2>1, <2>4 DEF ReplicaOf, Kept
  <2> QED
    BY SMTT(60), <2>1, <2>3, <2>5, <2>6, <2>7 DEF Sound
<1> QED
  BY <1>1, <1>2

(* apply_committed, with the compaction that follows it, keeps a replica sound. *)
LEMMA ApplyCommittedSound ==
    ASSUME NEW C, NEW M, NEW s, Sound(C, M, s)
    PROVE  LET t == apply_committed(s)
           IN  Sound(C, M, t) /\ Kept(s, t) /\ t.commit = s.commit /\ t.members = s.members
<1> DEFINE a == IF s.commit > s.applied THEN s.commit ELSE s.applied
           r == [s EXCEPT !.applied = a]
<1>1. /\ s \in ReplicaOf(C, M) /\ s.commit \in Nat /\ s.applied \in Nat
      /\ s.log.base.index <= s.applied /\ s.log.base.index \in Nat
  BY Fields, LogFields DEF Sound
<1>2. a \in Nat /\ s.log.base.index <= a
  BY <1>1
<1>3. apply_committed(s) = maybe_compact(r)
  BY <1>1 DEF apply_committed, ReplicaOf
<1> HIDE DEF a
<1>4. r \in ReplicaOf(C, M)
  BY <1>1, <1>2 DEF ReplicaOf
<1>5. r.applied = a /\ r.log = s.log /\ Kept(s, r) /\ r.commit = s.commit /\ r.members = s.members
  BY <1>1 DEF ReplicaOf, Kept
<1> HIDE DEF r
<1>6. Sound(C, M, r)
  BY <1>2, <1>4, <1>5 DEF Sound
<1>7. maybe_compact(r) \in {r, take_snapshot(r)}
  BY DEF maybe_compact
<1>8. LET t == take_snapshot(r)
      IN  Sound(C, M, t) /\ Kept(r, t) /\ t.commit = r.commit /\ t.members = r.members
  BY <1>6, TakeSnapshotSound
<1> QED
  BY ZenonT(60), <1>3, <1>5, <1>6, <1>7, <1>8 DEF Kept

(* maybe_advance_commit keeps a leader sound and its log as it was.         *)
LEMMA AdvanceSound ==
    ASSUME NEW C, NEW M, NEW s, Sound(C, M, s), NEW p
    PROVE  LET t == maybe_advance_commit(p, s)
           IN  Sound(C, M, t) /\ Kept(s, t) /\ t.members = s.members /\ t.log = s.log
<1> DEFINE ready == {i \in 1 .. last_index(s.log) : Committable(p, s, i)}
           c == CHOOSE i \in ready : TRUE
           d == IF s.pending <= c THEN 0 ELSE s.pending
<1>0. s \in ReplicaOf(C, M) /\ last_index(s.log) \in Nat /\ s.pending \in Nat
  BY Fields, LogFields DEF Sound
<1>1. CASE ready = {}
  BY <1>1 DEF maybe_advance_commit, Kept
<1>2. CASE ready # {}
  <2>1. c \in Nat
    BY <1>0, <1>2
  <2>2. maybe_advance_commit(p, s) = [s EXCEPT !.commit = c, !.pending = d]
    BY <1>0, <1>2 DEF maybe_advance_commit, ReplicaOf
  <2> HIDE DEF c
  <2>3. d \in Nat
    BY <1>0, <2>1
  <2> HIDE DEF d
  <2>4. maybe_advance_commit(p, s) \in ReplicaOf(C, M)
    BY Zenon, <1>0, <2>1, <2>2, <2>3 DEF ReplicaOf
  <2>5. LET t == maybe_advance_commit(p, s)
        IN  t.log = s.log /\ t.applied = s.applied /\ Kept(s, t) /\ t.members = s.members
    BY <1>0, <2>2 DEF ReplicaOf, Kept
  <2> QED
    BY <2>4, <2>5 DEF Sound
<1> QED
  BY <1>1, <1>2

(* A leader that commits what a quorum holds stays sound.                   *)
LEMMA CommitSound ==
    ASSUME NEW C, NEW M, NEW s, Sound(C, M, s), NEW p
    PROVE  LET t == Commit(p, s)
           IN  Sound(C, M, t) /\ Kept(s, t) /\ t.members = s.members
<1> DEFINE r == maybe_advance_commit(p, s)
<1>1. Sound(C, M, r) /\ Kept(s, r) /\ r.members = s.members
  BY AdvanceSound
<1> HIDE DEF r
<1>2. LET t == apply_committed(r) IN Sound(C, M, t) /\ Kept(r, t) /\ t.members = r.members
  BY <1>1, ApplyCommittedSound
<1>3. Commit(p, s) = apply_committed(r)
  BY DEF Commit, r
<1> QED
  BY <1>1, <1>2, <1>3 DEF Kept

(* become_follower keeps a replica sound.                                   *)
LEMMA FollowerSound ==
    ASSUME NEW C, NEW M, NEW s, Sound(C, M, s), NEW t \in Nat, NEW l \in Node \cup {None}
    PROVE  LET r == become_follower(s, t, l)
           IN  /\ Sound(C, M, r) /\ r.role = "Follower" /\ r.term = t /\ r.log = s.log
               /\ r.voted = IF t = s.term THEN s.voted ELSE None
<1> DEFINE r == become_follower(s, t, l)
<1>1. s \in ReplicaOf(C, M)
  BY DEF Sound
<1>2. Zero \in [Node -> Nat]
  BY DEF Zero
<1>3. /\ r.role = "Follower" /\ r.term = t /\ r.log = s.log /\ r.applied = s.applied
      /\ r.voted = IF t = s.term THEN s.voted ELSE None
  BY <1>1 DEF become_follower, ReplicaOf
<1>4. r \in ReplicaOf(C, M)
  BY ZenonT(60), <1>1, <1>2 DEF become_follower, ReplicaOf, Role
<1> QED
  BY <1>3, <1>4 DEF Sound

(* A replica rebuilt from its store is a sound follower.                    *)
LEMMA RecoveredSound ==
    ASSUME NEW C, NEW M, Scope(C, M), NEW t \in Nat, NEW v \in Node \cup {None},
           NEW l \in LogOf(C, M), NEW d \in Nat
    PROVE  LET r == Recovered(t, v, l, d)
           IN  Sound(C, M, r) /\ r.role = "Follower" /\ r.term = t /\ r.voted = v
<1> DEFINE upto == IF d > l.base.index THEN d ELSE l.base.index
           r == Recovered(t, v, l, d)
<1>1. upto \in Nat /\ l.base.index <= upto
  BY LogFields
<1>2. r = [role |-> "Follower", term |-> t, voted |-> v, leader |-> None, log |-> l,
           commit |-> upto, applied |-> upto,
           members |-> from_entries(l), pending |-> in_flight(l, upto),
           next |-> Zero, match |-> Zero, yes |-> {}, no |-> {}]
  BY DEF Recovered
<1> HIDE DEF upto
<1>3. from_entries(l) \in M /\ in_flight(l, upto) \in Nat
  BY <1>1, ConfigOfLog
<1>4. Zero \in [Node -> Nat]
  BY DEF Zero
<1> HIDE DEF r
<1>5. r \in ReplicaOf(C, M)
  BY ZenonT(60), <1>1, <1>2, <1>3, <1>4 DEF ReplicaOf, Role
<1> QED
  BY <1>1, <1>2, <1>5 DEF Sound, r

(* A leader that appends an entry of its own stays sound.                   *)
LEMMA AppendedSound ==
    ASSUME NEW C, NEW M, Scope(C, M), NEW s, Sound(C, M, s), NEW p, NEW config \in C
    PROVE  LET r == Appended(p, s, config)
           IN  Sound(C, M, r) /\ Kept(s, r) /\ r.commit = s.commit
<1> DEFINE fresh == [q \in Node |-> IF q \in s.members THEN s.next[q] ELSE last_index(s.log) + 1]
           n == [q \in Node |-> IF q \in config \ {p} THEN fresh[q] ELSE 0]
           m == [q \in Node |-> IF q \in config \ {p} THEN s.match[q] ELSE 0]
           r == IF config = {} THEN s
                ELSE [s EXCEPT !.members = config, !.next = n, !.match = m]
           es == <<[term |-> s.term, config |-> config]>>
<1>1. /\ s \in ReplicaOf(C, M) /\ s.term \in Nat /\ s.log \in LogOf(C, M)
      /\ s.next \in [Node -> Nat] /\ s.match \in [Node -> Nat] /\ last_index(s.log) \in Nat
  BY Fields, LogFields DEF Sound
<1>2. fresh \in [Node -> Nat]
  BY <1>1
<1> HIDE DEF fresh
<1>3. n \in [Node -> Nat] /\ m \in [Node -> Nat]
  BY ZenonT(60), <1>1, <1>2
<1>4. Appended(p, s, config) = [r EXCEPT !.log = append(s.log, es)]
  <2>1. CASE config = {}
    BY <1>1, <2>1 DEF Appended, ReplicaOf
  <2>2. CASE config # {}
    BY <1>1, <2>2 DEF Appended, ReplicaOf, fresh
  <2> QED
    BY Zenon, <2>1, <2>2
<1> HIDE DEF n, m
<1>5. r \in ReplicaOf(C, M) /\ Kept(s, r) /\ r.applied = s.applied /\ r.commit = s.commit
  <2>1. CASE config = {}
    BY <1>1, <2>1 DEF Kept
  <2>2. CASE config # {}
    <3>1. config \in M
      BY <2>2 DEF Scope
    <3> QED
      BY Zenon, <1>1, <1>3, <2>2, <3>1 DEF ReplicaOf, Kept
  <2> QED
    BY <2>1, <2>2
<1> HIDE DEF r
<1>6. es \in Seq(EntryOf(C))
  BY <1>1 DEF EntryOf
<1> HIDE DEF es
<1>7. append(s.log, es) \in LogOf(C, M) /\ append(s.log, es).base = s.log.base
  BY <1>1, <1>6, AppendLog
<1>8. Appended(p, s, config) \in ReplicaOf(C, M)
  BY <1>4, <1>5, <1>7 DEF ReplicaOf
<1>9. LET a == Appended(p, s, config)
      IN  a.log = append(s.log, es) /\ Kept(r, a) /\ a.applied = r.applied /\ a.commit = r.commit
  BY <1>4, <1>5 DEF ReplicaOf, Kept
<1> QED
  BY ZenonT(60), <1>5, <1>7, <1>8, <1>9 DEF Sound, Kept

(* Installing a snapshot keeps a replica sound.                             *)
LEMMA InstalledSound ==
    ASSUME NEW C, NEW M, NEW s, Sound(C, M, s), NEW b \in BaseOf(M)
    PROVE  Sound(C, M, Installed(s, b)) /\ Kept(s, Installed(s, b))
<1> DEFINE l == [base |-> b, ents |-> <<>>]
           i == b.index
           X == b.members
           r == Installed(s, b)
<1>1. s \in ReplicaOf(C, M) /\ i \in Nat /\ X \in M
  BY DEF Sound, BaseOf
<1>2. l \in LogOf(C, M) /\ l.base.index = i
  BY EmptySeq DEF LogOf
<1>3. r = [s EXCEPT !.log = l, !.commit = i, !.applied = i, !.members = X, !.pending = 0]
  BY DEF Installed
<1> HIDE DEF l, i, X, r
<1>4. r \in ReplicaOf(C, M)
  BY Zenon, <1>1, <1>2, <1>3 DEF ReplicaOf
<1>5. r.log = l /\ r.applied = i /\ Kept(s, r)
  BY <1>1, <1>3 DEF ReplicaOf, Kept
<1> QED
  BY <1>1, <1>2, <1>4, <1>5 DEF Sound, r

(* Merging the entries of an append and following its commit keeps a replica sound. *)
LEMMA AcceptSound ==
    ASSUME NEW C, NEW M, Scope(C, M), NEW s, Sound(C, M, s), NEW m,
           m.entries \in Seq(EntryOf(C)), m.leader_commit \in Nat, m.prev_log_index \in Nat,
           m.prev_log_index \in s.log.base.index .. last_index(s.log)
    PROVE  Sound(C, M, Accept(s, m)) /\ Kept(s, Accept(s, m))
<1> DEFINE l == Merge(s.log, m.prev_log_index, m.entries)
           a == MembersAfter(s, l)
           r == [a EXCEPT !.log = l]
           c == CommitTo(m.leader_commit, m.prev_log_index + Len(m.entries))
           w == [r EXCEPT !.commit = c]
<1>1. s \in ReplicaOf(C, M) /\ s.log \in LogOf(C, M) /\ s.commit \in Nat
  BY Fields DEF Sound
<1>2. l \in LogOf(C, M) /\ l.base = s.log.base
  BY <1>1, MergeLog
<1>c. c \in Nat
  BY DEF CommitTo
<1>0. Accept(s, m) = IF m.leader_commit > s.commit THEN apply_committed(w) ELSE r
  BY DEF Accept
<1> HIDE DEF l, c
<1>3. from_entries(l) \in M /\ in_flight(l, s.commit) \in Nat
  BY Zenon, <1>1, <1>2, ConfigOfLog
<1>4. a \in {s, [s EXCEPT !.members = from_entries(l), !.pending = in_flight(l, s.commit)]}
  BY DEF MembersAfter
<1> HIDE DEF a
<1>5. a \in ReplicaOf(C, M) /\ Kept(s, a) /\ a.applied = s.applied
  BY ZenonT(60), <1>1, <1>3, <1>4 DEF ReplicaOf, Kept
<1>6. r \in ReplicaOf(C, M) /\ Kept(a, r) /\ r.applied = a.applied /\ r.log = l
  BY Zenon, <1>2, <1>5 DEF ReplicaOf, Kept
<1> HIDE DEF r
<1>7. w \in ReplicaOf(C, M) /\ Kept(r, w) /\ w.applied = r.applied /\ w.log = r.log
  BY Zenon, <1>c, <1>6 DEF ReplicaOf, Kept
<1> HIDE DEF w
<1>8. Sound(C, M, r) /\ Sound(C, M, w)
  BY <1>2, <1>5, <1>6, <1>7 DEF Sound
<1>9. Sound(C, M, apply_committed(w)) /\ Kept(w, apply_committed(w))
  BY <1>8, ApplyCommittedSound
<1> QED
  BY <1>0, <1>5, <1>6, <1>7, <1>8, <1>9 DEF Kept

(* Raising match_index on an acknowledgement keeps a leader sound.          *)
LEMMA AcknowledgedSound ==
    ASSUME NEW C, NEW M, NEW s, Sound(C, M, s), NEW q \in Node, NEW i \in Nat
    PROVE  Sound(C, M, Acknowledged(s, q, i)) /\ Kept(s, Acknowledged(s, q, i))
<1> DEFINE top == IF i > s.match[q] THEN i ELSE s.match[q]
           a == Acknowledged(s, q, i)
           n == [s.next EXCEPT ![q] = top + 1]
           m == [s.match EXCEPT ![q] = top]
<1>1. s \in ReplicaOf(C, M) /\ s.next \in [Node -> Nat] /\ s.match \in [Node -> Nat]
  BY Fields DEF Sound
<1>2. top \in Nat
  BY <1>1
<1>3. a = [s EXCEPT !.match = m, !.next = n]
  BY <1>1 DEF Acknowledged, ReplicaOf
<1> HIDE DEF top
<1>4. n \in [Node -> Nat] /\ m \in [Node -> Nat]
  BY <1>1, <1>2
<1> HIDE DEF n, m, a
<1>5. a \in ReplicaOf(C, M)
  BY Zenon, <1>1, <1>3, <1>4 DEF ReplicaOf
<1>6. a.log = s.log /\ a.applied = s.applied /\ Kept(s, a)
  BY <1>1, <1>3 DEF ReplicaOf, Kept
<1> QED
  BY <1>5, <1>6 DEF Sound, a

(* Backing off next_index on a rejection keeps a leader sound.              *)
LEMMA RejectedSound ==
    ASSUME NEW C, NEW M, NEW s, Sound(C, M, s), NEW m, m.from \in Node, m.conflict_index \in Nat
    PROVE  Sound(C, M, Rejected(s, m)) /\ Kept(s, Rejected(s, m))
<1> DEFINE hits == {i \in 1 .. last_index(s.log) : IsLastOfTerm(s.log, i, m.conflict_term)}
           h == CHOOSE i \in hits : TRUE
           hint == IF m.conflict_term # 0 /\ hits # {} THEN h + 1 ELSE m.conflict_index
           v == IF hint > s.match[m.from] THEN hint ELSE s.match[m.from] + 1
           n == [s.next EXCEPT ![m.from] = v]
           a == Rejected(s, m)
<1>1. /\ s \in ReplicaOf(C, M) /\ s.next \in [Node -> Nat] /\ s.match \in [Node -> Nat]
      /\ last_index(s.log) \in Nat
  BY Fields, LogFields DEF Sound
<1>3. a = [s EXCEPT !.next = n]
  BY <1>1 DEF Rejected, ReplicaOf
<1>4. hits # {} => h \in Nat
  BY <1>1
<1> HIDE DEF h
<1>5. hint \in Nat
  BY <1>4
<1> HIDE DEF hint
<1>6. v \in Nat
  BY <1>1, <1>5
<1> HIDE DEF v
<1>7. n \in [Node -> Nat]
  BY <1>1, <1>6
<1> HIDE DEF n, a
<1>8. a \in ReplicaOf(C, M)
  BY <1>1, <1>3, <1>7 DEF ReplicaOf
<1>9. a.log = s.log /\ a.applied = s.applied /\ Kept(s, a)
  BY <1>1, <1>3 DEF ReplicaOf, Kept
<1> QED
  BY <1>8, <1>9 DEF Sound, a

-----------------------------------------------------------------------------
(* Messages.                                                                *)

Typed(C, M, m) ==
    /\ m.from \in Node /\ m.to \in Node /\ m.term \in Nat
    /\ m.kind = "AppendEntries" =>
          m.prev_log_index \in Nat /\ m.entries \in Seq(EntryOf(C)) /\ m.leader_commit \in Nat
    /\ m.kind = "AppendEntriesResponse" => m.match_index \in Nat /\ m.conflict_index \in Nat
    /\ m.kind = "InstallSnapshot" => m.snapshot \in BaseOf(M)
    /\ m.kind = "InstallSnapshotResponse" => m.last_index \in Nat

(* Messages that are no votes.                                              *)
Plain(C, M, sent) == \A m \in sent : Typed(C, M, m) /\ m.kind # "VoteResponse"

(* What send_append sends, entries or a snapshot, is well typed and no vote. *)
LEMMA SendAppendPlain ==
    ASSUME NEW C, NEW M, NEW s, Sound(C, M, s), NEW p \in Node, NEW q \in Node, world \in World
    PROVE  Plain(C, M, SendAppend(p, s, q))
<1>1. /\ s.term \in Nat /\ s.log \in LogOf(C, M) /\ s.next[q] \in Nat /\ s.commit \in Nat
      /\ s.log.base \in BaseOf(M) /\ first_index(s.log) \in Nat /\ s.log.base.index \in Nat
  BY SMTT(60), Fields, LogFields DEF Sound
<1>2. CASE ~MustSnapshot(s, q)
  <2>1. first_index(s.log) <= s.next[q] /\ s.next[q] - 1 \in Nat
    BY <1>1, <1>2 DEF MustSnapshot, first_index
  <2>2. entries(s.log, s.next[q]) \in Seq(EntryOf(C))
    BY ZenonT(60), <1>1, <2>1, EntriesFrom
  <2> QED
    BY SMTT(60), <1>1, <1>2, <2>1, <2>2 DEF SendAppend, Plain, Typed
<1>3. CASE MustSnapshot(s, q)
  BY <1>1, <1>3 DEF SendAppend, Plain, Typed
<1> QED
  BY <1>2, <1>3

(* So is what is sent to a set of followers.                                *)
LEMMA SendAppendsPlain ==
    ASSUME NEW C, NEW M, NEW s, Sound(C, M, s), NEW p \in Node, NEW Q \in SUBSET Node, world \in World
    PROVE  Plain(C, M, SendAppends(p, s, Q))
BY SendAppendPlain DEF SendAppends, Plain

(* Requests for votes are well typed and no votes.                          *)
LEMMA RequestsPlain ==
    ASSUME NEW C, NEW M, Scope(C, M), NEW s, Sound(C, M, s), NEW p \in Node, NEW t \in Nat,
           NEW kind \in {"PreVoteRequest", "VoteRequest"}
    PROVE  Plain(C, M, Requests(kind, p, s, t))
<1>1. other_voters(p, s) \subseteq Node
  BY Fields DEF Sound, Scope, other_voters
<1> QED
  BY <1>1 DEF Requests, Request, Plain, Typed

-----------------------------------------------------------------------------
(* The invariant.                                                           *)

(* Every vote cast is remembered: it is of a term the voter has reached, and *)
(* while that is the voter's term it is the vote on record.                  *)
VotesRemembered ==
    \A b \in ballot :
        /\ b[2] <= node[b[1]].term
        /\ b[2] = node[b[1]].term => node[b[1]].voted = b[3]

(* A vote that is under way, or was counted, was cast.                      *)
VotesReal ==
    /\ \A m \in msgs : m.kind = "VoteResponse" /\ m.granted => <<m.from, m.term, m.to>> \in ballot
    /\ \A p \in Node : node[p].role = "Candidate" =>
          \A q \in node[p].yes : <<q, node[p].term, p>> \in ballot

VotersOf(t, p) == {q \in Node : <<q, t, p>> \in ballot}

(* Every leader was voted for by a majority of some membership.             *)
LeadersElected(M) ==
    \A e \in elected : \E X \in M : is_quorum(X, Cardinality(VotersOf(e[1], e[2])))

Types(C, M) ==
    /\ world \in Worlds
    /\ node \in [Node -> ReplicaOf(C, M)]
    /\ \A p \in Node : node[p].log.base.index <= node[p].applied
    /\ \A m \in msgs : Typed(C, M, m)
    /\ ballot \subseteq Node \X Nat \X Node
    /\ elected \subseteq Nat \X Node
    /\ decided \subseteq [index: Nat, term: Nat, at: Nat]

Votes(M) == VoteOnce /\ VotesRemembered /\ VotesReal /\ LeadersElected(M)

IInv(C, M) == Types(C, M) /\ Votes(M)

(* C and M cover what the deployments do.                                   *)
Covers(C, M) ==
    /\ Scope(C, M)
    /\ \A w \in Worlds : /\ \A p \in Node : w.voters \cup {p} \in M
                         /\ w.reconfigures => C = SUBSET Node

(* The invariant holds in the initial states.                               *)
LEMMA Initially ==
    ASSUME NEW C, NEW M, Covers(C, M), Init
    PROVE  IInv(C, M)
<1>1. world \in Worlds /\ world \in World
  BY RaftAssumption DEF Init
<1>2. ASSUME NEW p \in Node
      PROVE  Sound(C, M, node[p]) /\ node[p].role = "Follower"
  <2>1. EmptyLog(p) \in LogOf(C, M)
    <3>1. world.voters \cup {p} \in M
      BY <1>1 DEF Covers
    <3> DEFINE b == [index |-> 0, term |-> 0, members |-> world.voters \cup {p}]
    <3>2. b \in BaseOf(M)
      BY <3>1 DEF BaseOf
    <3> HIDE DEF b
    <3>3. EmptyLog(p) = [base |-> b, ents |-> <<>>]
      BY DEF EmptyLog, b
    <3> QED
      BY <3>2, <3>3, EmptySeq DEF LogOf
  <2>2. node[p] = Recovered(0, None, EmptyLog(p), 0)
    BY DEF Init
  <2> QED
    BY SMTT(60), <2>1, <2>2, RecoveredSound DEF Covers
<1>3. node \in [Node -> ReplicaOf(C, M)]
  <2>1. node = [p \in Node |-> Recovered(0, None, EmptyLog(p), 0)]
    BY DEF Init
  <2>2. \A p \in Node : node[p] \in ReplicaOf(C, M)
    BY <1>2 DEF Sound
  <2> QED
    BY <2>1, <2>2
<1>4. Types(C, M)
  BY ZenonT(60), <1>1, <1>2, <1>3 DEF Types, Init, Sound
<1>5. Votes(M)
  BY <1>2 DEF Init, Votes, VoteOnce, VotesRemembered, VotesReal, LeadersElected
<1> QED
  BY <1>4, <1>5 DEF IInv

(* Each replica of a well-typed state is sound.                             *)
LEMMA Unpacked ==
    ASSUME NEW C, NEW M, Types(C, M)
    PROVE  /\ world \in Worlds /\ world \in World
           /\ \A p \in Node : Sound(C, M, node[p])
           /\ \A m \in msgs : Typed(C, M, m)
<1>1. world \in World
  BY RaftAssumption DEF Types
<1>2. \A p \in Node : node[p] \in ReplicaOf(C, M)
  BY ZenonT(60) DEF Types
<1> QED
  BY <1>1, <1>2 DEF Types, Sound

-----------------------------------------------------------------------------
(* A step of one replica.                                                   *)

Decided == [index: Nat, term: Nat, at: Nat]

(* A step that updates one replica soundly and sends typed messages keeps the types. *)
LEMMA TypesStep ==
    ASSUME NEW C, NEW M, Types(C, M), NEW p \in Node, NEW t, Sound(C, M, t),
           NEW sent, \A m \in sent : Typed(C, M, m), Update(p, t, sent),
           ballot' \subseteq Node \X Nat \X Node, elected' \subseteq Nat \X Node,
           decided' \subseteq Decided
    PROVE  Types(C, M)'
<1>1. world' = world /\ msgs' \subseteq msgs \cup sent /\ node' = [node EXCEPT ![p] = t]
  BY ZenonT(60) DEF Update, Send
<1>2. node \in [Node -> ReplicaOf(C, M)] /\ t \in ReplicaOf(C, M)
  BY DEF Types, Sound
<1>3. node' \in [Node -> ReplicaOf(C, M)]
  BY <1>1, <1>2
<1>4. \A q \in Node : node'[q].log.base.index <= node'[q].applied
  <2> TAKE q \in Node
  <2>1. CASE q = p
    BY ZenonT(60), <1>1, <1>2, <2>1 DEF Sound
  <2>2. CASE q # p
    BY ZenonT(60), <1>1, <1>2, <2>2 DEF Types
  <2> QED
    BY <2>1, <2>2
<1>5. \A m \in msgs' : Typed(C, M, m)
  BY <1>1 DEF Types
<1> QED
  BY ZenonT(60), <1>1, <1>3, <1>4, <1>5 DEF Types, Decided, Typed

(* A superset of a quorum is a quorum.                                      *)
LEMMA QuorumGrows ==
    ASSUME NEW X \in SUBSET Node, NEW S \in SUBSET Node, NEW T \in SUBSET Node, S \subseteq T,
           is_quorum(X, Cardinality(S))
    PROVE  is_quorum(X, Cardinality(T))
<1>1. IsFiniteSet(Node)
  BY RaftAssumption
<1>2. IsFiniteSet(X) /\ IsFiniteSet(S) /\ IsFiniteSet(T)
  BY <1>1, FS_Subset
<1>3. Cardinality(X) \in Nat /\ Cardinality(S) \in Nat /\ Cardinality(T) \in Nat
  BY <1>2, FS_CardinalityType
<1>4. Cardinality(S) <= Cardinality(T)
  BY <1>2, FS_Subset
<1> DEFINE x == Cardinality(X)  y == Cardinality(S)  z == Cardinality(T)
<1>5. x \in Nat /\ y \in Nat /\ z \in Nat /\ y <= z /\ X # {} /\ y >= (x \div 2) + 1
  BY <1>3, <1>4 DEF is_quorum, quorum
<1>6. z >= (x \div 2) + 1
  <2> HIDE DEF x, y, z
  <2> QED
    BY SMTT(60), <1>5
<1> QED
  BY <1>5, <1>6 DEF is_quorum, quorum

(* p goes from node[p] to t, perhaps casting the vote t has on record and   *)
(* perhaps taking office.                                                    *)
LEMMA VotesStep ==
    ASSUME NEW C, NEW M, Scope(C, M), IInv(C, M), Types(C, M)', NEW p \in Node, NEW t, NEW sent,
           Update(p, t, sent),
           node[p].term <= t.term,
           t.term = node[p].term => t.voted = node[p].voted \/ node[p].voted = None,
           ballot \subseteq ballot', ballot' \subseteq ballot \cup {<<p, t.term, t.voted>>},
           t.role = "Candidate" => \A q \in t.yes : <<q, t.term, p>> \in ballot',
           \A m \in sent : m.kind = "VoteResponse" /\ m.granted => <<m.from, m.term, m.to>> \in ballot',
           elected' \subseteq elected \cup {<<t.term, p>>},
           \/ elected' = elected
           \/ \E X \in M : is_quorum(X, Cardinality(VotersOf(t.term, p)'))
    PROVE  Votes(M)'
<1>1. node' = [node EXCEPT ![p] = t] /\ msgs' \subseteq msgs \cup sent
  BY ZenonT(60) DEF Update, Send
<1>2. /\ node \in [Node -> ReplicaOf(C, M)] /\ node' \in [Node -> ReplicaOf(C, M)]
      /\ ballot' \subseteq Node \X Nat \X Node
  BY ZenonT(60) DEF IInv, Types
<1>3. node'[p] = t /\ t \in ReplicaOf(C, M) /\ \A q \in Node : q # p => node'[q] = node[q]
  BY ZenonT(60), <1>1, <1>2
<1>4. t.term \in Nat /\ \A q \in Node : node[q].term \in Nat /\ node'[q].term \in Nat
  BY ZenonT(60), <1>2, <1>3, Fields
<1>5. None \notin Node
  BY ZenonT(60), RaftAssumption DEF None
<1>6. \A b \in ballot' : b[1] \in Node /\ b[2] \in Nat /\ b[3] \in Node /\ b = <<b[1], b[2], b[3]>>
  BY SMTT(60), <1>2
(* A vote p cast for the term it is in now is the one it has on record.     *)
<1>7. \A b \in ballot : b[1] = p /\ b[2] = t.term => b[3] = t.voted
  <2> SUFFICES ASSUME NEW b \in ballot, b[1] = p, b[2] = t.term
               PROVE  b[3] = t.voted
    BY ZenonT(60)
  <2>1. b[2] <= node[p].term /\ (b[2] = node[p].term => node[p].voted = b[3])
    BY ZenonT(60) DEF IInv, Votes, VotesRemembered
  <2>2. node[p].term = t.term
    BY SMTT(60), <1>4, <2>1
  <2>3. b[3] \in Node
    BY ZenonT(60), <1>6
  <2> QED
    BY ZenonT(60), <1>5, <2>1, <2>2, <2>3
<1>8. VoteOnce'
  <2> SUFFICES ASSUME NEW v \in ballot', NEW w \in ballot', v[1] = w[1], v[2] = w[2]
               PROVE  v[3] = w[3]
    BY ZenonT(60) DEF VoteOnce
  <2> DEFINE new == <<p, t.term, t.voted>>
  <2>0. new[1] = p /\ new[2] = t.term /\ new[3] = t.voted
    BY ZenonT(60)
  <2>a. v \in ballot \cup {new} /\ w \in ballot \cup {new}
    BY ZenonT(60)
  <2> HIDE DEF new
  <2>1. CASE v \in ballot /\ w \in ballot
    BY ZenonT(60), <2>1 DEF IInv, Votes, VoteOnce
  <2>2. CASE v \in ballot /\ w = new
    BY ZenonT(60), <1>7, <2>0, <2>2
  <2>3. CASE v = new /\ w \in ballot
    BY ZenonT(60), <1>7, <2>0, <2>3
  <2> QED
    BY ZenonT(60), <2>a, <2>1, <2>2, <2>3
<1>9. VotesRemembered'
  <2> SUFFICES ASSUME NEW b \in ballot'
               PROVE  /\ b[2] <= node'[b[1]].term
                      /\ b[2] = node'[b[1]].term => node'[b[1]].voted = b[3]
    BY ZenonT(60) DEF VotesRemembered
  <2> DEFINE new == <<p, t.term, t.voted>>
  <2>0. new[1] = p /\ new[2] = t.term /\ new[3] = t.voted /\ (b \in ballot \/ b = new)
    BY ZenonT(60)
  <2> HIDE DEF new
  <2>1. CASE b \in ballot /\ b[1] # p
    <3>1. b[2] <= node[b[1]].term /\ (b[2] = node[b[1]].term => node[b[1]].voted = b[3])
      BY ZenonT(60), <2>1 DEF IInv, Votes, VotesRemembered
    <3> QED
      BY ZenonT(60), <1>3, <1>6, <2>1, <3>1
  <2>2. CASE b \in ballot /\ b[1] = p
    <3>1. b[2] <= node[p].term
      BY <2>2 DEF IInv, Votes, VotesRemembered
    <3>2. b[2] <= t.term
      BY SMTT(60), <1>4, <1>6, <3>1
    <3> QED
      BY ZenonT(60), <1>3, <1>7, <2>2, <3>2
  <2>3. CASE b = new
    BY SMTT(60), <1>3, <1>4, <2>0, <2>3
  <2> QED
    BY ZenonT(60), <2>0, <2>1, <2>2, <2>3
<1>10. VotesReal'
  <2>1. \A m \in msgs' : m.kind = "VoteResponse" /\ m.granted => <<m.from, m.term, m.to>> \in ballot'
    BY ZenonT(60), <1>1 DEF IInv, Votes, VotesReal
  <2>2. ASSUME NEW q \in Node, node'[q].role = "Candidate", NEW v \in node'[q].yes
        PROVE  <<v, node'[q].term, q>> \in ballot'
    <3>1. CASE q = p
      BY ZenonT(60), <1>3, <2>2, <3>1
    <3>2. CASE q # p
      BY ZenonT(60), <1>3, <2>2, <3>2 DEF IInv, Votes, VotesReal
    <3> QED
      BY ZenonT(60), <3>1, <3>2
  <2> QED
    BY ZenonT(60), <2>1, <2>2 DEF VotesReal
<1>11. LeadersElected(M)'
  <2> SUFFICES ASSUME NEW e \in elected'
               PROVE  \E X \in M : is_quorum(X, Cardinality(VotersOf(e[1], e[2])'))
    BY ZenonT(60) DEF LeadersElected, VotersOf
  <2>1. CASE e \in elected
    <3>1. PICK X \in M : is_quorum(X, Cardinality(VotersOf(e[1], e[2])))
      BY ZenonT(60), <2>1 DEF IInv, Votes, LeadersElected
    <3>2. X \in SUBSET Node
      BY ZenonT(60) DEF Scope
    <3>3. /\ VotersOf(e[1], e[2]) \in SUBSET Node /\ VotersOf(e[1], e[2])' \in SUBSET Node
          /\ VotersOf(e[1], e[2]) \subseteq VotersOf(e[1], e[2])'
      BY ZenonT(60) DEF VotersOf
    <3>4. is_quorum(X, Cardinality(VotersOf(e[1], e[2])'))
      BY ZenonT(60), <3>1, <3>2, <3>3, QuorumGrows
    <3> QED
      BY ZenonT(60), <3>4
  <2>2. CASE e \notin elected
    <3>1. e = <<t.term, p>>
      BY ZenonT(60), <2>2
    <3>2. e[1] = t.term /\ e[2] = p
      BY <3>1
    <3> QED
      BY ZenonT(60), <2>2, <3>2
  <2> QED
    BY ZenonT(60), <2>1, <2>2
<1> QED
  BY ZenonT(60), <1>8, <1>9, <1>10, <1>11 DEF Votes

(* A change that has nothing to do with votes, unless it is a new term.     *)
Calm(s, t) ==
    /\ s.term <= t.term
    /\ t.term = s.term => t.voted = s.voted
    /\ t.role = "Candidate" => s.role = "Candidate" /\ t.term = s.term /\ t.yes \subseteq s.yes

Harmless(C, M, sent) ==
    \A m \in sent : Typed(C, M, m) /\ (m.kind = "VoteResponse" => ~m.granted)

(* A calm change followed by one that keeps the votes is calm.              *)
LEMMA CalmKept ==
    ASSUME NEW s, NEW r, NEW t, Calm(s, r), Kept(r, t)
    PROVE  Calm(s, t)
BY DEF Calm, Kept

(* A change that keeps the votes is calm.                                   *)
LEMMA KeptCalm ==
    ASSUME NEW s, NEW t, s.term \in Nat, Kept(s, t)
    PROVE  Calm(s, t)
BY DEF Calm, Kept

(* A calm change of one replica, with harmless messages, preserves the invariant. *)
LEMMA CalmStep ==
    ASSUME NEW C, NEW M, Scope(C, M), IInv(C, M), NEW p \in Node, NEW t, NEW sent,
           Sound(C, M, t), Calm(node[p], t), Harmless(C, M, sent), Update(p, t, sent),
           UNCHANGED <<ballot, elected>>, decided' \subseteq Decided
    PROVE  IInv(C, M)'
<1>1. Types(C, M)'
  <2>1. Types(C, M) /\ ballot' \subseteq Node \X Nat \X Node /\ elected' \subseteq Nat \X Node
    BY DEF IInv, Types
  <2>2. \A m \in sent : Typed(C, M, m)
    BY ZenonT(60) DEF Harmless
  <2> QED
    BY ZenonT(60), <2>1, <2>2, TypesStep
<1>2. t.role = "Candidate" => \A q \in t.yes : <<q, t.term, p>> \in ballot'
  BY DEF IInv, Votes, VotesReal, Calm
<1>3. \A m \in sent : ~(m.kind = "VoteResponse" /\ m.granted)
  BY ZenonT(60) DEF Harmless
<1>4. node[p].term <= t.term /\ (t.term = node[p].term => t.voted = node[p].voted)
  BY ZenonT(60) DEF Calm
<1>5. Votes(M)'
  BY ZenonT(60), <1>1, <1>2, <1>3, <1>4, VotesStep
<1> QED
  BY ZenonT(60), <1>1, <1>5 DEF IInv

(* The history of decisions stays well typed.                               *)
LEMMA DecideTyped ==
    ASSUME NEW C, NEW M, Types(C, M), NEW a, Sound(C, M, a), NEW b, Sound(C, M, b), Decide(a, b)
    PROVE  decided' \subseteq Decided
<1>1. a.log \in LogOf(C, M) /\ a.term \in Nat /\ a.commit \in Nat /\ b.commit \in Nat
  BY Fields DEF Sound
<1>2. \A j \in a.commit + 1 .. b.commit : Held(a.log, j) => j \in Nat /\ term_at(a.log, j) \in Nat
  BY SMTT(60), <1>1, TermAt
<1> QED
  BY SMTT(60), <1>1, <1>2 DEF Decide, Types, Decided

(* A leader that appends updates itself soundly and sends no votes.         *)
LEMMA LeaderAppendsStep ==
    ASSUME NEW C, NEW M, Scope(C, M), Types(C, M), NEW p \in Node, NEW s, Sound(C, M, s),
           NEW config \in C, LeaderAppends(p, s, config)
    PROVE  \E t, sent : /\ Sound(C, M, t) /\ Kept(s, t) /\ Plain(C, M, sent)
                       /\ Update(p, t, sent) /\ decided' \subseteq Decided
<1> DEFINE a == Appended(p, s, config)
           Q == other_voters(p, a)
           c == Sent(a, Q)
           b == Commit(p, c)
           t == [b EXCEPT !.pending = IF config = {} THEN b.pending ELSE last_index(a.log)]
           sent == SendAppends(p, a, Q)
<1>1. Sound(C, M, a) /\ Kept(s, a)
  BY ZenonT(60), AppendedSound
<1> HIDE DEF a
<1>2. Q \in SUBSET Node
  BY ZenonT(60), <1>1, Fields DEF Sound, Scope, other_voters
<1>3. Plain(C, M, sent)
  BY ZenonT(60), <1>1, <1>2, SendAppendsPlain, Unpacked
<1> HIDE DEF Q
<1>4. Sound(C, M, c) /\ Kept(a, c)
  BY <1>1, SentSound
<1> HIDE DEF c
<1>5. Sound(C, M, b) /\ Kept(c, b)
  BY <1>4, CommitSound
<1>6. Update(p, t, sent) /\ Decide(a, b)
  <2>1. b \in ReplicaOf(C, M)
    BY <1>5 DEF Sound
  <2>2. LeaderAppends(p, s, config) =
          (/\ Update(p, [b EXCEPT !.pending = IF config = {} THEN @ ELSE last_index(a.log)], sent)
           /\ Decide(a, b))
    BY DEF LeaderAppends, a, Q, c
  <2>3. [b EXCEPT !.pending = IF config = {} THEN @ ELSE last_index(a.log)] = t
    BY <2>1 DEF ReplicaOf
  <2> QED
    BY ZenonT(60), <2>2, <2>3
<1> HIDE DEF b
<1>7. Sound(C, M, t) /\ Kept(b, t)
  <2>1. b \in ReplicaOf(C, M) /\ b.pending \in Nat /\ last_index(a.log) \in Nat
    BY ZenonT(60), <1>1, <1>5, Fields, LogFields DEF Sound
  <2> DEFINE v == IF config = {} THEN b.pending ELSE last_index(a.log)
  <2>2. v \in Nat
    BY <2>1
  <2> HIDE DEF v
  <2>3. [b EXCEPT !.pending = v] \in ReplicaOf(C, M)
    BY <2>1, <2>2 DEF ReplicaOf
  <2>4. LET r == [b EXCEPT !.pending = v] IN r.log = b.log /\ r.applied = b.applied /\ Kept(b, r)
    BY <2>1 DEF ReplicaOf, Kept
  <2>5. t = [b EXCEPT !.pending = v]
    BY DEF v
  <2> QED
    BY <1>5, <2>3, <2>4, <2>5 DEF Sound
<1>8. decided' \subseteq Decided
  BY ZenonT(60), <1>1, <1>5, <1>6, DecideTyped
<1>9. Kept(s, t)
  BY ZenonT(60), <1>1, <1>4, <1>5, <1>7 DEF Kept
<1> HIDE DEF t, sent
<1> QED
  BY ZenonT(60), <1>3, <1>6, <1>7, <1>8, <1>9

(* A candidate that becomes leader is recorded as such and sends no votes.  *)
LEMMA BecomeLeaderStep ==
    ASSUME NEW C, NEW M, Scope(C, M), Types(C, M), NEW p \in Node, NEW s, Sound(C, M, s),
           become_leader(p, s)
    PROVE  /\ elected' = elected \cup {<<s.term, p>>}
           /\ \E t, sent : /\ Sound(C, M, t) /\ Plain(C, M, sent) /\ Update(p, t, sent)
                           /\ t.role = "Leader" /\ t.term = s.term /\ t.voted = s.voted
                           /\ decided' \subseteq Decided
<1> DEFINE n == [q \in Node |-> IF q \in other_voters(p, s) THEN last_index(s.log) + 1 ELSE 0]
           r == [s EXCEPT !.role = "Leader", !.leader = p, !.yes = {}, !.no = {},
                          !.next = n, !.match = Zero]
<1>1. s \in ReplicaOf(C, M) /\ last_index(s.log) \in Nat
  BY Fields, LogFields DEF Sound
<1>2. n \in [Node -> Nat] /\ Zero \in [Node -> Nat]
  BY <1>1 DEF Zero
<1>3. elected' = elected \cup {<<s.term, p>>} /\ LeaderAppends(p, r, {})
  BY DEF become_leader
<1> HIDE DEF n
<1>4. r \in ReplicaOf(C, M)
  BY Zenon, <1>1, <1>2 DEF ReplicaOf, Role
<1>5. /\ r.role = "Leader" /\ r.term = s.term /\ r.voted = s.voted
      /\ r.log = s.log /\ r.applied = s.applied
  BY <1>1 DEF ReplicaOf
<1> HIDE DEF r
<1>6. Sound(C, M, r)
  BY <1>4, <1>5 DEF Sound
<1>7. {} \in C
  BY DEF Scope
<1>8. PICK t, sent : /\ Sound(C, M, t) /\ Kept(r, t) /\ Plain(C, M, sent)
                     /\ Update(p, t, sent) /\ decided' \subseteq Decided
  BY ZenonT(60), ZenonT(60), <1>3, <1>6, <1>7, LeaderAppendsStep
<1>9. t.role = "Leader" /\ t.term = s.term /\ t.voted = s.voted
  BY ZenonT(60), <1>5, <1>8 DEF Kept
<1> QED
  BY ZenonT(60), <1>3, <1>8, <1>9

-----------------------------------------------------------------------------
(* Elections.                                                               *)

(* A replica that stands for a new term and votes for itself preserves the invariant. *)
LEMMA CampaignStep ==
    ASSUME NEW C, NEW M, Scope(C, M), IInv(C, M), NEW p \in Node, NEW s, Sound(C, M, s),
           node[p].term <= s.term, campaign(p, s)
    PROVE  IInv(C, M)'
<1> DEFINE c == [s EXCEPT !.term = s.term + 1, !.voted = p, !.role = "Candidate",
                          !.leader = None, !.yes = {p}, !.no = {}]
<1>0. Types(C, M) /\ node[p].term \in Nat
  <2>1. Types(C, M)
    BY ZenonT(60) DEF IInv
  <2> QED
    BY ZenonT(60), <2>1, Unpacked, Fields DEF Sound
<1>1. s \in ReplicaOf(C, M) /\ s.term \in Nat /\ s.members \in M
  BY Fields DEF Sound
<1>2. [s EXCEPT !.term = @ + 1, !.voted = p, !.role = "Candidate",
                !.leader = None, !.yes = {p}, !.no = {}] = c
  BY <1>1 DEF ReplicaOf
<1>3. /\ ballot' = ballot \cup {<<p, c.term, p>>}
      /\ \/ /\ is_quorum(s.members, 1)
            /\ become_leader(p, c)
         \/ /\ ~is_quorum(s.members, 1)
            /\ Update(p, c, Requests("VoteRequest", p, c, c.term))
            /\ UNCHANGED <<elected, decided>>
  BY <1>2 DEF campaign
<1>4. c \in ReplicaOf(C, M)
  <2> DEFINE u == s.term + 1
  <2>1. u \in Nat
    BY <1>1
  <2> HIDE DEF u
  <2>2. [s EXCEPT !.term = u, !.voted = p, !.role = "Candidate",
                  !.leader = None, !.yes = {p}, !.no = {}] \in ReplicaOf(C, M)
    BY ZenonT(60), <1>1, <2>1 DEF ReplicaOf, Role
  <2> QED
    BY ZenonT(60), <2>2 DEF u
<1>5. /\ c.term = s.term + 1 /\ c.voted = p /\ c.role = "Candidate" /\ c.yes = {p}
      /\ c.log = s.log /\ c.applied = s.applied
  BY <1>1 DEF ReplicaOf
<1> HIDE DEF c
<1>6. Sound(C, M, c) /\ c.term \in Nat /\ node[p].term < c.term
  BY <1>0, <1>1, <1>4, <1>5 DEF Sound
<1>7. /\ ballot \subseteq ballot' /\ ballot' \subseteq ballot \cup {<<p, c.term, p>>}
      /\ <<p, c.term, p>> \in ballot' /\ ballot' \subseteq Node \X Nat \X Node
  BY SMTT(60), <1>0, <1>3, <1>6 DEF Types
<1>8. CASE is_quorum(s.members, 1) /\ become_leader(p, c)
  <2>1. PICK t, sent : /\ Sound(C, M, t) /\ Plain(C, M, sent) /\ Update(p, t, sent)
                       /\ t.role = "Leader" /\ t.term = c.term /\ t.voted = c.voted
                       /\ decided' \subseteq Decided
    BY ZenonT(60), <1>0, <1>6, <1>8, BecomeLeaderStep
  <2>2. elected' = elected \cup {<<c.term, p>>}
    BY ZenonT(60), <1>0, <1>6, <1>8, BecomeLeaderStep
  <2>3. elected' \subseteq Nat \X Node
    BY SMTT(60), <1>0, <1>6, <2>2 DEF Types
  <2>4. Types(C, M)'
    BY ZenonT(60), <1>0, <1>7, <2>1, <2>3, TypesStep DEF Plain
  <2>5. is_quorum(s.members, Cardinality(VotersOf(c.term, p)'))
    <3>1. s.members \in SUBSET Node /\ {p} \in SUBSET Node
      BY ZenonT(60), <1>1 DEF Scope
    <3>2. VotersOf(c.term, p)' \in SUBSET Node /\ {p} \subseteq VotersOf(c.term, p)'
      BY ZenonT(60), <1>7 DEF VotersOf
    <3>3. Cardinality({p}) = 1
      BY ZenonT(60), FS_Singleton
    <3> QED
      BY ZenonT(60), <1>8, <3>1, <3>2, <3>3, QuorumGrows
  <2>6. \E X \in M : is_quorum(X, Cardinality(VotersOf(t.term, p)'))
    BY <1>1, <2>1, <2>5
  <2>7. /\ node[p].term <= t.term /\ t.term # node[p].term
        /\ t.voted = p /\ t.role # "Candidate"
    BY SMTT(60), <1>0, <1>5, <1>6, <2>1
  <2>8. \A m \in sent : ~(m.kind = "VoteResponse" /\ m.granted)
    BY ZenonT(60), <2>1 DEF Plain
  <2>9. Votes(M)'
    BY ZenonT(60), <1>7, <2>1, <2>2, <2>4, <2>6, <2>7, <2>8, VotesStep
  <2> QED
    BY ZenonT(60), <2>4, <2>9 DEF IInv
<1>9. CASE /\ Update(p, c, Requests("VoteRequest", p, c, c.term))
           /\ UNCHANGED <<elected, decided>>
  <2> DEFINE sent == Requests("VoteRequest", p, c, c.term)
  <2>1. Plain(C, M, sent)
    BY ZenonT(60), <1>6, RequestsPlain
  <2> HIDE DEF sent
  <2>2. Types(C, M)'
    <3>1. elected' \subseteq Nat \X Node /\ decided' \subseteq Decided
      BY ZenonT(60), <1>0, <1>9 DEF Types, Decided
    <3> QED
      BY ZenonT(60), <1>0, <1>6, <1>7, <1>9, <2>1, <3>1, TypesStep DEF Plain, sent
  <2>3. \A m \in sent : ~(m.kind = "VoteResponse" /\ m.granted)
    BY ZenonT(60), <2>1 DEF Plain
  <2>4. \A q \in c.yes : <<q, c.term, p>> \in ballot'
    BY ZenonT(60), <1>5, <1>7
  <2>5. node[p].term <= c.term /\ c.term # node[p].term
    BY SMTT(60), <1>0, <1>6
  <2>6. Update(p, c, sent) /\ elected' = elected
    BY ZenonT(60), <1>9 DEF sent
  <2>7. Votes(M)'
    BY ZenonT(60), <1>5, <1>7, <2>2, <2>3, <2>4, <2>5, <2>6, VotesStep
  <2> QED
    BY <2>2, <2>7 DEF IInv
<1> QED
  BY ZenonT(60), <1>3, <1>8, <1>9

(* So does an election timeout, with or without pre-vote.                   *)
LEMMA TimeoutStep ==
    ASSUME NEW C, NEW M, Scope(C, M), IInv(C, M), NEW p \in Node, Timeout(p)
    PROVE  IInv(C, M)'
<1> DEFINE s == node[p]
<1>0. Types(C, M)
  BY ZenonT(60) DEF IInv
<1>1. Sound(C, M, s) /\ s \in ReplicaOf(C, M) /\ s.term \in Nat
  BY ZenonT(60), <1>0, Unpacked, Fields DEF Sound
<1>2. campaign_pre_vote(p, s) \/ campaign(p, s)
  BY ZenonT(60) DEF Timeout
<1>3. CASE campaign(p, s)
  BY SMTT(60), <1>1, <1>3, CampaignStep
<1>4. CASE campaign_pre_vote(p, s) /\ ~campaign(p, s)
  <2> DEFINE t == [s EXCEPT !.role = "PreCandidate", !.leader = None, !.yes = {p}, !.no = {}]
             sent == Requests("PreVoteRequest", p, s, s.term + 1)
  <2>1. Update(p, t, sent) /\ UNCHANGED <<ballot, elected, decided>>
    BY ZenonT(60), <1>4 DEF campaign_pre_vote
  <2>2. Plain(C, M, sent)
    BY SMTT(60), <1>1, RequestsPlain
  <2>3. t \in ReplicaOf(C, M)
    BY Zenon, <1>1 DEF ReplicaOf, Role
  <2>4. /\ t.role = "PreCandidate" /\ t.term = s.term /\ t.voted = s.voted
        /\ t.log = s.log /\ t.applied = s.applied
    BY <1>1 DEF ReplicaOf
  <2> HIDE DEF t, sent
  <2>5. Sound(C, M, t) /\ Calm(s, t)
    BY <1>1, <2>3, <2>4 DEF Sound, Calm
  <2>6. Harmless(C, M, sent)
    BY ZenonT(60), <2>2 DEF Plain, Harmless
  <2>7. decided' \subseteq Decided
    BY ZenonT(60), <1>0, <2>1 DEF Types, Decided
  <2> QED
    BY ZenonT(60), <2>1, <2>5, <2>6, <2>7, CalmStep
<1> QED
  BY ZenonT(60), <1>2, <1>3, <1>4

-----------------------------------------------------------------------------
(* The calls of a replica's owner.                                          *)

(* So does a heartbeat.                                                     *)
LEMMA HeartbeatStep ==
    ASSUME NEW C, NEW M, Scope(C, M), IInv(C, M), NEW p \in Node, Heartbeat(p)
    PROVE  IInv(C, M)'
<1> DEFINE s == node[p]
           Q == other_voters(p, s)
           t == Sent(s, Q)
           sent == SendAppends(p, s, Q)
<1>0. Types(C, M)
  BY DEF IInv
<1>1. Sound(C, M, s) /\ s.term \in Nat /\ world \in World
  BY ZenonT(60), <1>0, Unpacked, Fields DEF Sound
<1>2. Update(p, t, sent) /\ UNCHANGED <<ballot, elected, decided>>
  BY ZenonT(60) DEF Heartbeat
<1>3. Q \in SUBSET Node
  BY ZenonT(60), <1>1, Fields DEF Sound, Scope, other_voters
<1> HIDE DEF Q
<1>4. Plain(C, M, sent)
  BY ZenonT(60), <1>1, <1>3, SendAppendsPlain
<1>5. Sound(C, M, t) /\ Kept(s, t)
  BY ZenonT(60), <1>1, SentSound
<1> HIDE DEF t, sent
<1>6. Calm(s, t) /\ Harmless(C, M, sent) /\ decided' \subseteq Decided
  BY ZenonT(60), <1>0, <1>1, <1>2, <1>4, <1>5, KeptCalm DEF Plain, Harmless, Types, Decided
<1> QED
  BY ZenonT(60), <1>2, <1>5, <1>6, CalmStep

(* So does a leader that steps down for want of a quorum.                   *)
LEMMA StepDownStep ==
    ASSUME NEW C, NEW M, Scope(C, M), IInv(C, M), NEW p \in Node, StepDown(p)
    PROVE  IInv(C, M)'
<1> DEFINE s == node[p]
           t == become_follower(s, s.term, None)
<1>0. Types(C, M)
  BY DEF IInv
<1>1. Sound(C, M, s) /\ s.term \in Nat
  BY ZenonT(60), <1>0, Unpacked, Fields DEF Sound
<1>2. Update(p, t, {}) /\ UNCHANGED <<ballot, elected, decided>>
  BY ZenonT(60) DEF StepDown
<1>3. Sound(C, M, t) /\ t.role = "Follower" /\ t.term = s.term /\ t.voted = s.voted
  BY SMTT(60), <1>1, FollowerSound
<1> HIDE DEF t
<1>4. Calm(s, t) /\ Harmless(C, M, {}) /\ decided' \subseteq Decided
  BY SMTT(60), <1>0, <1>1, <1>2, <1>3 DEF Calm, Harmless, Types, Decided
<1> QED
  BY ZenonT(60), <1>2, <1>3, <1>4, CalmStep

(* A leader that appends an entry of its own.                               *)
LEMMA AppendsStep ==
    ASSUME NEW C, NEW M, Scope(C, M), IInv(C, M), NEW p \in Node, NEW config \in C,
           LeaderAppends(p, node[p], config), UNCHANGED <<ballot, elected>>
    PROVE  IInv(C, M)'
<1>0. Types(C, M)
  BY ZenonT(60) DEF IInv
<1>1. Sound(C, M, node[p]) /\ node[p].term \in Nat
  BY ZenonT(60), <1>0, Unpacked, Fields DEF Sound
<1>2. PICK t, sent : /\ Sound(C, M, t) /\ Kept(node[p], t) /\ Plain(C, M, sent)
                     /\ Update(p, t, sent) /\ decided' \subseteq Decided
  BY ZenonT(60), ZenonT(60), <1>0, <1>1, LeaderAppendsStep
<1>3. Calm(node[p], t) /\ Harmless(C, M, sent)
  BY ZenonT(60), <1>1, <1>2, KeptCalm DEF Plain, Harmless
<1> QED
  BY ZenonT(60), <1>2, <1>3, CalmStep

(* So does a proposal.                                                      *)
LEMMA ProposeStep ==
    ASSUME NEW C, NEW M, Scope(C, M), IInv(C, M), NEW p \in Node, Propose(p)
    PROVE  IInv(C, M)'
BY ZenonT(60), AppendsStep DEF Propose, Scope

(* So does a membership change.                                             *)
LEMMA ProposeMembershipStep ==
    ASSUME NEW C, NEW M, Covers(C, M), IInv(C, M), NEW p \in Node, ProposeMembership(p)
    PROVE  IInv(C, M)'
<1>0. Types(C, M) /\ Scope(C, M)
  BY DEF IInv, Covers
<1>1. world \in Worlds /\ Sound(C, M, node[p])
  BY ZenonT(60), <1>0, Unpacked
<1>2. PICK config \in Changes(node[p].members) :
          LeaderAppends(p, node[p], config) /\ UNCHANGED <<ballot, elected>>
  BY ZenonT(60) DEF ProposeMembership
<1>3. node[p].members \in SUBSET Node
  BY ZenonT(60), <1>0, <1>1, Fields DEF Sound, Scope
<1>4. config \in SUBSET Node
  BY ZenonT(60), <1>2, <1>3 DEF Changes
<1>5. config \in C
  BY ZenonT(60), <1>1, <1>4 DEF Covers, ProposeMembership
<1> QED
  BY ZenonT(60), <1>0, <1>2, <1>5, AppendsStep

(* So does a snapshot.                                                      *)
LEMMA TakeSnapshotStep ==
    ASSUME NEW C, NEW M, Scope(C, M), IInv(C, M), NEW p \in Node, TakeSnapshot(p)
    PROVE  IInv(C, M)'
<1> DEFINE s == node[p]
           t == take_snapshot(s)
<1>0. Types(C, M)
  BY DEF IInv
<1>1. Sound(C, M, s) /\ s.term \in Nat
  BY <1>0, Unpacked, Fields DEF Sound
<1>2. Update(p, t, {}) /\ UNCHANGED <<ballot, elected, decided>>
  BY ZenonT(60) DEF TakeSnapshot
<1>3. Sound(C, M, t) /\ Kept(s, t)
  BY ZenonT(60), <1>1, TakeSnapshotSound
<1> HIDE DEF t
<1>4. Calm(s, t) /\ Harmless(C, M, {}) /\ decided' \subseteq Decided
  BY ZenonT(60), <1>0, <1>1, <1>2, <1>3, KeptCalm DEF Harmless, Types, Decided
<1> QED
  BY ZenonT(60), <1>2, <1>3, <1>4, CalmStep

(* So does a crash and restart: the vote was saved.                         *)
LEMMA RestartStep ==
    ASSUME NEW C, NEW M, Scope(C, M), IInv(C, M), NEW p \in Node, Restart(p)
    PROVE  IInv(C, M)'
<1> DEFINE s == node[p]
<1>0. Types(C, M)
  BY DEF IInv
<1>1. /\ Sound(C, M, s) /\ s.term \in Nat /\ s.voted \in Node \cup {None}
      /\ s.log \in LogOf(C, M) /\ s.applied \in Nat
  BY ZenonT(60), <1>0, Unpacked, Fields DEF Sound
<1>2. PICK d \in {0, s.applied} : Update(p, Recovered(s.term, s.voted, s.log, d), {})
  BY DEF Restart
<1>3. UNCHANGED <<ballot, elected, decided>>
  BY ZenonT(60) DEF Restart
<1> DEFINE t == Recovered(s.term, s.voted, s.log, d)
<1>4. d \in Nat
  BY SMTT(60), <1>1
<1>5. Sound(C, M, t) /\ t.role = "Follower" /\ t.term = s.term /\ t.voted = s.voted
  BY SMTT(60), <1>1, <1>4, RecoveredSound
<1>6. Update(p, t, {})
  BY ZenonT(60), <1>2
<1> HIDE DEF t
<1>7. Calm(s, t) /\ Harmless(C, M, {}) /\ decided' \subseteq Decided
  BY <1>0, <1>1, <1>3, <1>5, SMTT(60) DEF Calm, Harmless, Types, Decided
<1> QED
  BY ZenonT(60), <1>3, <1>5, <1>6, <1>7, CalmStep

-----------------------------------------------------------------------------
(* The arrival of a message.                                                *)
=============================================================================
