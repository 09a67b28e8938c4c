----------------------------- MODULE Raft_proofs -----------------------------
(* Proofs about Raft.tla for every cluster and every deployment.            *)
(*                                                                          *)
(* The argument is the one that makes elections safe.  A replica remembers   *)
(* the last vote it cast (VotesRemembered), so it casts one a term           *)
(* (VoteOnce); a vote that is counted or under way was cast (VotesReal); so  *)
(* every leader has a majority behind it (LeadersElected), and two           *)
(* majorities of one membership share a voter.  IInv adds the types these    *)
(* facts need.  The lemmas go up from logs to replicas, to messages, to one  *)
(* lemma per handler; CalmStep serves every handler that casts no vote and   *)
(* elects no leader.  The last part is about the entries of a log, for       *)
(* RaftLog_proofs.                                                           *)
EXTENDS RaftReplica_proofs

(* handle_higher_term: whoever changes term on the way in is a follower     *)
(* that has not voted.                                                       *)
LEMMA AdoptedSound ==
    ASSUME NEW C, NEW M, Types(C, M), NEW m \in msgs
    PROVE  LET s == node[m.to]
               a == Adopted(m)
           IN  /\ m.to \in Node /\ m.from \in Node /\ m.term \in Nat /\ s.term \in Nat
               /\ Sound(C, M, s) /\ Sound(C, M, a) /\ Calm(s, a) /\ a.log = s.log
               /\ a.term \in Nat /\ s.term <= a.term
               /\ a # s => a.role = "Follower" /\ a.term = m.term /\ a.voted = None /\ s.term < a.term
               /\ Adopts(m) /\ m.term > s.term => a # s
<1> DEFINE s == node[m.to]
           l == IF Leads(m) THEN m.from ELSE None
           f == become_follower(s, m.term, l)
           a == Adopted(m)
<1>1. Typed(C, M, m)
  BY Unpacked
<1>2. m.to \in Node /\ m.from \in Node /\ m.term \in Nat /\ l \in Node \cup {None}
  BY <1>1 DEF Typed
<1>3. Sound(C, M, s) /\ s.term \in Nat
  BY ZenonT(60), <1>2, Unpacked, Fields DEF Sound
<1>4. a = IF m.term > s.term /\ Adopts(m) THEN f ELSE s
  BY DEF Adopted
<1> HIDE DEF l
<1>5. CASE m.term > s.term /\ Adopts(m)
  <2>1. /\ Sound(C, M, f) /\ f.role = "Follower" /\ f.term = m.term /\ f.log = s.log
        /\ f.voted = None
    <3>1. /\ Sound(C, M, f) /\ f.role = "Follower" /\ f.term = m.term /\ f.log = s.log
          /\ f.voted = IF m.term = s.term THEN s.voted ELSE None
      <4>1. Sound(C, M, s) /\ m.term \in Nat /\ l \in Node \cup {None}
        BY <1>2, <1>3
      <4> HIDE DEF s
      <4> QED
        BY <4>1, FollowerSound
    <3>2. m.term # s.term
      BY <1>2, <1>3, <1>5
    <3> QED
      BY <3>1, <3>2
  <2>2. a = f
    BY <1>4, <1>5
  <2> HIDE DEF f, a
  <2>3. f # s
    BY SMTT(60), <1>2, <1>3, <1>5, <2>1
  <2> QED
    BY SMTT(60), <1>2, <1>3, <1>5, <2>1, <2>2, <2>3 DEF Calm, a
<1>6. CASE ~(m.term > s.term /\ Adopts(m))
  <2>1. a = s
    BY <1>4, <1>6
  <2> HIDE DEF a
  <2> QED
    BY SMTT(60), <1>2, <1>3, <1>6, <2>1 DEF Calm, a
<1> QED
  BY <1>5, <1>6

(* A replica that follows the sender of an append or a snapshot is sound and calm. *)
LEMMA FollowingSound ==
    ASSUME NEW C, NEW M, Types(C, M), NEW m \in msgs
    PROVE  /\ Sound(C, M, Following(m)) /\ Calm(node[m.to], Following(m))
           /\ Following(m).term \in Nat
<1> DEFINE s == Adopted(m)
           f == IF s.role \in {"PreCandidate", "Candidate"}
                THEN become_follower(s, s.term, m.from) ELSE s
           r == [f EXCEPT !.leader = m.from]
<1>1. /\ Sound(C, M, s) /\ Calm(node[m.to], s) /\ m.from \in Node /\ s.term \in Nat
      /\ node[m.to].term \in Nat
  BY AdoptedSound
<1>2. Following(m) = r
  BY DEF Following
<1> HIDE DEF s
<1>3. /\ Sound(C, M, f) /\ f.term = s.term /\ f.voted = s.voted
      /\ f.role = "Candidate" => f = s
  BY <1>1, FollowerSound
<1>4. f \in ReplicaOf(C, M)
  BY <1>3 DEF Sound
<1> HIDE DEF f
<1>5. r \in ReplicaOf(C, M)
  BY ZenonT(60), <1>1, <1>4 DEF ReplicaOf
<1>6. r.log = f.log /\ r.applied = f.applied /\ Kept(f, r)
  BY <1>4 DEF ReplicaOf, Kept
<1> HIDE DEF r
<1>7. Sound(C, M, r)
  BY ZenonT(60), <1>3, <1>5, <1>6 DEF Sound
<1>8. Calm(node[m.to], f)
  BY <1>1, <1>3 DEF Calm
<1>9. Calm(node[m.to], r)
  BY ZenonT(60), <1>6, <1>8, CalmKept
<1>10. r.term \in Nat
  BY ZenonT(60), <1>1, <1>3, <1>6 DEF Kept
<1> QED
  BY ZenonT(60), <1>2, <1>7, <1>9, <1>10

(* The refusal of a message of an old term preserves the invariant.         *)
LEMMA RejectStaleStep ==
    ASSUME NEW C, NEW M, Scope(C, M), IInv(C, M), NEW m \in msgs, RejectStale(m)
    PROVE  IInv(C, M)'
<1> DEFINE p == m.to
           t == node[m.to].term
           a == Vote("PreVoteResponse", m.to, m.from, t, FALSE)
           b == Vote("VoteResponse", m.to, m.from, t, FALSE)
           c == AppendAck(m.to, m.from, t, FALSE, 0, 0, 0)
           sent == CASE m.kind = "PreVoteRequest" -> {a}
                     [] m.kind = "VoteRequest" -> {b}
                     [] Leads(m) -> {c}
                     [] OTHER -> {}
<1>0. Types(C, M)
  BY DEF IInv
<1>1. p \in Node /\ m.from \in Node /\ t \in Nat /\ Sound(C, M, node[p]) /\ Calm(node[p], node[p])
  <2>1. p \in Node /\ m.from \in Node /\ t \in Nat /\ Sound(C, M, node[p])
    BY <1>0, AdoptedSound
  <2> QED
    BY SMTT(60), <2>1 DEF Calm
<1>2. Send(sent) /\ UNCHANGED <<node, ballot, elected, decided>>
  BY DEF RejectStale
<1>3. Harmless(C, M, sent)
  <2>1. sent \subseteq {a, b, c}
    <3> HIDE DEF a, b, c
    <3>1. CASE m.kind = "PreVoteRequest"
      BY <3>1 DEF Leads
    <3>2. CASE m.kind = "VoteRequest"
      BY <3>2 DEF Leads
    <3>3. CASE Leads(m)
      BY <3>3 DEF Leads
    <3>4. CASE m.kind # "PreVoteRequest" /\ m.kind # "VoteRequest" /\ ~Leads(m)
      BY <3>4
    <3> QED
      BY ZenonT(60), <3>1, <3>2, <3>3, <3>4
  <2>2. \A x \in {a, b, c} : Typed(C, M, x) /\ (x.kind = "VoteResponse" => ~x.granted)
    BY SMTT(60), <1>1 DEF Vote, AppendAck, Typed
  <2> HIDE DEF sent, a, b, c
  <2> QED
    BY <2>1, <2>2 DEF Harmless
<1> HIDE DEF sent
<1>4. Update(p, node[p], sent)
  BY ZenonT(60), <1>0, <1>1, <1>2 DEF Update, Types
<1>5. decided' \subseteq Decided
  BY ZenonT(60), <1>0, <1>2 DEF Types, Decided
<1> QED
  BY ZenonT(60), <1>1, <1>2, <1>3, <1>4, <1>5, CalmStep

(* So does the answer to a pre-vote, which binds nobody.                    *)
LEMMA PreVoteRequestStep ==
    ASSUME NEW C, NEW M, Scope(C, M), IInv(C, M), NEW m \in msgs, HandlePreVoteRequest(m)
    PROVE  IInv(C, M)'
<1> DEFINE s == Adopted(m)
           granted(gone) == /\ m.term > s.term /\ gone
                            /\ is_log_up_to_date(s, m.last_log_index, m.last_log_term)
<1>0. Types(C, M)
  BY DEF IInv
<1>1. m.to \in Node /\ m.from \in Node /\ s.term \in Nat /\ Sound(C, M, s) /\ Calm(node[m.to], s)
  BY <1>0, AdoptedSound
<1>2. PICK gone \in BOOLEAN :
          Update(m.to, s, {Vote("PreVoteResponse", m.to, m.from, s.term, granted(gone))})
  BY Zenon DEF HandlePreVoteRequest
<1>3. UNCHANGED <<ballot, elected, decided>>
  BY DEF HandlePreVoteRequest
<1> HIDE DEF s, granted
<1> DEFINE sent == {Vote("PreVoteResponse", m.to, m.from, s.term, granted(gone))}
<1>4. Harmless(C, M, sent)
  BY <1>1 DEF Harmless, Vote, Typed
<1>5. Update(m.to, s, sent)
  BY <1>2
<1> HIDE DEF sent
<1>6. decided' \subseteq Decided
  BY <1>0, <1>3 DEF Types, Decided
<1> QED
  BY ZenonT(60), <1>1, <1>3, <1>4, <1>5, <1>6, CalmStep

(* So does the answer to a request for a vote: it is given once, and remembered. *)
LEMMA VoteRequestStep ==
    ASSUME NEW C, NEW M, Scope(C, M), IInv(C, M), NEW m \in msgs, HandleVoteRequest(m)
    PROVE  IInv(C, M)'
<1> DEFINE p == m.to
           s == Adopted(m)
           t == [s EXCEPT !.voted = m.from]
           Answer(g) == {Vote("VoteResponse", m.to, m.from, s.term, g)}
<1>0. Types(C, M)
  BY DEF IInv
<1>1. /\ p \in Node /\ m.from \in Node /\ s.term \in Nat /\ Sound(C, M, s) /\ Calm(node[p], s)
      /\ node[p].term \in Nat /\ node[p].term <= s.term /\ (s # node[p] => node[p].term < s.term)
  BY ZenonT(60), <1>0, AdoptedSound
<1>2. /\ \/ MayVote(s, m) /\ Update(p, t, Answer(TRUE)) /\ ballot' = ballot \cup {<<p, s.term, m.from>>}
         \/ Update(p, s, Answer(FALSE)) /\ UNCHANGED ballot
      /\ UNCHANGED <<elected, decided>>
  BY DEF HandleVoteRequest
<1> HIDE DEF s
<1>3. \A g \in BOOLEAN : \A x \in Answer(g) :
          /\ Typed(C, M, x) /\ x.granted = g
          /\ x.from = p /\ x.term = s.term /\ x.to = m.from
  BY <1>1 DEF Vote, Typed
<1>4. decided' \subseteq Decided
  BY ZenonT(60), <1>0, <1>2 DEF Types, Decided
<1>5. CASE Update(p, s, Answer(FALSE)) /\ UNCHANGED ballot
  <2>1. Harmless(C, M, Answer(FALSE))
    BY Zenon, <1>3 DEF Harmless
  <2> HIDE DEF Answer
  <2> QED
    BY Zenon, <1>1, <1>2, <1>4, <1>5, <2>1, CalmStep
<1>6. CASE MayVote(s, m) /\ Update(p, t, Answer(TRUE)) /\ ballot' = ballot \cup {<<p, s.term, m.from>>}
  <2>1. s \in ReplicaOf(C, M)
    BY <1>1 DEF Sound
  <2>2. t \in ReplicaOf(C, M)
    BY ZenonT(60), <1>1, <2>1 DEF ReplicaOf
  <2>3. /\ t.voted = m.from /\ t.term = s.term /\ t.role = s.role /\ t.yes = s.yes
        /\ t.log = s.log /\ t.applied = s.applied
    BY <2>1 DEF ReplicaOf
  <2> DEFINE sent == Answer(TRUE)
  <2>4. \A x \in sent : Typed(C, M, x) /\ <<x.from, x.term, x.to>> = <<p, s.term, m.from>>
    BY ZenonT(60), <1>3
  <2> HIDE DEF t, sent
  <2>5. Sound(C, M, t)
    BY <1>1, <2>2, <2>3 DEF Sound
  <2>6. /\ ballot \subseteq ballot' /\ ballot' \subseteq ballot \cup {<<p, t.term, t.voted>>}
        /\ <<p, s.term, m.from>> \in ballot' /\ ballot' \subseteq Node \X Nat \X Node
    BY <1>0, <1>1, <1>6, <2>3 DEF Types
  <2>7. Update(p, t, sent) /\ elected' = elected
    BY ZenonT(60), <1>2, <1>6 DEF sent
  <2>8. elected' \subseteq Nat \X Node
    BY ZenonT(60), <1>0, <2>7 DEF Types
  <2>9. Types(C, M)'
    BY ZenonT(60), <1>0, <1>1, <1>4, <2>4, <2>5, <2>6, <2>7, <2>8, TypesStep
  <2>10. t.term = node[p].term => t.voted = node[p].voted \/ node[p].voted = None
    BY SMTT(60), <1>1, <1>6, <2>3 DEF MayVote
  <2>11. t.role = "Candidate" => \A q \in t.yes : <<q, t.term, p>> \in ballot'
    <3>1. t.role = "Candidate" =>
            node[p].role = "Candidate" /\ t.term = node[p].term /\ t.yes \subseteq node[p].yes
      BY ZenonT(60), <1>1, <2>3 DEF Calm
    <3>2. node[p].role = "Candidate" => \A q \in node[p].yes : <<q, node[p].term, p>> \in ballot
      BY <1>1 DEF IInv, Votes, VotesReal
    <3> QED
      BY ZenonT(60), <2>6, <3>1, <3>2
  <2>12. \A x \in sent : <<x.from, x.term, x.to>> \in ballot'
    BY ZenonT(60), <2>4, <2>6
  <2>13. node[p].term <= t.term
    BY ZenonT(60), <1>1, <2>3
  <2>14. Votes(M)'
    BY ZenonT(60), <1>1, <2>6, <2>7, <2>9, <2>10, <2>11, <2>12, <2>13, VotesStep
  <2> QED
    BY <2>9, <2>14 DEF IInv
<1> QED
  BY ZenonT(60), <1>2, <1>5, <1>6

(* A candidate that counts a vote was really voted for in the term it is in. *)
LEMMA VoteResponseStep ==
    ASSUME NEW C, NEW M, Scope(C, M), IInv(C, M), NEW m \in msgs, HandleVoteResponse(m)
    PROVE  IInv(C, M)'
<1> DEFINE p == m.to
           s == Adopted(m)
           y == IF m.granted THEN s.yes \cup {m.from} ELSE s.yes \ {m.from}
           n == IF m.granted THEN s.no \ {m.from} ELSE s.no \cup {m.from}
           r == [s EXCEPT !.yes = y, !.no = n]
           f == [r EXCEPT !.role = "Follower", !.yes = {}, !.no = {}]
           won == is_quorum(r.members, Cardinality(r.yes))
           lost == is_quorum(r.members, Cardinality(r.no))
           pre == m.kind = "PreVoteResponse"
<1>0. Types(C, M)
  BY DEF IInv
<1>1. /\ p \in Node /\ m.from \in Node /\ s.term \in Nat /\ m.term \in Nat
      /\ Sound(C, M, s) /\ Calm(node[p], s) /\ node[p].term \in Nat /\ node[p].term <= s.term
      /\ s # node[p] => s.role = "Follower"
      /\ Adopts(m) /\ m.term > node[p].term => s # node[p]
  BY ZenonT(60), <1>0, AdoptedSound
<1>2. s \in ReplicaOf(C, M) /\ s.yes \in SUBSET Node /\ s.no \in SUBSET Node
  BY ZenonT(60), <1>1, Fields DEF Sound
<1>3. /\ m.kind \in {"PreVoteResponse", "VoteResponse"} /\ Current(m)
      /\ \/ Update(p, s, {}) /\ UNCHANGED <<ballot, elected, decided>>
         \/ pre /\ campaign(p, r)
         \/ /\ s.role = "Candidate" /\ won /\ m.kind = "VoteResponse"
            /\ become_leader(p, r) /\ UNCHANGED ballot
         \/ /\ s.role = IF pre THEN "PreCandidate" ELSE "Candidate"
            /\ Update(p, IF lost THEN f ELSE r, {})
            /\ UNCHANGED <<ballot, elected, decided>>
  <2>1. r = [s EXCEPT !.yes = IF m.granted THEN @ \cup {m.from} ELSE @ \ {m.from},
                      !.no = IF m.granted THEN @ \ {m.from} ELSE @ \cup {m.from}]
    BY ZenonT(60), <1>2 DEF ReplicaOf
  <2> HIDE DEF s, r
  <2> QED
    BY <2>1 DEF HandleVoteResponse, s
<1>4. y \in SUBSET Node /\ n \in SUBSET Node
  BY ZenonT(60), <1>1, <1>2
<1>5. y \subseteq s.yes \/ (m.granted /\ y = s.yes \cup {m.from})
  OBVIOUS
<1> HIDE DEF s, y, n
<1>6. r \in ReplicaOf(C, M)
  BY Zenon, <1>2, <1>4 DEF ReplicaOf
<1>7. /\ r.yes = y /\ r.term = s.term /\ r.voted = s.voted /\ r.role = s.role
      /\ r.log = s.log /\ r.applied = s.applied
  BY <1>2 DEF ReplicaOf
<1> HIDE DEF r
<1>8. f \in ReplicaOf(C, M)
  BY ZenonT(60), <1>6 DEF ReplicaOf, Role
<1>9. /\ f.role = "Follower" /\ f.term = r.term /\ f.voted = r.voted
      /\ f.log = r.log /\ f.applied = r.applied
  BY <1>6 DEF ReplicaOf
<1> HIDE DEF f, won, lost
<1>10. Sound(C, M, r) /\ Sound(C, M, f)
  BY <1>1, <1>6, <1>7, <1>8, <1>9 DEF Sound
(* What a candidate has counted once this answer is in.                     *)
<1>11. m.kind = "VoteResponse" /\ s.role = "Candidate" => \A q \in y : <<q, s.term, p>> \in ballot
  <2> SUFFICES ASSUME m.kind = "VoteResponse", s.role = "Candidate", NEW q \in y
               PROVE  <<q, s.term, p>> \in ballot
    OBVIOUS
  <2>1. s = node[p]
    BY <1>1
  <2>2. Adopts(m)
    BY DEF Adopts
  <2>3. m.term = s.term
    BY SMTT(60), <1>1, <1>3, <2>1, <2>2 DEF Current
  <2>4. CASE q \in s.yes
    BY ZenonT(60), <1>1, <2>1, <2>4 DEF IInv, Votes, VotesReal
  <2>5. CASE m.granted /\ q = m.from
    <3>1. <<m.from, m.term, m.to>> \in ballot
      BY ZenonT(60), <2>5 DEF IInv, Votes, VotesReal
    <3> QED
      BY ZenonT(60), <2>3, <2>5, <3>1
  <2> QED
    BY ZenonT(60), <1>5, <2>4, <2>5
<1>12. CASE Update(p, s, {}) /\ UNCHANGED <<ballot, elected, decided>>
  <2>1. Harmless(C, M, {}) /\ decided' \subseteq Decided
    BY ZenonT(60), <1>0, <1>12 DEF Harmless, Types, Decided
  <2> QED
    BY ZenonT(60), <1>1, <1>12, <2>1, CalmStep
<1>13. CASE campaign(p, r)
  BY ZenonT(60), <1>1, <1>7, <1>10, <1>13, CampaignStep
<1>14. CASE /\ s.role = "Candidate" /\ won /\ m.kind = "VoteResponse"
            /\ become_leader(p, r) /\ UNCHANGED ballot
  <2>1. PICK t, sent : /\ Sound(C, M, t) /\ Plain(C, M, sent) /\ Update(p, t, sent)
                       /\ t.role = "Leader" /\ t.term = r.term /\ t.voted = r.voted
                       /\ decided' \subseteq Decided
    BY ZenonT(60), <1>0, <1>1, <1>10, <1>14, BecomeLeaderStep
  <2>2. elected' = elected \cup {<<r.term, p>>}
    BY ZenonT(60), <1>0, <1>1, <1>10, <1>14, BecomeLeaderStep
  <2>3. ballot' = ballot /\ ballot' \subseteq Node \X Nat \X Node
    BY ZenonT(60), <1>0, <1>14 DEF Types
  <2>4. elected' \subseteq Nat \X Node
    BY SMTT(60), <1>0, <1>1, <1>7, <2>2 DEF Types
  <2>5. Types(C, M)'
    BY ZenonT(60), <1>0, <1>1, <2>1, <2>3, <2>4, TypesStep DEF Plain
  <2>6. \E X \in M : is_quorum(X, Cardinality(VotersOf(t.term, p)'))
    <3>1. r.members \in M /\ r.members \in SUBSET Node
      BY ZenonT(60), <1>6, Fields DEF Scope
    <3>2. /\ VotersOf(t.term, p)' \in SUBSET Node /\ y \subseteq VotersOf(t.term, p)'
      BY ZenonT(60), <1>4, <1>7, <1>11, <1>14, <2>1, <2>3 DEF VotersOf
    <3>3. is_quorum(r.members, Cardinality(y))
      BY ZenonT(60), <1>7, <1>14 DEF won
    <3>4. is_quorum(r.members, Cardinality(VotersOf(t.term, p)'))
      BY ZenonT(60), <1>4, <3>1, <3>2, <3>3, QuorumGrows
    <3> QED
      BY ZenonT(60), <3>1, <3>4
  <2>7. /\ node[p].term <= t.term /\ t.role # "Candidate"
        /\ t.term = node[p].term => t.voted = node[p].voted
    BY ZenonT(60), <1>1, <1>7, <2>1 DEF Calm
  <2>8. \A x \in sent : ~(x.kind = "VoteResponse" /\ x.granted)
    BY <2>1 DEF Plain
  <2>9. elected' \subseteq elected \cup {<<t.term, p>>}
    BY ZenonT(60), <2>1, <2>2
  <2>10. Votes(M)'
    BY ZenonT(60), <1>1, <2>1, <2>3, <2>5, <2>6, <2>7, <2>8, <2>9, VotesStep
  <2> QED
    BY <2>5, <2>10 DEF IInv
<1>15. CASE /\ s.role = IF pre THEN "PreCandidate" ELSE "Candidate"
            /\ Update(p, IF lost THEN f ELSE r, {})
            /\ UNCHANGED <<ballot, elected, decided>>
  <2> DEFINE t == IF lost THEN f ELSE r
  <2>1. Sound(C, M, t) /\ t.term = s.term /\ t.voted = s.voted
    BY ZenonT(60), <1>7, <1>9, <1>10
  <2>2. t.role = "Candidate" => \A q \in t.yes : <<q, t.term, p>> \in ballot'
    <3>1. t.role = "Candidate" => t = r /\ m.kind = "VoteResponse" /\ s.role = "Candidate"
      BY ZenonT(60), <1>3, <1>7, <1>9, <1>15
    <3> QED
      BY ZenonT(60), <1>7, <1>11, <1>15, <3>1
  <2>3. Update(p, t, {})
    BY ZenonT(60), <1>15
  <2> HIDE DEF t
  <2>4. Types(C, M)'
    <3>1. /\ ballot' \subseteq Node \X Nat \X Node /\ elected' \subseteq Nat \X Node
          /\ decided' \subseteq Decided
      BY ZenonT(60), <1>0, <1>15 DEF Types, Decided
    <3> QED
      BY SMTT(60), <1>0, <1>1, <2>1, <2>3, <3>1, TypesStep
  <2>5. node[p].term <= t.term /\ (t.term = node[p].term => t.voted = node[p].voted)
    BY <1>1, <2>1 DEF Calm
  <2>6. ballot' = ballot /\ elected' = elected
    BY ZenonT(60), <1>15
  <2>7. Votes(M)'
    BY SMTT(60), <1>1, <2>2, <2>3, <2>4, <2>5, <2>6, VotesStep
  <2> QED
    BY <2>4, <2>7 DEF IInv
<1> QED
  BY ZenonT(60), <1>3, <1>12, <1>13, <1>14, <1>15

(* Acknowledgements are typed and are no votes.                             *)
LEMMA AckPlain ==
    ASSUME NEW C, NEW M, NEW p \in Node, NEW q \in Node, NEW t \in Nat, NEW ok,
           NEW i \in Nat, NEW j \in Nat, NEW k
    PROVE  Harmless(C, M, {AppendAck(p, q, t, ok, i, j, k)}) /\ Harmless(C, M, {SnapshotAck(p, q, t, i)})
BY DEF Harmless, Typed, AppendAck, SnapshotAck

(* handle_append_entries preserves the invariant.                           *)
LEMMA AppendEntriesStep ==
    ASSUME NEW C, NEW M, Scope(C, M), IInv(C, M), NEW m \in msgs, HandleAppendEntries(m)
    PROVE  IInv(C, M)'
<1> DEFINE p == m.to
           s == Following(m)
           prev == m.prev_log_index
<1>0. Types(C, M)
  BY DEF IInv
<1>1. /\ p \in Node /\ m.from \in Node /\ m.kind = "AppendEntries"
      /\ prev \in Nat /\ m.entries \in Seq(EntryOf(C)) /\ m.leader_commit \in Nat
  BY <1>0 DEF Types, Typed, HandleAppendEntries
<1>2. Sound(C, M, s) /\ Calm(node[p], s) /\ s.term \in Nat
  BY ZenonT(60), <1>0, FollowingSound
<1>3. s.log.base.index \in Nat /\ last_index(s.log) \in Nat
  BY SMTT(60), <1>2, Fields, LogFields DEF Sound
<1>4. Len(m.entries) \in Nat
  BY ZenonT(60), <1>1, LenProperties
<1>5. UNCHANGED <<ballot, elected>> /\ decided' \subseteq Decided
  BY <1>0 DEF HandleAppendEntries, Types, Decided
<1>6. \/ \E ok \in BOOLEAN : \E i, j \in Nat : \E k : Update(p, s, {AppendAck(p, m.from, s.term, ok, i, j, k)})
      \/ /\ PrevAgrees(s.log, m)
         /\ Update(p, Accept(s, m), {AppendAck(p, m.from, s.term, TRUE, prev + Len(m.entries), 0, 0)})
  <2> DEFINE Ack(ok, i, j, k) == {AppendAck(p, m.from, s.term, ok, i, j, k)}
  <2>1. \/ Update(p, s, Ack(TRUE, s.log.base.index, 0, 0))
        \/ Update(p, s, Ack(FALSE, 0, last_index(s.log) + 1, 0))
        \/ \E i \in 1 .. prev : Update(p, s, Ack(FALSE, 0, i, term_at(s.log, prev)))
        \/ PrevAgrees(s.log, m) /\ Update(p, Accept(s, m), Ack(TRUE, prev + Len(m.entries), 0, 0))
    BY Zenon DEF HandleAppendEntries
  <2> HIDE DEF s
  <2>2. 0 \in Nat /\ last_index(s.log) + 1 \in Nat /\ \A i \in 1 .. prev : i \in Nat
    BY <1>1, <1>3
  <2>3. ASSUME NEW ok \in BOOLEAN, NEW i \in Nat, NEW j \in Nat, NEW k, Update(p, s, Ack(ok, i, j, k))
        PROVE  \E o \in BOOLEAN : \E x, y \in Nat : \E z : Update(p, s, {AppendAck(p, m.from, s.term, o, x, y, z)})
    BY Zenon, <2>3, Zenon
  <2>4. CASE \E i \in 1 .. prev : Update(p, s, Ack(FALSE, 0, i, term_at(s.log, prev)))
    <3>1. PICK i \in 1 .. prev : Update(p, s, Ack(FALSE, 0, i, term_at(s.log, prev)))
      BY Zenon, <2>4
    <3> HIDE DEF Ack
    <3> QED
      BY ZenonT(60), <2>2, <2>3, <3>1, Zenon
  <2>5. CASE Update(p, s, Ack(TRUE, s.log.base.index, 0, 0)) \/ Update(p, s, Ack(FALSE, 0, last_index(s.log) + 1, 0))
    <3> HIDE DEF Ack
    <3> QED
      BY Zenon, <1>3, <2>2, <2>3, <2>5, Zenon
  <2> QED
    BY ZenonT(60), <2>1, <2>4, <2>5, Zenon
<1> HIDE DEF s
<1>7. CASE \E ok \in BOOLEAN : \E i, j \in Nat : \E k : Update(p, s, {AppendAck(p, m.from, s.term, ok, i, j, k)})
  <2>1. PICK ok \in BOOLEAN : \E i, j \in Nat : \E k : Update(p, s, {AppendAck(p, m.from, s.term, ok, i, j, k)})
    BY ZenonT(60), <1>7
  <2>2. PICK i \in Nat, j \in Nat : \E k : Update(p, s, {AppendAck(p, m.from, s.term, ok, i, j, k)})
    BY ZenonT(60), <2>1
  <2>3. PICK k : Update(p, s, {AppendAck(p, m.from, s.term, ok, i, j, k)})
    BY <2>2
  <2>4. Harmless(C, M, {AppendAck(p, m.from, s.term, ok, i, j, k)})
    BY ZenonT(60), <1>1, <1>2, AckPlain
  <2> QED
    BY ZenonT(60), <1>1, <1>2, <1>5, <2>3, <2>4, CalmStep
<1>8. CASE /\ PrevAgrees(s.log, m)
           /\ Update(p, Accept(s, m), {AppendAck(p, m.from, s.term, TRUE, prev + Len(m.entries), 0, 0)})
  <2>1. Sound(C, M, Accept(s, m)) /\ Kept(s, Accept(s, m))
    BY ZenonT(60), <1>1, <1>2, <1>8, AcceptSound DEF PrevAgrees
  <2>2. Calm(node[p], Accept(s, m))
    BY ZenonT(60), <1>2, <2>1, CalmKept
  <2>3. prev + Len(m.entries) \in Nat
    BY SMTT(60), <1>1, <1>4
  <2>4. Harmless(C, M, {AppendAck(p, m.from, s.term, TRUE, prev + Len(m.entries), 0, 0)})
    BY ZenonT(60), <1>1, <1>2, <2>3, AckPlain
  <2> QED
    BY <1>1, <1>5, <1>8, <2>1, <2>2, <2>4, CalmStep
<1> QED
  BY ZenonT(60), <1>6, <1>7, <1>8

(* handle_install_snapshot preserves the invariant.                         *)
LEMMA InstallSnapshotStep ==
    ASSUME NEW C, NEW M, Scope(C, M), IInv(C, M), NEW m \in msgs, HandleInstallSnapshot(m)
    PROVE  IInv(C, M)'
<1> DEFINE p == m.to
           s == Following(m)
           b == m.snapshot
<1>0. Types(C, M)
  BY DEF IInv
<1>1. p \in Node /\ m.from \in Node /\ b \in BaseOf(M)
  BY <1>0 DEF Types, Typed, HandleInstallSnapshot
<1>2. Sound(C, M, s) /\ Calm(node[p], s) /\ s.term \in Nat
  BY <1>0, FollowingSound
<1>3. last_index(s.log) \in Nat /\ b.index \in Nat
  BY ZenonT(60), <1>1, <1>2, Fields, LogFields DEF Sound, BaseOf
<1>4. UNCHANGED <<ballot, elected>> /\ decided' \subseteq Decided
  BY <1>0 DEF HandleInstallSnapshot, Types, Decided
<1>5. \/ Update(p, s, {SnapshotAck(p, m.from, s.term, last_index(s.log))})
      \/ Update(p, Installed(s, b), {SnapshotAck(p, m.from, s.term, b.index)})
  BY ZenonT(60) DEF HandleInstallSnapshot
<1> HIDE DEF s
<1>6. /\ Harmless(C, M, {SnapshotAck(p, m.from, s.term, last_index(s.log))})
      /\ Harmless(C, M, {SnapshotAck(p, m.from, s.term, b.index)})
  BY ZenonT(60), <1>1, <1>2, <1>3, AckPlain
<1>7. Sound(C, M, Installed(s, b)) /\ Kept(s, Installed(s, b))
  BY <1>1, <1>2, InstalledSound
<1>8. Calm(node[p], Installed(s, b))
  BY <1>2, <1>7, CalmKept
<1>9. CASE Update(p, s, {SnapshotAck(p, m.from, s.term, last_index(s.log))})
  BY ZenonT(60), <1>1, <1>2, <1>4, <1>6, <1>9, CalmStep
<1>10. CASE Update(p, Installed(s, b), {SnapshotAck(p, m.from, s.term, b.index)})
  BY ZenonT(60), <1>1, <1>4, <1>6, <1>7, <1>8, <1>10, CalmStep
<1> QED
  BY <1>5, <1>9, <1>10

(* A leader takes in an answer and sends what follows from it.              *)
LEMMA AnsweredStep ==
    ASSUME NEW C, NEW M, Scope(C, M), IInv(C, M), NEW p \in Node, NEW s, Calm(node[p], s),
           NEW b, Sound(C, M, b), Kept(s, b), NEW Q, NEW sent, Plain(C, M, sent),
           Update(p, Sent(b, Q), sent), UNCHANGED <<ballot, elected>>, decided' \subseteq Decided
    PROVE  IInv(C, M)'
<1>1. Sound(C, M, Sent(b, Q)) /\ Kept(b, Sent(b, Q))
  BY SentSound
<1>2. Calm(node[p], Sent(b, Q))
  BY <1>1, CalmKept
<1>3. Harmless(C, M, sent)
  BY DEF Plain, Harmless
<1> QED
  BY ZenonT(60), <1>1, <1>2, <1>3, CalmStep

(* An answer that is ignored preserves the invariant.                       *)
LEMMA IgnoredStep ==
    ASSUME NEW C, NEW M, Scope(C, M), IInv(C, M), NEW m \in msgs,
           Update(m.to, Adopted(m), {}), UNCHANGED <<ballot, elected, decided>>
    PROVE  IInv(C, M)'
<1>0. Types(C, M)
  BY ZenonT(60) DEF IInv
<1>1. m.to \in Node /\ Sound(C, M, Adopted(m)) /\ Calm(node[m.to], Adopted(m))
  BY ZenonT(60), <1>0, AdoptedSound
<1>2. Harmless(C, M, {}) /\ decided' \subseteq Decided
  BY <1>0 DEF Harmless, Types, Decided
<1> QED
  BY ZenonT(60), <1>1, <1>2, CalmStep

(* An acknowledgement that is counted preserves the invariant.              *)
LEMMA AcknowledgedStep ==
    ASSUME NEW C, NEW M, Types(C, M), NEW p \in Node, NEW s, Sound(C, M, s),
           NEW q \in Node, NEW i \in Nat
    PROVE  LET a == Acknowledged(s, q, i)
               b == Commit(p, a)
           IN  /\ Sound(C, M, b) /\ Kept(s, b)
               /\ Decide(a, b) => decided' \subseteq Decided
<1> DEFINE a == Acknowledged(s, q, i)
           b == Commit(p, a)
<1>1. Sound(C, M, a) /\ Kept(s, a)
  BY AcknowledgedSound
<1> HIDE DEF a
<1>2. Sound(C, M, b) /\ Kept(a, b)
  BY <1>1, CommitSound
<1> HIDE DEF b
<1>3. Kept(s, b)
  BY <1>1, <1>2 DEF Kept
<1>4. Decide(a, b) => decided' \subseteq Decided
  BY ZenonT(60), <1>1, <1>2, DecideTyped
<1> QED
  BY ZenonT(60), <1>2, <1>3, <1>4 DEF a, b

(* handle_append_response preserves the invariant.                          *)
LEMMA AppendResponseStep ==
    ASSUME NEW C, NEW M, Scope(C, M), IInv(C, M), NEW m \in msgs, HandleAppendResponse(m)
    PROVE  IInv(C, M)'
<1> DEFINE p == m.to
           s == Adopted(m)
           a == Acknowledged(s, m.from, m.match_index)
           b == Commit(p, a)
           peers == IF a.next[m.from] <= last_index(a.log) THEN {m.from} ELSE {}
           r == Rejected(s, m)
<1>0. Types(C, M)
  BY DEF IInv
<1>1. /\ p \in Node /\ m.from \in Node /\ m.match_index \in Nat /\ m.conflict_index \in Nat
  BY ZenonT(60), <1>0 DEF Types, Typed, HandleAppendResponse
<1>2. Sound(C, M, s) /\ Calm(node[p], s) /\ world \in World
  BY ZenonT(60), <1>0, <1>1, AdoptedSound, Unpacked
<1>3. /\ UNCHANGED <<ballot, elected>>
      /\ \/ Update(p, s, {}) /\ UNCHANGED decided
         \/ Update(p, Sent(b, peers), SendAppends(p, b, peers)) /\ Decide(a, b)
         \/ Update(p, Sent(r, {m.from}), SendAppend(p, r, m.from)) /\ UNCHANGED decided
  BY ZenonT(60) DEF HandleAppendResponse
<1>4. /\ Sound(C, M, b) /\ Kept(s, b) /\ (Decide(a, b) => decided' \subseteq Decided)
  <2> HIDE DEF s
  <2> QED
    BY ZenonT(60), <1>0, <1>1, <1>2, AcknowledgedStep
<1>5. Sound(C, M, r) /\ Kept(s, r)
  <2> HIDE DEF s
  <2> QED
    BY ZenonT(60), <1>1, <1>2, RejectedSound
<1>6. peers \in SUBSET Node
  BY <1>1
<1> HIDE DEF a, b, peers, r
<1>7. CASE Update(p, s, {}) /\ UNCHANGED decided
  BY ZenonT(60), <1>3, <1>7, IgnoredStep
<1> HIDE DEF s
<1>8. CASE Update(p, Sent(b, peers), SendAppends(p, b, peers)) /\ Decide(a, b)
  <2>1. Plain(C, M, SendAppends(p, b, peers))
    BY ZenonT(60), <1>1, <1>2, <1>4, <1>6, SendAppendsPlain
  <2> QED
    BY ZenonT(60), <1>1, <1>2, <1>3, <1>4, <1>8, <2>1, AnsweredStep
<1>9. CASE Update(p, Sent(r, {m.from}), SendAppend(p, r, m.from)) /\ UNCHANGED decided
  <2>1. Plain(C, M, SendAppend(p, r, m.from))
    BY ZenonT(60), <1>1, <1>2, <1>5, SendAppendPlain
  <2>2. decided' \subseteq Decided
    BY ZenonT(60), <1>0, <1>9 DEF Types, Decided
  <2> QED
    BY ZenonT(60), <1>1, <1>2, <1>3, <1>5, <1>9, <2>1, <2>2, AnsweredStep
<1> QED
  BY ZenonT(60), <1>3, <1>7, <1>8, <1>9

(* handle_install_snapshot_response preserves the invariant.                *)
LEMMA InstallSnapshotResponseStep ==
    ASSUME NEW C, NEW M, Scope(C, M), IInv(C, M), NEW m \in msgs, HandleInstallSnapshotResponse(m)
    PROVE  IInv(C, M)'
<1> DEFINE p == m.to
           s == Adopted(m)
           a == Acknowledged(s, m.from, m.last_index)
           b == Commit(p, a)
<1>0. Types(C, M)
  BY DEF IInv
<1>1. p \in Node /\ m.from \in Node /\ m.last_index \in Nat
  BY ZenonT(60), <1>0 DEF Types, Typed, HandleInstallSnapshotResponse
<1>2. Sound(C, M, s) /\ Calm(node[p], s) /\ world \in World
  BY ZenonT(60), <1>0, <1>1, AdoptedSound, Unpacked
<1>3. /\ UNCHANGED <<ballot, elected>>
      /\ \/ Update(p, s, {}) /\ UNCHANGED decided
         \/ Update(p, Sent(b, {m.from}), SendAppend(p, b, m.from)) /\ Decide(a, b)
  BY ZenonT(60) DEF HandleInstallSnapshotResponse
<1>4. Sound(C, M, b) /\ Kept(s, b) /\ (Decide(a, b) => decided' \subseteq Decided)
  <2> HIDE DEF s
  <2> QED
    BY ZenonT(60), <1>0, <1>1, <1>2, AcknowledgedStep
<1> HIDE DEF a, b
<1>5. CASE Update(p, s, {}) /\ UNCHANGED decided
  BY ZenonT(60), <1>3, <1>5, IgnoredStep
<1> HIDE DEF s
<1>6. CASE Update(p, Sent(b, {m.from}), SendAppend(p, b, m.from)) /\ Decide(a, b)
  <2>1. Plain(C, M, SendAppend(p, b, m.from))
    BY ZenonT(60), <1>1, <1>2, <1>4, SendAppendPlain
  <2> QED
    BY ZenonT(60), <1>1, <1>2, <1>3, <1>4, <1>6, <2>1, AnsweredStep
<1> QED
  BY ZenonT(60), <1>3, <1>5, <1>6

-----------------------------------------------------------------------------
(* The inductive invariant, and what follows from it.                       *)

(* Every step preserves the invariant.                                      *)
LEMMA NextStep ==
    ASSUME NEW C, NEW M, Covers(C, M), IInv(C, M), [Next]_vars
    PROVE  IInv(C, M)'
<1>0. Scope(C, M)
  BY DEF Covers
<1>1. ASSUME NEW m \in msgs, Receive(m) PROVE IInv(C, M)'
  BY ZenonT(60), <1>0, <1>1, RejectStaleStep, PreVoteRequestStep, VoteRequestStep, VoteResponseStep,
     AppendEntriesStep, AppendResponseStep, InstallSnapshotStep, InstallSnapshotResponseStep
  DEF Receive
<1>2. ASSUME NEW p \in Node, Call(p) PROVE IInv(C, M)'
  BY ZenonT(60), <1>0, <1>2, TimeoutStep, HeartbeatStep, StepDownStep, ProposeStep, ProposeMembershipStep,
     TakeSnapshotStep, RestartStep
  DEF Call
<1>3. CASE UNCHANGED vars
  BY Zenon, <1>3 DEF vars, IInv, Types, Votes, VoteOnce, VotesRemembered, VotesReal, LeadersElected,
              VotersOf
<1> QED
  BY ZenonT(60), <1>1, <1>2, <1>3 DEF Next

(* For every cluster, every deployment and every way messages are lost,     *)
(* repeated, delayed and reordered across crashes and restarts: replicas     *)
(* stay typed, what is remembered of votes agrees with the votes cast, and   *)
(* every leader has a majority of some membership behind it.                 *)
THEOREM Inductive == Spec => []IInv(SUBSET Node, SUBSET Node)
<1> DEFINE I == IInv(SUBSET Node, SUBSET Node)
<1>1. Covers(SUBSET Node, SUBSET Node)
  <2>1. \A w \in Worlds : w.voters \in SUBSET Node
    BY RaftAssumption DEF World
  <2> QED
    BY <2>1 DEF Covers, Scope
<1>2. Init => I
  BY ZenonT(60), <1>1, Initially
<1>3. I /\ [Next]_vars => I'
  BY <1>1, NextStep
<1> HIDE DEF I
<1>4. Spec => []I
  BY <1>2, <1>3, PTL DEF Spec
<1> QED
  BY <1>4 DEF I

(* TypeOK, for every cluster and deployment: in particular no snapshot ever *)
(* covers an entry the state machine has not applied.                        *)
THEOREM TypeCorrect == Spec => []TypeOK
<1>1. IInv(SUBSET Node, SUBSET Node) => TypeOK
  BY Zenon DEF IInv, Types, TypeOK, ReplicaOf, LogOf, BaseOf, EntryOf, Replica, Log, Base, Entry
<1> QED
  BY <1>1, Inductive, PTL

(* VoteOnce, for every cluster and deployment, membership changes included: *)
(* handle_vote_request and campaign never give two votes in one term.        *)
THEOREM OneVotePerTerm == Spec => []VoteOnce
<1>1. IInv(SUBSET Node, SUBSET Node) => VoteOnce
  BY DEF IInv, Votes
<1> QED
  BY <1>1, Inductive, PTL

(* Two majorities of the whole cluster share a peer, and that peer voted    *)
(* once.                                                                     *)
LEMMA LeadersAgree ==
    ASSUME VoteOnce, LeadersElected({Node}), elected \subseteq Nat \X Node,
           NEW e \in elected, NEW f \in elected, e[1] = f[1]
    PROVE  e[2] = f[2]
<1> DEFINE S == VotersOf(e[1], e[2])
           T == VotersOf(f[1], f[2])
<1>1. S \subseteq Node /\ T \subseteq Node
  BY DEF VotersOf
<1>2. is_quorum(Node, Cardinality(S)) /\ is_quorum(Node, Cardinality(T))
  BY DEF LeadersElected
<1>3. IsFiniteSet(Node) /\ IsFiniteSet(S) /\ IsFiniteSet(T)
  BY ZenonT(60), <1>1, RaftAssumption, FS_Subset
<1>4. Cardinality(Node) \in Nat /\ Cardinality(S) \in Nat /\ Cardinality(T) \in Nat
  BY ZenonT(60), <1>3, FS_CardinalityType
<1>5. Cardinality(S) + Cardinality(T) > Cardinality(Node)
  <2>1. \A x, y, z \in Nat : x >= (z \div 2) + 1 /\ y >= (z \div 2) + 1 => x + y > z
    OBVIOUS
  <2>2. /\ Cardinality(S) >= (Cardinality(Node) \div 2) + 1
        /\ Cardinality(T) >= (Cardinality(Node) \div 2) + 1
    BY <1>2 DEF is_quorum, quorum
  <2> HIDE DEF S, T
  <2> QED
    BY ZenonT(60), <1>4, <2>1, <2>2
<1>6. S \cap T # {}
  <2> HIDE DEF S, T
  <2> QED
    BY ZenonT(60), <1>1, <1>3, <1>5, FS_MajoritiesIntersect
<1>7. PICK q \in Node : <<q, e[1], e[2]>> \in ballot /\ <<q, f[1], f[2]>> \in ballot
  BY <1>6 DEF VotersOf
<1> QED
  BY <1>7 DEF VoteOnce

(* Election Safety for every cluster of a fixed membership, of any size:    *)
(* no term ever has two leaders.  With membership changes it is not so: no   *)
(* code enforces the rule of core/mod.rs:615 that a leader first commits an  *)
(* entry of its own term.                                                    *)
THEOREM OneLeaderPerTerm ==
    ASSUME \A w \in Worlds : w.voters = Node /\ ~w.reconfigures
    PROVE  Spec => []ElectionSafety
<1> DEFINE I == IInv({{}}, {Node})
<1>1. Covers({{}}, {Node})
  BY DEF Covers, Scope
<1>2. Init => I
  BY ZenonT(60), <1>1, Initially
<1>3. I /\ [Next]_vars => I'
  BY ZenonT(60), <1>1, NextStep
<1>4. I => ElectionSafety
  BY LeadersAgree DEF IInv, Votes, Types, ElectionSafety
<1> HIDE DEF I
<1> QED
  BY <1>2, <1>3, <1>4, PTL DEF Spec

-----------------------------------------------------------------------------
(* What RaftLog_proofs argues with: the links of a log.                     *)

(* A link: an entry at its index, with the term of the one before it.       *)
Link(i, e, b) == [index |-> i, entry |-> e, before |-> b]

LinksOf(l) == {Link(i, entry(l, i), term_at(l, i - 1)) : i \in first_index(l) .. last_index(l)}

Carried(m) ==
    IF m.kind # "AppendEntries" THEN {}
    ELSE {Link(m.prev_log_index + k, m.entries[k],
               IF k = 1 THEN m.prev_log_term ELSE m.entries[k - 1].term) : k \in 1 .. Len(m.entries)}

(* The links of a log under the operations of the store.                    *)

(* What the log holds at an index of its own.                               *)
LEMMA EntryAt ==
    ASSUME NEW C, NEW M, NEW l \in LogOf(C, M), NEW i \in first_index(l) .. last_index(l)
    PROVE  /\ i \in Nat \ {0} /\ i - l.base.index \in 1 .. Len(l.ents) /\ i # l.base.index
           /\ entry(l, i) \in EntryOf(C) /\ entry(l, i) = l.ents[i - l.base.index]
           /\ term_at(l, i) = entry(l, i).term
<1>1. l.base.index \in Nat /\ Len(l.ents) \in Nat
  BY ZenonT(60), LogFields
<1>2. i \in Nat \ {0} /\ i - l.base.index \in 1 .. Len(l.ents) /\ i # l.base.index
  BY SMTT(60), <1>1 DEF first_index, last_index
<1>3. l.ents[i - l.base.index] \in EntryOf(C)
  BY ZenonT(60), <1>2, LogFields
<1> QED
  BY ZenonT(60), <1>2, <1>3 DEF entry, term_at

(* The term before an index of the log's own.                               *)
LEMMA TermBefore ==
    ASSUME NEW C, NEW M, NEW l \in LogOf(C, M), NEW i \in first_index(l) .. last_index(l)
    PROVE  \/ i = first_index(l) /\ i - 1 = l.base.index /\ term_at(l, i - 1) = term_at(l, l.base.index)
           \/ /\ i - 1 \in first_index(l) .. last_index(l)
              /\ term_at(l, i - 1) = entry(l, i - 1).term
<1>1. l.base.index \in Nat /\ Len(l.ents) \in Nat
  BY ZenonT(60), LogFields
<1>2. CASE i = first_index(l)
  BY SMTT(60), <1>1, <1>2 DEF first_index
<1>3. CASE i # first_index(l)
  <2>1. i - 1 \in first_index(l) .. last_index(l)
    BY SMTT(60), <1>1, <1>3 DEF first_index, last_index
  <2> QED
    BY ZenonT(60), <2>1, EntryAt
<1> QED
  BY ZenonT(60), <1>2, <1>3

(* A log that agrees with another wherever it reaches has no other links.   *)
LEMMA AgreeingLinks ==
    ASSUME NEW k, NEW l, NEW S,
           \A i \in first_index(k) .. last_index(k) :
               Link(i, entry(k, i), term_at(k, i - 1)) \in S
    PROVE  LinksOf(k) \subseteq S
BY ZenonT(60) DEF LinksOf

(* save_snapshot at an index of the log, with its term, leaves the log's    *)
(* end where it was and makes no link.                                       *)
LEMMA SnapshotLinks ==
    ASSUME NEW C, NEW M, NEW l \in LogOf(C, M), NEW b \in BaseOf(M), b.index # 0,
           b.index \in l.base.index .. last_index(l), b.term = term_at(l, b.index)
    PROVE  /\ LinksOf(save_snapshot(l, b)) \subseteq LinksOf(l)
           /\ last_index(save_snapshot(l, b)) = last_index(l)
<1> DEFINE k == save_snapshot(l, b)
           d == b.index - l.base.index
<1>1. /\ l.base.index \in Nat /\ Len(l.ents) \in Nat /\ b.index \in Nat /\ l.ents \in Seq(EntryOf(C))
      /\ d \in 0 .. Len(l.ents)
  BY ZenonT(60), SMTT(60), LogFields DEF last_index, BaseOf
<1>2. k.base = b /\ k.ents = SubSeq(l.ents, d + 1, Len(l.ents))
  BY Zenon DEF save_snapshot
<1>0. k \in LogOf(C, M)
  BY <1>1, SaveSnapshot
<1> HIDE DEF k, d
<1>3. /\ Len(k.ents) = Len(l.ents) - d
      /\ \A j \in 1 .. Len(k.ents) : k.ents[j] = l.ents[j + d]
  <2>1. \A i \in d + 1 .. Len(l.ents) : l.ents[i] \in EntryOf(C)
    BY SMTT(60), <1>1, LogFields
  <2>2. /\ Len(SubSeq(l.ents, d + 1, Len(l.ents))) = Len(l.ents) - d
        /\ \A j \in 1 .. Len(l.ents) - d :
              SubSeq(l.ents, d + 1, Len(l.ents))[j] = l.ents[j + d]
    BY SMTT(60), <1>1
  <2> QED
    BY Zenon, <1>2, <2>2
<1>4. last_index(k) = last_index(l)
  BY ZenonT(60), SMTT(60), <1>1, <1>2, <1>3 DEF last_index, d
<1>5. ASSUME NEW i \in first_index(k) .. last_index(k)
      PROVE  i \in first_index(l) .. last_index(l) /\ entry(k, i) = entry(l, i)
  <2>1. /\ i - b.index \in 1 .. Len(k.ents) /\ i \in first_index(l) .. last_index(l)
        /\ (i - b.index) + d = i - l.base.index
    <3>1. k.base.index = b.index /\ Len(k.ents) = Len(l.ents) - d
      BY Zenon, <1>2, <1>3
    <3>2. i \in b.index + 1 .. l.base.index + Len(l.ents)
      BY ZenonT(60), <1>4, <3>1 DEF first_index, last_index
    <3>3. \A a, c, n \in Nat : \A j \in c + 1 .. a + n :
              a <= c => /\ j - c \in 1 .. n - (c - a) /\ j \in a + 1 .. a + n
                        /\ (j - c) + (c - a) = j - a
      OBVIOUS
    <3>4. l.base.index <= b.index
      BY SMTT(60), <1>1 DEF d
    <3> QED
      BY ZenonT(60), <1>1, <3>1, <3>2, <3>3, <3>4 DEF first_index, last_index, d
  <2> QED
    BY Zenon, <1>2, <1>3, <2>1 DEF entry
<1>6. ASSUME NEW i \in first_index(k) .. last_index(k)
      PROVE  term_at(k, i - 1) = term_at(l, i - 1)
  <2>1. CASE i = first_index(k) /\ i - 1 = k.base.index
    BY ZenonT(60), <1>2, <2>1 DEF term_at
  <2>2. CASE i - 1 \in first_index(k) .. last_index(k) /\ term_at(k, i - 1) = entry(k, i - 1).term
    <3>1. i - 1 \in first_index(l) .. last_index(l) /\ entry(k, i - 1) = entry(l, i - 1)
      BY ZenonT(60), <1>5, <2>2
    <3>2. term_at(l, i - 1) = entry(l, i - 1).term
      BY ZenonT(60), <3>1, EntryAt
    <3> QED
      BY ZenonT(60), <2>2, <3>1, <3>2
  <2> QED
    BY SMTT(60), <1>0, <2>1, <2>2, TermBefore
<1>7. LinksOf(k) \subseteq LinksOf(l)
  BY ZenonT(60), <1>5, <1>6 DEF LinksOf
<1> QED
  BY ZenonT(60), <1>4, <1>7 DEF k

(* append of one entry makes one link, to the term the log ended in.        *)
LEMMA AppendLinks ==
    ASSUME NEW C, NEW M, NEW l \in LogOf(C, M), NEW e \in EntryOf(C)
    PROVE  /\ last_index(append(l, <<e>>)) = last_index(l) + 1
           /\ LinksOf(append(l, <<e>>)) \subseteq
                LinksOf(l) \cup {Link(last_index(l) + 1, e, term_at(l, last_index(l)))}
<1> DEFINE k == append(l, <<e>>)
<1>1. /\ l.base.index \in Nat /\ Len(l.ents) \in Nat /\ l.ents \in Seq(EntryOf(C))
  BY ZenonT(60), LogFields
<1>2. k.base = l.base /\ k.ents = Append(l.ents, e) /\ k \in LogOf(C, M)
  <2>1. <<e>> \in Seq(EntryOf(C))
    OBVIOUS
  <2>2. k.ents = l.ents \o <<e>>
    BY ZenonT(60) DEF append, LogOf
  <2>3. l.ents \o <<e>> = Append(l.ents, e)
    BY SMTT(60), <1>1
  <2> QED
    BY Zenon, <2>1, <2>2, <2>3, AppendLog
<1> HIDE DEF k
<1>3. /\ Len(k.ents) = Len(l.ents) + 1 /\ k.ents[Len(l.ents) + 1] = e
      /\ \A j \in 1 .. Len(l.ents) : k.ents[j] = l.ents[j]
  BY SMTT(60), <1>1, <1>2, AppendProperties
<1>4. last_index(k) = last_index(l) + 1 /\ first_index(k) = first_index(l)
  <2>1. k.base.index = l.base.index /\ Len(k.ents) = Len(l.ents) + 1
    BY ZenonT(60), <1>2, <1>3
  <2> QED
    BY SMTT(60), <1>1, <2>1 DEF last_index, first_index
<1>5. ASSUME NEW i \in first_index(l) .. last_index(l)
      PROVE  i \in first_index(k) .. last_index(k) /\ entry(k, i) = entry(l, i) /\ term_at(k, i) = term_at(l, i)
  <2>1. i - l.base.index \in 1 .. Len(l.ents) /\ i \in first_index(k) .. last_index(k)
    BY SMTT(60), <1>1, <1>4 DEF first_index, last_index
  <2>2. entry(k, i) = entry(l, i)
    BY ZenonT(60), <1>2, <1>3, <2>1 DEF entry
  <2> QED
    BY SMTT(60), <2>1, <2>2, <1>2, EntryAt
<1>6. term_at(k, l.base.index) = term_at(l, l.base.index)
  BY ZenonT(60), <1>2 DEF term_at
<1>7. ASSUME NEW i \in first_index(k) .. last_index(k)
      PROVE  term_at(k, i - 1) = term_at(l, i - 1)
  <2>1. i - 1 = l.base.index \/ i - 1 \in first_index(l) .. last_index(l)
    BY SMTT(60), <1>1, <1>4 DEF first_index, last_index
  <2> QED
    BY ZenonT(60), <1>5, <1>6, <2>1
<1>8. entry(k, last_index(l) + 1) = e
  <2>1. last_index(l) + 1 - l.base.index = Len(l.ents) + 1
    BY <1>1 DEF last_index
  <2>2. entry(k, last_index(l) + 1) = k.ents[last_index(l) + 1 - l.base.index]
    <3>1. k.base.index = l.base.index /\ l.base.index \in Nat /\ last_index(l) \in Nat
      BY ZenonT(60), <1>2, LogFields
    <3> QED
      BY SMTT(60), <3>1 DEF entry
  <2> QED
    BY ZenonT(60), <1>3, <2>1, <2>2
<1>9. ASSUME NEW i \in first_index(k) .. last_index(k)
      PROVE  Link(i, entry(k, i), term_at(k, i - 1)) \in
                LinksOf(l) \cup {Link(last_index(l) + 1, e, term_at(l, last_index(l)))}
  <2>0. last_index(l) \in Nat /\ first_index(l) \in Nat /\ last_index(l) + 1 - 1 = last_index(l)
    BY LogFields
  <2>1. CASE i = last_index(l) + 1
    BY SMTT(60), <1>7, <1>8, <2>0, <2>1
  <2>2. CASE i # last_index(l) + 1
    <3>1. i \in first_index(l) .. last_index(l)
      BY SMTT(60), <1>4, <2>0, <2>2
    <3>2. entry(k, i) = entry(l, i) /\ term_at(k, i - 1) = term_at(l, i - 1)
      BY ZenonT(60), <1>5, <1>7, <3>1
    <3> QED
      BY ZenonT(60), <3>1, <3>2 DEF LinksOf
  <2> QED
    BY ZenonT(60), <2>1, <2>2
<1> QED
  BY ZenonT(60), <1>4, <1>9, AgreeingLinks DEF k

(* entries, from an index after the base on, are entries of the log.        *)
LEMMA EntriesShape ==
    ASSUME NEW C, NEW M, NEW l \in LogOf(C, M), NEW i \in Nat, world \in World, first_index(l) <= i,
           NEW k \in 1 .. Len(entries(l, i)), NEW j \in Int, j = i + k - 1
    PROVE  j \in first_index(l) .. last_index(l) /\ entries(l, i)[k] = entry(l, j)
<1> DEFINE base == l.base.index
           n == Len(l.ents)
           from == i - base
           upto == IF n < from + world.max_append - 1 THEN n ELSE from + world.max_append - 1
<1>1. world.max_append \in Nat /\ base \in Nat /\ n \in Nat /\ l.ents \in Seq(EntryOf(C))
  BY ZenonT(60), LogFields DEF World
<1>2. base + 1 <= i
  BY ZenonT(60) DEF first_index
<1>3. entries(l, i) = SubSeq(l.ents, from, upto)
  BY ZenonT(60) DEF entries
<1>4. last_index(l) = base + n /\ first_index(l) = base + 1 /\ entry(l, j) = l.ents[j - base]
  BY ZenonT(60) DEF first_index, last_index, entry
<1> HIDE DEF base
<1>5. from \in Nat \ {0} /\ i = base + from
  BY SMTT(60), <1>1, <1>2
<1> HIDE DEF n, from
<1>6. upto \in Int /\ upto <= n
  BY SMTT(60), <1>1, <1>5
<1> HIDE DEF upto
<1>7. /\ Len(SubSeq(l.ents, from, upto)) = IF from <= upto THEN upto - from + 1 ELSE 0
      /\ \A x \in 1 .. upto - from + 1 : SubSeq(l.ents, from, upto)[x] = l.ents[from + x - 1]
  BY SMTT(60), <1>1, <1>5, <1>6 DEF n
<1>8. k \in 1 .. upto - from + 1
  BY SMTT(60), <1>3, <1>5, <1>6, <1>7
<1>9. from + k - 1 = j - base /\ j \in base + 1 .. base + n
  BY SMTT(60), <1>1, <1>5, <1>6, <1>8
<1> QED
  BY Zenon, <1>3, <1>4, <1>7, <1>8, <1>9

(* send_append carries links of the sender's log.                           *)
LEMMA SendLinks ==
    ASSUME NEW C, NEW M, NEW s, Sound(C, M, s), world \in World, NEW p, NEW q \in Node,
           NEW m \in SendAppend(p, s, q)
    PROVE  /\ Leads(m) /\ m.from = p /\ m.to = q /\ m.term = s.term
           /\ Carried(m) \subseteq LinksOf(s.log)
<1> DEFINE l == s.log
           i == s.next[q]
           am == [kind |-> "AppendEntries", from |-> p, to |-> q, term |-> s.term,
                  prev_log_index |-> i - 1, prev_log_term |-> term_at(l, i - 1),
                  entries |-> entries(l, i), leader_commit |-> s.commit]
           im == [kind |-> "InstallSnapshot", from |-> p, to |-> q, term |-> s.term,
                  snapshot |-> l.base]
<1>1. l \in LogOf(C, M) /\ i \in Nat /\ l.base.index \in Nat
  BY SMTT(60), Fields, LogFields DEF Sound
<1>2. CASE ~MustSnapshot(s, q)
  <2>1. m = am
    BY ZenonT(60), <1>2 DEF SendAppend
  <2>2. first_index(l) <= i
    BY SMTT(60), <1>1, <1>2 DEF MustSnapshot, first_index
  <2>3. /\ m.kind = "AppendEntries" /\ m.from = p /\ m.to = q /\ m.term = s.term
        /\ m.prev_log_index = i - 1 /\ m.prev_log_term = term_at(l, i - 1) /\ m.entries = entries(l, i)
    BY ZenonT(60), <2>1
  <2> HIDE DEF i, l
  <2>4. ASSUME NEW k \in 1 .. Len(m.entries), NEW j \in Int, j = m.prev_log_index + k
        PROVE  Link(j, m.entries[k],
                    IF k = 1 THEN m.prev_log_term ELSE m.entries[k - 1].term) \in LinksOf(l)
    <3>0. k \in 1 .. Len(entries(l, i)) /\ j = i + k - 1
      BY SMTT(60), <1>1, <2>3, <2>4
    <3>1. j \in first_index(l) .. last_index(l) /\ m.entries[k] = entry(l, j)
      BY SMTT(60), <1>1, <2>2, <2>3, <3>0, EntriesShape
    <3>2. (IF k = 1 THEN m.prev_log_term ELSE m.entries[k - 1].term) = term_at(l, j - 1)
      <4>1. CASE k = 1
        <5>1. j - 1 = i - 1
          BY SMTT(60), <1>1, <3>0, <4>1
        <5> QED
          BY ZenonT(60), <2>3, <4>1, <5>1
      <4>2. CASE k # 1
        <5> DEFINE x == k - 1
                   y == j - 1
        <5>1. x \in 1 .. Len(entries(l, i)) /\ y \in Int /\ y = i + x - 1
          BY SMTT(60), <1>1, <3>0, <4>2
        <5> HIDE DEF x, y
        <5>2. y \in first_index(l) .. last_index(l) /\ entries(l, i)[x] = entry(l, y)
          BY SMTT(60), <1>1, <2>2, <5>1, EntriesShape
        <5>3. term_at(l, y) = entry(l, y).term
          BY ZenonT(60), <1>1, <5>2, EntryAt
        <5> QED
          BY ZenonT(60), <2>3, <4>2, <5>2, <5>3 DEF x, y
      <4> QED
        BY ZenonT(60), <4>1, <4>2
    <3> QED
      BY ZenonT(60), <3>1, <3>2 DEF LinksOf
  <2>5. \A k \in 1 .. Len(m.entries) : m.prev_log_index + k \in Int
    BY SMTT(60), <1>1, <2>3
  <2>6. Carried(m) \subseteq LinksOf(l)
    BY ZenonT(60), <2>3, <2>4, <2>5 DEF Carried
  <2> QED
    BY ZenonT(60), <2>3, <2>6 DEF Leads, l
<1>3. CASE MustSnapshot(s, q)
  <2>1. m = im
    BY ZenonT(60), <1>3 DEF SendAppend
  <2> QED
    BY ZenonT(60), <2>1 DEF Leads, Carried
<1> QED
  BY ZenonT(60), <1>2, <1>3

(* r is l up to the entry k of es, and es from there on; the entry before   *)
(* it agrees with l.                                                         *)
Spliced(l, prev, es, r, k) ==
    /\ k \in 1 .. Len(es) /\ prev + k - 1 <= last_index(l)
    /\ k # 1 => term_at(l, prev + (k - 1)) = es[k - 1].term
    /\ \A i \in first_index(l) .. prev + k - 1 : entry(r, i) = entry(l, i)
    /\ \A i \in prev + k .. prev + Len(es) : entry(r, i) = es[i - prev]

(* merge_entries keeps the log up to the first entry it lacks.              *)
LEMMA MergeShape ==
    ASSUME NEW C, NEW M, NEW l \in LogOf(C, M), NEW es \in Seq(EntryOf(C)),
           NEW prev \in l.base.index .. last_index(l), Unmatched(l, prev, es) # {}
    PROVE  LET r == Merge(l, prev, es)
           IN  /\ r \in LogOf(C, M) /\ r.base = l.base /\ last_index(r) = prev + Len(es)
               /\ \E k : Spliced(l, prev, es, r, k)
<1> DEFINE new == Unmatched(l, prev, es)
           k == CHOOSE i \in new : \A j \in new : i <= j
           base == l.base.index
           top == prev + k
           n == top - 1 - base
           r == Merge(l, prev, es)
           a == SubSeq(l.ents, 1, n)
           c == SubSeq(es, k, Len(es))
<1>0. base \in Nat /\ last_index(l) \in Nat /\ Len(es) \in Nat /\ Len(l.ents) \in Nat
  BY SMTT(60), LogFields
<1>1. new \in SUBSET Nat /\ new \subseteq 1 .. Len(es)
  BY SMTT(60), <1>0 DEF Unmatched
<1>2. k \in new /\ \A j \in new : k <= j
  <2>1. \E i \in new : \A j \in new : i <= j
    BY ZenonT(60), <1>1, LeastExists
  <2> QED
    BY ZenonT(60), <2>1
<1>3. r = append(truncate_from(l, top), c)
  BY ZenonT(60) DEF Merge
<1>4. r \in LogOf(C, M) /\ r.base = l.base
  BY ZenonT(60), MergeLog
<1> HIDE DEF k
<1>5. k \in 1 .. Len(es)
  BY ZenonT(60), <1>1, <1>2
<1>6. k # 1 => Held(l, prev + (k - 1)) /\ term_at(l, prev + (k - 1)) = es[k - 1].term
  <2>1. k # 1 => k - 1 \in 1 .. Len(es) /\ k - 1 \notin new
    BY SMTT(60), <1>0, <1>2, <1>5
  <2> QED
    BY ZenonT(60), <2>1 DEF Unmatched
<1> HIDE DEF new
<1>7. top - 1 <= last_index(l) /\ top \in Nat /\ prev \in Nat
  <2>1. CASE k = 1
    BY SMTT(60), <1>0, <2>1
  <2>2. CASE k # 1
    BY SMTT(60), <1>0, <1>5, <1>6, <2>2 DEF Held
  <2> QED
    BY ZenonT(60), <2>1, <2>2
<1>8. base + 1 <= top
  BY SMTT(60), <1>0, <1>5
<1> HIDE DEF top
<1>9. n \in 0 .. Len(l.ents) /\ top - 1 = base + n
  BY SMTT(60), <1>0, <1>7, <1>8 DEF last_index
<1>10. r.ents = a \o c
  <2>1. \A x : [l EXCEPT !.ents = x].ents = x
    BY ZenonT(60) DEF LogOf
  <2>2. truncate_from(l, top) = [l EXCEPT !.ents = a]
    BY ZenonT(60) DEF truncate_from
  <2>3. truncate_from(l, top) \in LogOf(C, M)
    BY ZenonT(60), <1>7, TruncateLog
  <2>4. \A t \in LogOf(C, M) : append(t, c).ents = t.ents \o c
    BY Zenon DEF append, LogOf
  <2> HIDE DEF a, c, r
  <2> QED
    BY Zenon, <1>3, <2>1, <2>2, <2>3, <2>4
<1>11. a \in Seq(EntryOf(C)) /\ Len(a) = n /\ \A j \in 1 .. n : a[j] = l.ents[j]
  <2> HIDE DEF n
  <2>1. l.ents \in Seq(EntryOf(C))
    BY ZenonT(60), LogFields
  <2> QED
    BY <1>0, <1>9, <2>1
<1> HIDE DEF r, n, a
<1>12. /\ c \in Seq(EntryOf(C)) /\ Len(c) = Len(es) - k + 1
       /\ \A j \in 1 .. Len(es) - k + 1 : c[j] = es[j + k - 1]
  BY SMTT(60), <1>0, <1>5
<1> HIDE DEF c
<1>13. /\ Len(r.ents) = n + (Len(es) - k + 1)
       /\ \A j \in 1 .. n : r.ents[j] = l.ents[j]
       /\ \A j \in n + 1 .. n + (Len(es) - k + 1) : r.ents[j] = c[j - n]
  <2>1. /\ Len(a \o c) = Len(a) + Len(c)
        /\ \A j \in 1 .. Len(a) : (a \o c)[j] = a[j]
        /\ \A j \in Len(a) + 1 .. Len(a) + Len(c) : (a \o c)[j] = c[j - Len(a)]
    <3>1. a \in Seq(EntryOf(C)) /\ c \in Seq(EntryOf(C))
      BY ZenonT(60), <1>11, <1>12
    <3> QED
      BY ONLY <3>1, ConcatProperties
  <2>2. r.ents = a \o c /\ Len(a) = n /\ Len(c) = Len(es) - k + 1 /\ \A j \in 1 .. n : a[j] = l.ents[j]
    BY ZenonT(60), <1>10, <1>11, <1>12
  <2> QED
    BY ONLY ZenonT(60), <2>1, <2>2
<1>14. r.base.index = base /\ first_index(l) = base + 1 /\ top = prev + k
  BY ZenonT(60), <1>4 DEF first_index, top
<1>15. last_index(r) = prev + Len(es)
  <2>1. last_index(r) = base + (n + (Len(es) - k + 1))
    BY ZenonT(60), <1>13, <1>14 DEF last_index
  <2> HIDE DEF base
  <2> QED
    BY ZenonT(60), SMTT(60), <1>0, <1>5, <1>7, <1>9, <1>14, <2>1
<1> HIDE DEF base
<1>16. ASSUME NEW i \in first_index(l) .. prev + k - 1
       PROVE  entry(r, i) = entry(l, i)
  <2>1. i - base \in 1 .. n
    BY SMTT(60), <1>0, <1>5, <1>7, <1>9, <1>14
  <2>2. entry(r, i) = r.ents[i - base] /\ entry(l, i) = l.ents[i - base]
    BY ZenonT(60), <1>14 DEF entry, base
  <2> QED
    BY ZenonT(60), <1>13, <2>1, <2>2
<1>17. ASSUME NEW i \in prev + k .. prev + Len(es)
       PROVE  entry(r, i) = es[i - prev]
  <2>1. i \in Int /\ i >= top /\ i <= prev + Len(es)
    BY SMTT(60), <1>0, <1>5, <1>7, <1>14
  <2>2. i - base \in n + 1 .. n + (Len(es) - k + 1)
    BY SMTT(60), <1>0, <1>5, <1>7, <1>9, <1>14, <2>1
  <2>3. (i - base) - n \in 1 .. Len(es) - k + 1 /\ (i - base) - n + k - 1 = i - prev
    BY SMTT(60), <1>0, <1>5, <1>7, <1>9, <1>14, <2>1
  <2>4. entry(r, i) = r.ents[i - base]
    BY ZenonT(60), <1>14 DEF entry
  <2>5. c[(i - base) - n] = es[i - prev]
    BY ZenonT(60), <1>12, <2>3
  <2> QED
    BY ZenonT(60), <1>13, <2>2, <2>4, <2>5
<1>18. prev + k - 1 <= last_index(l)
  BY SMTT(60), <1>0, <1>5, <1>7 DEF top
<1>19. Spliced(l, prev, es, r, k)
  BY ZenonT(60), <1>5, <1>6, <1>16, <1>17, <1>18 DEF Spliced
<1> QED
  BY ZenonT(60), <1>4, <1>15, <1>19 DEF r

(* merge_entries makes no link but those that came.                         *)
LEMMA MergeLinks ==
    ASSUME NEW C, NEW M, NEW l \in LogOf(C, M), NEW m, m.kind = "AppendEntries",
           m.entries \in Seq(EntryOf(C)), PrevAgrees(l, m)
    PROVE  LinksOf(Merge(l, m.prev_log_index, m.entries)) \subseteq LinksOf(l) \cup Carried(m)
<1> DEFINE prev == m.prev_log_index
           es == m.entries
           r == Merge(l, prev, es)
           base == l.base.index
<1>0. base \in Nat /\ last_index(l) \in Nat /\ Len(es) \in Nat
  BY SMTT(60), LogFields
<1>1. prev \in base .. last_index(l) /\ term_at(l, prev) = m.prev_log_term
  BY ZenonT(60) DEF PrevAgrees
<1>2. CASE Unmatched(l, prev, es) = {}
  BY ZenonT(60), <1>2 DEF Merge
<1>3. CASE Unmatched(l, prev, es) # {}
  <2>0. es \in Seq(EntryOf(C)) /\ r = Merge(l, prev, es)
    BY ZenonT(60)
  <2> HIDE DEF prev, es, r, base
  <2>1. r \in LogOf(C, M) /\ r.base = l.base /\ last_index(r) = prev + Len(es)
    BY ZenonT(60), <1>1, <1>3, <2>0, MergeShape DEF base
  <2>2. PICK k : Spliced(l, prev, es, r, k)
    BY ZenonT(60), <1>1, <1>3, <2>0, MergeShape DEF base
  <2>8. /\ k \in 1 .. Len(es) /\ prev + k - 1 <= last_index(l)
        /\ k # 1 => term_at(l, prev + (k - 1)) = es[k - 1].term
        /\ \A i \in first_index(l) .. prev + k - 1 : entry(r, i) = entry(l, i)
        /\ \A i \in prev + k .. prev + Len(es) : entry(r, i) = es[i - prev]
    BY ZenonT(60), <2>2 DEF Spliced
  <2>9. k \in Int /\ 1 <= k /\ k <= Len(es) /\ prev \in Int /\ base <= prev
    BY SMTT(60), <1>0, <1>1, <2>8
  <2>3. first_index(r) = base + 1 /\ first_index(l) = base + 1
    BY ZenonT(60), <2>1 DEF first_index, base
  <2>4. \A x \in 1 .. Len(es) :
            Link(prev + x, es[x], IF x = 1 THEN m.prev_log_term ELSE es[x - 1].term) \in Carried(m)
    BY ZenonT(60) DEF Carried, prev, es
  <2>5. r.base.index = base /\ r.base.term = l.base.term
    BY ZenonT(60), <2>1 DEF base
  <2>6. ASSUME NEW i \in base .. prev + k - 1
        PROVE  term_at(r, i) = term_at(l, i)
    <3>1. CASE i = base
      BY ZenonT(60), <2>5, <3>1 DEF term_at, base
    <3>2. CASE i # base
      <4>1. /\ i \in first_index(l) .. last_index(l) /\ i \in first_index(r) .. last_index(r)
            /\ i \in first_index(l) .. prev + k - 1
        BY SMTT(60), <1>0, <1>1, <2>1, <2>8, <2>3, <3>2
      <4>2. entry(r, i) = entry(l, i)
        BY ZenonT(60), <2>8, <4>1
      <4>3. term_at(r, i) = entry(r, i).term /\ term_at(l, i) = entry(l, i).term
        BY SMTT(60), <2>1, <4>1, EntryAt
      <4> QED
        BY ZenonT(60), <4>2, <4>3
    <3> QED
      BY ZenonT(60), <3>1, <3>2
  <2>7. ASSUME NEW i \in first_index(r) .. last_index(r)
        PROVE  Link(i, entry(r, i), term_at(r, i - 1)) \in LinksOf(l) \cup Carried(m)
    <3> DEFINE x == i - prev
               y == i - 1
    <3>0. i \in Int /\ prev \in Int /\ k \in Int /\ i >= base + 1 /\ i <= prev + Len(es) /\ x \in Int /\ y \in Int
      BY SMTT(60), <1>0, <2>1, <2>3, <2>9
    <3>1. CASE i < prev + k
      <4>1. i \in first_index(l) .. last_index(l) /\ y \in base .. prev + k - 1 /\ i \in first_index(l) .. prev + k - 1
        BY SMTT(60), <1>0, <1>1, <2>8, <2>3, <3>0, <3>1
      <4>2. entry(r, i) = entry(l, i)
        BY ZenonT(60), <2>8, <4>1
      <4>3. term_at(r, y) = term_at(l, y)
        BY ZenonT(60), <2>6, <4>1
      <4> QED
        BY ZenonT(60), <4>1, <4>2, <4>3 DEF LinksOf
    <3>2. CASE i >= prev + k
      <4>1. i \in prev + k .. prev + Len(es) /\ x \in 1 .. Len(es) /\ i = prev + x /\ x >= k
        BY SMTT(60), <1>0, <2>9, <3>0, <3>2
      <4>2. entry(r, i) = es[x]
        BY ZenonT(60), <2>8, <4>1
      <4>3. term_at(r, y) = IF x = 1 THEN m.prev_log_term ELSE es[x - 1].term
        <5>1. CASE x = 1
          <6>1. y = prev /\ prev \in base .. prev + k - 1
            BY SMTT(60), <1>0, <2>9, <3>0, <4>1, <5>1
          <6> QED
            BY ZenonT(60), <1>1, <2>6, <5>1, <6>1
        <5>2. CASE x # 1 /\ x = k
          <6>1. y = prev + (k - 1) /\ y \in base .. prev + k - 1
            BY SMTT(60), <1>0, <2>9, <3>0, <4>1, <5>2
          <6> QED
            BY ZenonT(60), <2>8, <2>6, <5>2, <6>1
        <5>3. CASE x # 1 /\ x # k
          <6>1. /\ y \in first_index(r) .. last_index(r) /\ y \in prev + k .. prev + Len(es)
                /\ y - prev = x - 1
            BY SMTT(60), <1>0, <2>9, <2>1, <2>3, <3>0, <4>1, <5>3
          <6>2. term_at(r, y) = entry(r, y).term
            BY ZenonT(60), <2>1, <6>1, EntryAt
          <6>3. entry(r, y) = es[y - prev]
            BY ZenonT(60), <2>8, <6>1
          <6> QED
            BY ZenonT(60), <5>3, <6>1, <6>2, <6>3
        <5> QED
          BY ZenonT(60), <5>1, <5>2, <5>3
      <4> QED
        BY ZenonT(60), <2>4, <4>1, <4>2, <4>3
    <3> QED
      BY SMTT(60), <1>0, <3>0, <3>1, <3>2
  <2> QED
    BY ZenonT(60), <2>7, AgreeingLinks DEF r, prev, es
<1> QED
  BY ZenonT(60), <1>2, <1>3

-----------------------------------------------------------------------------
(* Membership::from_entries under the operations of the store.              *)

(* It reads the last configuration, if there is one.                        *)
LEMMA FromEntries ==
    ASSUME NEW C, NEW M, NEW l \in LogOf(C, M), NEW n \in 1 .. Len(l.ents), l.ents[n].config # {},
           \A j \in 1 .. Len(l.ents) : l.ents[j].config # {} => j <= n
    PROVE  from_entries(l) = l.ents[n].config
<1> DEFINE config == {i \in 1 .. Len(l.ents) : l.ents[i].config # {}}
           last == CHOOSE i \in config : \A j \in config : j <= i
<1>1. Len(l.ents) \in Nat /\ n \in config /\ config # {}
  BY ZenonT(60), LogFields
<1>2. last \in config /\ \A j \in config : j <= last
  BY ZenonT(60), <1>1, LastConfig
<1>3. from_entries(l) = l.ents[last].config
  BY ZenonT(60), <1>1 DEF from_entries
<1> HIDE DEF last
<1>4. last \in 1 .. Len(l.ents) /\ last <= n /\ n <= last
  BY ZenonT(60), <1>1, <1>2
<1>5. last = n
  BY SMTT(60), <1>1, <1>4
<1> QED
  BY ZenonT(60), <1>3, <1>5

(* Entries that are no configurations change nothing.                       *)
LEMMA LongerMembers ==
    ASSUME NEW C, NEW M, NEW k \in LogOf(C, M), NEW l \in LogOf(C, M), k.base = l.base,
           Len(l.ents) <= Len(k.ents), \A i \in 1 .. Len(l.ents) : k.ents[i] = l.ents[i],
           \A i \in Len(l.ents) + 1 .. Len(k.ents) : k.ents[i].config = {}
    PROVE  from_entries(k) = from_entries(l)
<1> DEFINE config == {i \in 1 .. Len(l.ents) : l.ents[i].config # {}}
<1>0. Len(l.ents) \in Nat /\ Len(k.ents) \in Nat
  BY ZenonT(60), LogFields
<1>1. \A i \in 1 .. Len(k.ents) : k.ents[i].config # {} => i \in config
  <2> SUFFICES ASSUME NEW i \in 1 .. Len(k.ents), k.ents[i].config # {}
               PROVE  i \in config
    BY ZenonT(60)
  <2>1. i \in 1 .. Len(l.ents) \/ i \in Len(l.ents) + 1 .. Len(k.ents)
    BY SMTT(60), <1>0
  <2> QED
    BY ZenonT(60), <2>1
<1>2. CASE config = {}
  <2>1. {i \in 1 .. Len(k.ents) : k.ents[i].config # {}} = {}
    BY ZenonT(60), <1>1, <1>2
  <2> QED
    BY ZenonT(60), <1>2, <2>1 DEF from_entries
<1>3. CASE config # {}
  <2>1. PICK n \in config : \A j \in config : j <= n
    <3>1. config \subseteq 1 .. Len(l.ents)
      BY ZenonT(60)
    <3> QED
      BY ZenonT(60), <1>0, <1>3, <3>1, GreatestExists
  <2>2. n \in 1 .. Len(k.ents) /\ n \in 1 .. Len(l.ents) /\ k.ents[n] = l.ents[n] /\ l.ents[n].config # {}
    BY SMTT(60), <1>0, <2>1
  <2>3. from_entries(l) = l.ents[n].config
    BY SMTT(60), <2>1, <2>2, FromEntries
  <2>4. from_entries(k) = k.ents[n].config
    <3>1. \A j \in 1 .. Len(k.ents) : k.ents[j].config # {} => j <= n
      BY ZenonT(60), <1>1, <2>1
    <3>2. n \in 1 .. Len(k.ents) /\ k.ents[n].config # {}
      BY ZenonT(60), <2>2
    <3> QED
      BY ONLY SMTT(30), <3>1, <3>2, k \in LogOf(C, M), FromEntries
  <2> QED
    BY ZenonT(60), <2>2, <2>3, <2>4
<1> QED
  BY ZenonT(60), <1>2, <1>3

(* A snapshot that is stamped with the membership in force keeps it.        *)
LEMMA SnapshotMembers ==
    ASSUME NEW C, NEW M, NEW l \in LogOf(C, M), NEW b \in BaseOf(M),
           b.index \in l.base.index .. last_index(l), b.members = from_entries(l)
    PROVE  from_entries(save_snapshot(l, b)) = from_entries(l)
<1> DEFINE k == save_snapshot(l, b)
           d == b.index - l.base.index
           config == {i \in 1 .. Len(k.ents) : k.ents[i].config # {}}
<1>1. l.base.index \in Nat /\ Len(l.ents) \in Nat /\ b.index \in Nat /\ d \in 0 .. Len(l.ents)
  BY SMTT(60), LogFields DEF last_index, BaseOf
<1>2. k.base = b /\ k.ents = SubSeq(l.ents, d + 1, Len(l.ents))
  BY Zenon DEF save_snapshot
<1>3. k \in LogOf(C, M)
  BY <1>1, SaveSnapshot
<1> HIDE DEF d
<1>4. /\ Len(SubSeq(l.ents, d + 1, Len(l.ents))) = Len(l.ents) - d
      /\ \A j \in 1 .. Len(l.ents) - d : SubSeq(l.ents, d + 1, Len(l.ents))[j] = l.ents[j + d]
  <2>1. l.ents \in Seq(EntryOf(C))
    BY ZenonT(60), LogFields
  <2> QED
    BY SMTT(60), <1>1, <2>1
<1> HIDE DEF k
<1>5. /\ Len(k.ents) = Len(l.ents) - d
      /\ \A j \in 1 .. Len(l.ents) - d : k.ents[j] = l.ents[j + d]
  BY ZenonT(60), <1>2, <1>4
<1>6. CASE config = {}
  BY ZenonT(60), <1>2, <1>6 DEF from_entries, k
<1>7. CASE config # {}
  <2>1. PICK n \in config : \A j \in config : j <= n
    BY ZenonT(60), <1>3, <1>7, LastConfig
  <2>2. n \in 1 .. Len(k.ents) /\ k.ents[n].config # {} /\ n \in 1 .. Len(l.ents) - d
    BY ZenonT(60), <1>5, <2>1
  <2> DEFINE x == n + d
  <2>3. x \in 1 .. Len(l.ents) /\ k.ents[n] = l.ents[x]
    BY SMTT(60), <1>1, <1>5, <2>2
  <2>4. ASSUME NEW j \in 1 .. Len(l.ents), l.ents[j].config # {}
        PROVE  j <= x
    <3>1. CASE j <= d
      BY SMTT(60), <1>1, <2>2, <3>1
    <3>2. CASE j > d
      <4> DEFINE y == j - d
      <4>1. y \in 1 .. Len(l.ents) - d /\ y + d = j
        BY SMTT(60), <1>1, <3>2
      <4>2. k.ents[y] = l.ents[j]
        BY ZenonT(60), <1>5, <4>1
      <4>3. y \in config
        BY ZenonT(60), <1>5, <2>4, <4>1, <4>2
      <4>4. y <= n
        BY ZenonT(60), <2>1, <4>3
      <4> QED
        BY SMTT(60), <1>1, <2>2, <4>1, <4>4
    <3> QED
      BY SMTT(60), <1>1, <3>1, <3>2
  <2> HIDE DEF x
  <2>5. from_entries(l) = l.ents[x].config
    BY SMTT(60), <2>2, <2>3, <2>4, FromEntries
  <2>6. from_entries(k) = k.ents[n].config
    BY SMTT(60), <1>3, <2>1, <2>2, FromEntries
  <2> QED
    BY ZenonT(60), <2>3, <2>5, <2>6 DEF k
<1> QED
  BY ZenonT(60), <1>6, <1>7

(* append_local's entry is the last word, if it is a configuration.         *)
LEMMA AppendMembers ==
    ASSUME NEW C, NEW M, NEW l \in LogOf(C, M), NEW e \in EntryOf(C)
    PROVE  from_entries(append(l, <<e>>)) = IF e.config = {} THEN from_entries(l) ELSE e.config
<1> DEFINE k == append(l, <<e>>)
<1>1. Len(l.ents) \in Nat /\ l.ents \in Seq(EntryOf(C))
  BY ZenonT(60), LogFields
<1>2. k.base = l.base /\ k \in LogOf(C, M)
  <2>1. <<e>> \in Seq(EntryOf(C))
    OBVIOUS
  <2> QED
    BY ZenonT(60), <2>1, AppendLog
<1>3. k.ents = Append(l.ents, e)
  <2>1. k.ents = l.ents \o <<e>>
    BY ZenonT(60) DEF append, LogOf
  <2>2. l.ents \o <<e>> = Append(l.ents, e)
    BY SMTT(60), <1>1
  <2> QED
    BY ZenonT(60), <2>1, <2>2
<1> HIDE DEF k
<1>4. /\ Len(k.ents) = Len(l.ents) + 1 /\ k.ents[Len(l.ents) + 1] = e
      /\ \A j \in 1 .. Len(l.ents) : k.ents[j] = l.ents[j]
  BY SMTT(60), <1>1, <1>3, AppendProperties
<1>5. CASE e.config = {}
  <2>1. \A i \in Len(l.ents) + 1 .. Len(k.ents) : k.ents[i].config = {}
    BY SMTT(60), <1>1, <1>4, <1>5
  <2>2. Len(l.ents) <= Len(k.ents)
    BY SMTT(60), <1>1, <1>4
  <2>3. from_entries(k) = from_entries(l)
    BY ZenonT(60), <1>2, <1>4, <2>1, <2>2, LongerMembers
  <2> QED
    BY ZenonT(60), <1>5, <2>3 DEF k
<1>6. CASE e.config # {}
  <2> DEFINE n == Len(l.ents) + 1
  <2>1. n \in 1 .. Len(k.ents) /\ k.ents[n] = e /\ \A j \in 1 .. Len(k.ents) : j <= n
    BY SMTT(60), <1>1, <1>4
  <2> HIDE DEF n
  <2>2. from_entries(k) = k.ents[n].config
    BY ZenonT(60), <1>2, <1>6, <2>1, FromEntries
  <2> QED
    BY ZenonT(60), <1>6, <2>1, <2>2 DEF k
<1> QED
  BY ZenonT(60), <1>5, <1>6

-----------------------------------------------------------------------------
(* One replica.                                                             *)

(* The membership in force is the log's.                                    *)
Coherent(s) == s.members = from_entries(s.log)

(* The log may have lost a prefix to a snapshot, and nothing else.          *)
Trims(s, t) ==
    /\ LinksOf(t.log) \subseteq LinksOf(s.log) /\ last_index(t.log) = last_index(s.log)
    /\ Coherent(s) => Coherent(t)

(* A call that leaves the log and the membership alone is such a step.      *)
LEMMA SameTrims ==
    ASSUME NEW s, NEW t, t.log = s.log, t.members = s.members
    PROVE  Trims(s, t)
BY ZenonT(60) DEF Trims, Coherent

(* Such steps compose.                                                      *)
LEMMA TrimsAgain ==
    ASSUME NEW s, NEW r, NEW t, Trims(s, r), Trims(r, t)
    PROVE  Trims(s, t)
BY ZenonT(60) DEF Trims

(* take_snapshot only trims the log.                                        *)
LEMMA TakeSnapshotTrims ==
    ASSUME NEW C, NEW M, NEW s, Sound(C, M, s)
    PROVE  Trims(s, take_snapshot(s))
<1>1. CASE s.applied = 0 \/ ~Held(s.log, s.applied)
  <2>1. take_snapshot(s) = s
    BY ZenonT(60), <1>1 DEF take_snapshot
  <2> QED
    BY ZenonT(60), <2>1, SameTrims
<1>2. CASE s.applied # 0 /\ Held(s.log, s.applied)
  <2> DEFINE b == [index |-> s.applied, term |-> term_at(s.log, s.applied), members |-> s.members]
             l == save_snapshot(s.log, b)
             t == take_snapshot(s)
  <2>1. s \in ReplicaOf(C, M) /\ s.log \in LogOf(C, M) /\ s.applied \in Nat /\ s.members \in M
    BY ZenonT(60), Fields DEF Sound
  <2>2. term_at(s.log, s.applied) \in Nat
    BY ZenonT(60), <1>2, <2>1, TermAt
  <2>3. /\ b \in BaseOf(M) /\ b.index = s.applied /\ b.term = term_at(s.log, b.index)
        /\ b.members = s.members /\ b.index # 0
    BY ZenonT(60), <1>2, <2>1, <2>2 DEF BaseOf
  <2>4. t = [s EXCEPT !.log = l]
    BY ZenonT(60), <1>2, <2>1 DEF take_snapshot, ReplicaOf
  <2> HIDE DEF b
  <2>5. b.index \in s.log.base.index .. last_index(s.log)
    BY ZenonT(60), <1>2, <2>3 DEF Held
  <2>6. LinksOf(l) \subseteq LinksOf(s.log) /\ last_index(l) = last_index(s.log)
    BY SMTT(60), <2>1, <2>3, <2>5, SnapshotLinks
  <2>7. Coherent(s) => from_entries(l) = from_entries(s.log)
    BY SMTT(60), <2>1, <2>3, <2>5, SnapshotMembers DEF Coherent
  <2> HIDE DEF l
  <2>8. t.log = l /\ t.members = s.members
    BY ZenonT(60), <2>1, <2>4 DEF ReplicaOf
  <2> QED
    BY ZenonT(60), <2>6, <2>7, <2>8 DEF Trims, Coherent
<1> QED
  BY ZenonT(60), <1>1, <1>2

(* So does apply_committed.                                                 *)
LEMMA ApplyCommittedTrims ==
    ASSUME NEW C, NEW M, NEW s, Sound(C, M, s)
    PROVE  Trims(s, apply_committed(s))
<1> DEFINE a == IF s.commit > s.applied THEN s.commit ELSE s.applied
           r == [s EXCEPT !.applied = a]
<1>1. /\ s \in ReplicaOf(C, M) /\ s.commit \in Nat /\ s.applied \in Nat
      /\ s.log.base.index <= s.applied /\ s.log.base.index \in Nat
  BY SMTT(60), Fields, LogFields DEF Sound
<1>2. a \in Nat /\ s.log.base.index <= a
  BY SMTT(60), <1>1
<1>3. apply_committed(s) = maybe_compact(r)
  BY ZenonT(60), <1>1 DEF apply_committed, ReplicaOf
<1> HIDE DEF a
<1>4. r \in ReplicaOf(C, M) /\ r.applied = a /\ r.log = s.log /\ r.members = s.members
  BY ZenonT(60), <1>1, <1>2 DEF ReplicaOf
<1> HIDE DEF r
<1>5. Sound(C, M, r)
  BY ZenonT(60), <1>2, <1>4 DEF Sound
<1>6. maybe_compact(r) \in {r, take_snapshot(r)}
  BY ZenonT(60) DEF maybe_compact
<1>7. Trims(s, r) /\ Trims(r, take_snapshot(r))
  BY ZenonT(60), <1>4, <1>5, SameTrims, TakeSnapshotTrims
<1> QED
  BY SMTT(60), <1>3, <1>6, <1>7, TrimsAgain

(* So does a leader's commitment.                                           *)
LEMMA CommitTrims ==
    ASSUME NEW C, NEW M, NEW s, Sound(C, M, s), NEW p
    PROVE  Trims(s, Commit(p, s))
<1> DEFINE r == maybe_advance_commit(p, s)
<1>1. Sound(C, M, r) /\ r.members = s.members /\ r.log = s.log
  BY ZenonT(60), AdvanceSound
<1>2. Commit(p, s) = apply_committed(r)
  BY ZenonT(60) DEF Commit
<1> HIDE DEF r
<1>3. Trims(s, r) /\ Trims(r, apply_committed(r))
  BY ZenonT(60), <1>1, SameTrims, ApplyCommittedTrims
<1> QED
  BY ZenonT(60), <1>2, <1>3, TrimsAgain

(* The link a leader makes when it appends an entry of its own.             *)
NewLink(s, config) ==
    Link(last_index(s.log) + 1, [term |-> s.term, config |-> config],
         term_at(s.log, last_index(s.log)))

(* append_local makes that link and no other.                               *)
LEMMA AppendedLinks ==
    ASSUME NEW C, NEW M, Scope(C, M), NEW s, Sound(C, M, s), NEW p, NEW config \in C
    PROVE  LET r == Appended(p, s, config)
           IN  /\ LinksOf(r.log) \subseteq LinksOf(s.log) \cup {NewLink(s, config)}
               /\ last_index(r.log) = last_index(s.log) + 1
               /\ Coherent(s) => Coherent(r)
<1> DEFINE fresh == [q \in Node |-> IF q \in s.members THEN s.next[q] ELSE last_index(s.log) + 1]
           n == [q \in Node |-> IF q \in config \ {p} THEN fresh[q] ELSE 0]
           m == [q \in Node |-> IF q \in config \ {p} THEN s.match[q] ELSE 0]
           r == IF config = {} THEN s
                ELSE [s EXCEPT !.members = config, !.next = n, !.match = m]
           e == [term |-> s.term, config |-> config]
           l == append(s.log, <<e>>)
           t == Appended(p, s, config)
<1>1. s \in ReplicaOf(C, M) /\ s.term \in Nat /\ s.log \in LogOf(C, M)
  BY ZenonT(60), Fields DEF Sound
<1>2. e \in EntryOf(C) /\ e.config = config
  BY ZenonT(60), <1>1 DEF EntryOf
<1>3. t = [r EXCEPT !.log = l]
  <2>1. CASE config = {}
    BY ZenonT(60), <1>1, <2>1 DEF Appended, ReplicaOf
  <2>2. CASE config # {}
    BY ZenonT(60), <1>1, <2>2 DEF Appended, ReplicaOf
  <2> QED
    BY ZenonT(60), <2>1, <2>2
<1> HIDE DEF fresh, n, m
<1>4. t.log = l /\ t.members = IF config = {} THEN s.members ELSE config
  <2> HIDE DEF l, t
  <2>1. CASE config = {}
    BY ZenonT(60), <1>1, <1>3, <2>1 DEF ReplicaOf
  <2>2. CASE config # {}
    BY ZenonT(60), <1>1, <1>3, <2>2 DEF ReplicaOf
  <2> QED
    BY ZenonT(60), <2>1, <2>2
<1>5. NewLink(s, config) = Link(last_index(s.log) + 1, e, term_at(s.log, last_index(s.log)))
  BY ZenonT(60) DEF NewLink
<1> HIDE DEF r, t, e
<1>6. /\ last_index(l) = last_index(s.log) + 1
      /\ LinksOf(l) \subseteq LinksOf(s.log) \cup {NewLink(s, config)}
  BY ZenonT(60), <1>1, <1>2, <1>5, AppendLinks
<1>7. from_entries(l) = IF config = {} THEN from_entries(s.log) ELSE config
  BY ZenonT(60), <1>1, <1>2, AppendMembers
<1> HIDE DEF l
<1>8. Coherent(s) => Coherent(t)
  BY ZenonT(60), <1>4, <1>7 DEF Coherent
<1> QED
  BY ZenonT(60), <1>4, <1>6, <1>8 DEF t

(* Accepting an append makes no link but those it carries.                  *)
LEMMA AcceptLinks ==
    ASSUME NEW C, NEW M, Scope(C, M), NEW s, Sound(C, M, s), NEW m, m.kind = "AppendEntries",
           m.entries \in Seq(EntryOf(C)), m.leader_commit \in Nat, m.prev_log_index \in Nat,
           PrevAgrees(s.log, m)
    PROVE  /\ LinksOf(Accept(s, m).log) \subseteq LinksOf(s.log) \cup Carried(m)
           /\ Coherent(s) => Coherent(Accept(s, m))
<1> DEFINE l == Merge(s.log, m.prev_log_index, m.entries)
           a == MembersAfter(s, l)
           r == [a EXCEPT !.log = l]
           c == CommitTo(m.leader_commit, m.prev_log_index + Len(m.entries))
           w == [r EXCEPT !.commit = c]
<1>1. s \in ReplicaOf(C, M) /\ s.log \in LogOf(C, M) /\ s.commit \in Nat
  BY ZenonT(60), Fields DEF Sound
<1>2. m.prev_log_index \in s.log.base.index .. last_index(s.log)
  BY ZenonT(60) DEF PrevAgrees
<1>3. l \in LogOf(C, M) /\ l.base = s.log.base
  BY SMTT(60), <1>1, <1>2, MergeLog
<1>4. LinksOf(l) \subseteq LinksOf(s.log) \cup Carried(m)
  BY ZenonT(60), <1>1, MergeLinks
<1>5. c \in Nat
  BY DEF CommitTo
<1>6. Accept(s, m) = IF m.leader_commit > s.commit THEN apply_committed(w) ELSE r
  BY ZenonT(60) DEF Accept
<1> HIDE DEF l, c
<1>7. from_entries(l) \in M /\ in_flight(l, s.commit) \in Nat
  BY ZenonT(60), <1>1, <1>3, ConfigOfLog
<1>8. Coherent(s) => a.members = from_entries(l)
  <2> DEFINE changed == \/ \E i \in 1 .. Len(s.log.ents) : i > Len(l.ents) \/ l.ents[i] # s.log.ents[i]
                        \/ \E i \in Len(s.log.ents) + 1 .. Len(l.ents) : l.ents[i].config # {}
  <2>1. CASE changed
    <3>1. a = [s EXCEPT !.members = from_entries(l), !.pending = in_flight(l, s.commit)]
      BY ZenonT(60), <2>1 DEF MembersAfter
    <3> QED
      BY ZenonT(60), <1>1, <3>1 DEF ReplicaOf
  <2>2. CASE ~changed
    <3>1. a = s
      BY ZenonT(60), <2>2 DEF MembersAfter
    <3>2. Len(s.log.ents) \in Nat /\ Len(l.ents) \in Nat
      BY ZenonT(60), <1>1, <1>3, LogFields
    <3>3. \A i \in 1 .. Len(s.log.ents) : ~(i > Len(l.ents)) /\ l.ents[i] = s.log.ents[i]
      BY ZenonT(60), <2>2
    <3>4. Len(s.log.ents) <= Len(l.ents)
      <4>1. CASE Len(s.log.ents) = 0
        BY SMTT(60), <3>2, <4>1
      <4>2. CASE Len(s.log.ents) # 0
        <5>1. Len(s.log.ents) \in 1 .. Len(s.log.ents)
          BY SMTT(60), <3>2, <4>2
        <5> QED
          BY SMTT(60), <3>2, <3>3, <5>1
      <4> QED
        BY ZenonT(60), <4>1, <4>2
    <3>5. \A i \in Len(s.log.ents) + 1 .. Len(l.ents) : l.ents[i].config = {}
      BY ZenonT(60), <2>2
    <3>6. from_entries(l) = from_entries(s.log)
      BY SMTT(60), <1>1, <1>3, <3>3, <3>4, <3>5, LongerMembers
    <3> QED
      BY ZenonT(60), <3>1, <3>6 DEF Coherent
  <2> QED
    BY ZenonT(60), <2>1, <2>2
<1>9. a \in {s, [s EXCEPT !.members = from_entries(l), !.pending = in_flight(l, s.commit)]}
  BY ZenonT(60) DEF MembersAfter
<1> HIDE DEF a
<1>10. a \in ReplicaOf(C, M) /\ a.applied = s.applied
  BY ZenonT(60), <1>1, <1>7, <1>9 DEF ReplicaOf
<1>11. r \in ReplicaOf(C, M) /\ r.applied = a.applied /\ r.log = l /\ r.members = a.members
  BY ZenonT(60), <1>3, <1>10 DEF ReplicaOf
<1> HIDE DEF r
<1>12. w \in ReplicaOf(C, M) /\ w.applied = r.applied /\ w.log = r.log /\ w.members = r.members
  BY ZenonT(60), <1>5, <1>11 DEF ReplicaOf
<1> HIDE DEF w
<1>13. Sound(C, M, w)
  <2>1. w.log = l /\ w.applied = s.applied /\ l.base.index = s.log.base.index
    BY ZenonT(60), <1>3, <1>10, <1>11, <1>12
  <2> QED
    BY ZenonT(60), <1>12, <2>1 DEF Sound
<1>14. Trims(r, w) /\ Trims(w, apply_committed(w)) /\ Trims(r, r)
  BY ZenonT(60), <1>12, <1>13, SameTrims, ApplyCommittedTrims
<1>15. Trims(r, Accept(s, m))
  BY ZenonT(60), <1>6, <1>14, TrimsAgain
<1>16. Coherent(s) => Coherent(r)
  BY ZenonT(60), <1>8, <1>11 DEF Coherent
<1> QED
  BY ZenonT(60), <1>4, <1>11, <1>15, <1>16 DEF Trims

(* A replica that installed a snapshot holds no entries.                    *)
LEMMA InstalledLinks ==
    ASSUME NEW C, NEW M, NEW s, Sound(C, M, s), NEW b \in BaseOf(M)
    PROVE  LinksOf(Installed(s, b).log) = {} /\ Coherent(Installed(s, b))
<1> DEFINE l == [base |-> b, ents |-> <<>>]
           t == Installed(s, b)
<1>1. s \in ReplicaOf(C, M) /\ b.index \in Nat
  BY ZenonT(60) DEF Sound, BaseOf
<1>2. t.log = l /\ t.members = b.members
  BY ZenonT(60), <1>1 DEF Installed, ReplicaOf
<1>3. l.base = b /\ l.ents = <<>> /\ Len(l.ents) = 0
  BY ZenonT(60), EmptySeq
<1> HIDE DEF l
<1>4. first_index(l) .. last_index(l) = {}
  BY SMTT(60), <1>1, <1>3 DEF first_index, last_index
<1>5. LinksOf(l) = {}
  BY ZenonT(60), <1>4 DEF LinksOf
<1>6. from_entries(l) = b.members
  <2>1. {i \in 1 .. Len(l.ents) : l.ents[i].config # {}} = {}
    BY SMTT(60), <1>3
  <2> QED
    BY ZenonT(60), <1>3, <2>1 DEF from_entries
<1> QED
  BY ZenonT(60), <1>2, <1>5, <1>6 DEF Coherent
=============================================================================
