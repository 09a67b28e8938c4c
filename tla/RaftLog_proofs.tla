---------------------------- MODULE RaftLog_proofs ----------------------------
(* Proofs about Raft.tla, continued: the memberships and the logs.          *)
(*                                                                          *)
(* Coherent says that a replica's membership is the one its log implies; it  *)
(* is kept by every operation on the log.  Log Matching is not inductive.    *)
(* What carries it is Replicated, about links: the entries of all logs and   *)
(* all appends under way, each with its index and the term before it.  Index *)
(* and term determine a link (Functional), because only the one leader of    *)
(* the term makes links of it, each past the end of its log (Owned), and a   *)
(* leader takes in nothing of others while it leads (SentByLeaders).         *)
(* Follower, store and network move links about and make none; Advance is    *)
(* what all steps have in common, and every handler is shown to be one.      *)
EXTENDS Raft_proofs

(* The links of all logs and of all appends under way.                      *)
Links == (UNION {LinksOf(node[p].log) : p \in Node}) \cup (UNION {Carried(m) : m \in msgs})

(* The index and the term of an entry determine it and the term before it.  *)
Functional == \A x, y \in Links : x.index = y.index /\ x.entry.term = y.entry.term => x = y

(* An entry comes from a leader of its term, whose log reaches as far while *)
(* it leads.                                                                 *)
Owned(x) ==
    \E p \in Node :
        /\ <<x.entry.term, p>> \in elected
        /\ node[p].role = "Leader" /\ node[p].term = x.entry.term => x.index <= last_index(node[p].log)

(* Leaders are on record; who is, has reached that term and stands no more. *)
OnRecord ==
    /\ \A p \in Node : node[p].role = "Leader" => <<node[p].term, p>> \in elected
    /\ \A e \in elected : /\ e[1] <= node[e[2]].term
                          /\ e[1] = node[e[2]].term => node[e[2]].role # "Candidate"

(* Appends and snapshots come from leaders, and go to others.               *)
SentByLeaders == \A m \in msgs : Leads(m) => <<m.term, m.from>> \in elected /\ m.from # m.to

Replicated == Functional /\ (\A x \in Links : Owned(x)) /\ OnRecord /\ SentByLeaders

-----------------------------------------------------------------------------
(* A step of one replica.                                                   *)

(* p becomes t: leaders are put on record, and lengthen their logs.         *)
Office(p, t) ==
    /\ node[p].term <= t.term
    /\ elected \subseteq elected' /\ elected' \subseteq elected \cup {<<t.term, p>>}
    /\ t.role = "Candidate" => <<t.term, p>> \notin elected'
    /\ t.role = "Leader" =>
          /\ <<t.term, p>> \in elected'
          /\ \/ <<t.term, p>> \notin elected
             \/ /\ node[p].role = "Leader" /\ node[p].term = t.term
                /\ last_index(node[p].log) <= last_index(t.log)

(* p becomes t and sends `sent': of the links in them only `new' is new, the *)
(* one that a leader adds at its end.                                        *)
Writes(p, t, sent, new) ==
    /\ LinksOf(t.log) \subseteq Links \cup new
    /\ \A m \in sent :
          /\ Carried(m) \subseteq Links \cup new
          /\ Leads(m) => m.from = p /\ m.to # p /\ <<m.term, p>> \in elected'
    /\ \A x, y \in new : x = y
    /\ \A x \in new :
          /\ x.index \in Nat /\ x.index <= last_index(t.log)
          /\ t.role = "Leader" /\ x.entry.term = t.term
          /\ node[p].role = "Leader" /\ node[p].term = t.term => last_index(node[p].log) < x.index

Advances(p, t, sent, new) ==
    /\ p \in Node /\ Update(p, t, sent)
    /\ t.term \in Nat /\ last_index(t.log) \in Nat
    /\ MembershipFollowsLog => Coherent(t)
    /\ Replicated /\ ElectionSafety => Office(p, t) /\ Writes(p, t, sent, new)

Advance == \E p, t, sent, new : Advances(p, t, sent, new)

(* Every link is in some log or in some message.                            *)
LEMMA LinkIsHeld ==
    ASSUME NEW x \in Links
    PROVE  (\E p \in Node : x \in LinksOf(node[p].log)) \/ (\E m \in msgs : x \in Carried(m))
<1>1. CASE x \in UNION {LinksOf(node[p].log) : p \in Node}
  <2>1. PICK S \in {LinksOf(node[p].log) : p \in Node} : x \in S
    BY ZenonT(60), <1>1
  <2> QED
    BY ZenonT(60), <2>1
<1>2. CASE x \in UNION {Carried(m) : m \in msgs}
  <2>1. PICK S \in {Carried(m) : m \in msgs} : x \in S
    BY ZenonT(60), <1>2
  <2> QED
    BY ZenonT(60), <2>1
<1> QED
  BY ZenonT(60), <1>1, <1>2 DEF Links

(* The links of logs and messages are links.                                *)
LEMMA HeldIsLink ==
    /\ \A p \in Node : LinksOf(node[p].log) \subseteq Links
    /\ \A m \in msgs : Carried(m) \subseteq Links
<1>1. \A p \in Node : LinksOf(node[p].log) \in {LinksOf(node[q].log) : q \in Node}
  BY ZenonT(60)
<1>2. \A m \in msgs : Carried(m) \in {Carried(n) : n \in msgs}
  BY ZenonT(60)
<1> QED
  BY ZenonT(60), <1>1, <1>2 DEF Links

(* The index of a link is a number.                                         *)
LEMMA LinksTyped ==
    ASSUME NEW C, NEW M, Types(C, M), NEW x \in Links
    PROVE  x.index \in Nat
<1>1. ASSUME NEW p \in Node, x \in LinksOf(node[p].log)
      PROVE  x.index \in Nat
  <2>1. node[p].log \in LogOf(C, M)
    BY ZenonT(60), Unpacked, Fields DEF Sound
  <2> DEFINE l == node[p].log
  <2> HIDE DEF l
  <2>2. PICK i \in first_index(l) .. last_index(l) : x = Link(i, entry(l, i), term_at(l, i - 1))
    BY ZenonT(60), <1>1 DEF LinksOf, l
  <2>3. i \in Nat
    BY ZenonT(60), <2>1, EntryAt DEF l
  <2> QED
    BY ZenonT(60), <2>2, <2>3 DEF Link
<1>2. ASSUME NEW m \in msgs, x \in Carried(m)
      PROVE  x.index \in Nat
  <2>1. m.kind = "AppendEntries"
    BY ZenonT(60), <1>2 DEF Carried
  <2>2. m.prev_log_index \in Nat
    BY ZenonT(60), <2>1, Unpacked DEF Typed
  <2>3. PICK k \in 1 .. Len(m.entries) :
            x = Link(m.prev_log_index + k, m.entries[k],
                     IF k = 1 THEN m.prev_log_term ELSE m.entries[k - 1].term)
    BY ZenonT(60), <1>2, <2>1 DEF Carried
  <2>4. m.prev_log_index + k \in Nat
    BY SMTT(60), <2>2
  <2> QED
    BY ZenonT(60), <2>3, <2>4 DEF Link
<1> QED
  BY ZenonT(60), <1>1, <1>2, LinkIsHeld

(* Such a step keeps the memberships those of the logs, and the logs        *)
(* replicas of what leaders wrote.                                           *)
LEMMA AdvanceKeeps ==
    ASSUME NEW C, NEW M, Types(C, M), Advance
    PROVE  /\ MembershipFollowsLog => MembershipFollowsLog'
           /\ Replicated /\ ElectionSafety /\ ElectionSafety' => Replicated'
<1>0. PICK p, t, sent, new : Advances(p, t, sent, new)
  BY ZenonT(60) DEF Advance
<1>1. /\ p \in Node /\ Update(p, t, sent) /\ (MembershipFollowsLog => Coherent(t))
      /\ t.term \in Nat /\ last_index(t.log) \in Nat
      /\ Replicated /\ ElectionSafety => Office(p, t) /\ Writes(p, t, sent, new)
  BY ZenonT(60), <1>0 DEF Advances
<1>2. node'[p] = t /\ (\A q \in Node : q # p => node'[q] = node[q])
  BY ZenonT(60), <1>1 DEF Update, Types
<1>3. msgs \subseteq msgs' /\ msgs' \subseteq msgs \cup sent
  BY ZenonT(60), <1>1 DEF Update, Send
<1>4. MembershipFollowsLog => MembershipFollowsLog'
  <2> SUFFICES ASSUME MembershipFollowsLog, NEW q \in Node
               PROVE  node'[q].members = from_entries(node'[q].log)
    BY ZenonT(60) DEF MembershipFollowsLog
  <2>1. CASE q = p
    BY ZenonT(60), <1>1, <1>2, <2>1 DEF Coherent
  <2>2. CASE q # p
    BY ZenonT(60), <1>2, <2>2 DEF MembershipFollowsLog
  <2> QED
    BY ZenonT(60), <2>1, <2>2
<1>5. ASSUME Replicated, ElectionSafety, ElectionSafety'
      PROVE  Replicated'
  <2>1. Functional /\ (\A x \in Links : Owned(x)) /\ OnRecord /\ SentByLeaders
    BY ZenonT(60), <1>5 DEF Replicated
  <2>2. Office(p, t) /\ Writes(p, t, sent, new)
    BY ZenonT(60), <1>1, <1>5
  <2>3. elected \subseteq elected' /\ elected' \subseteq elected \cup {<<t.term, p>>}
    BY ZenonT(60), <2>2 DEF Office
  <2>4. /\ \A q \in Node : last_index(node[q].log) \in Nat /\ node[q].term \in Nat
        /\ \A x \in Links : x.index \in Nat
        /\ \A e \in elected : e[1] \in Nat /\ e[2] \in Node
    <3>1. \A q \in Node : last_index(node[q].log) \in Nat /\ node[q].term \in Nat
      BY ZenonT(60), Unpacked, Fields, LogFields DEF Sound
    <3>2. \A x \in Links : x.index \in Nat
      BY ZenonT(60), LinksTyped
    <3> QED
      BY ZenonT(60), <3>1, <3>2 DEF Types
  <2>5. Links' \subseteq Links \cup new
    <3>1. ASSUME NEW q \in Node, NEW x \in LinksOf(node'[q].log)
          PROVE  x \in Links \cup new
      <4>1. CASE q = p
        BY ZenonT(60), <1>2, <2>2, <3>1, <4>1 DEF Writes
      <4>2. CASE q # p
        BY ZenonT(60), <1>2, <3>1, <4>2, HeldIsLink
      <4> QED
        BY ZenonT(60), <4>1, <4>2
    <3>2. ASSUME NEW m \in msgs', NEW x \in Carried(m)
          PROVE  x \in Links \cup new
      BY ZenonT(60), <1>3, <2>2, <3>2, HeldIsLink DEF Writes
    <3>3. Links' = (UNION {LinksOf(node'[q].log) : q \in Node}) \cup (UNION {Carried(m) : m \in msgs'})
      BY ZenonT(60) DEF Links
    <3>4. ASSUME NEW S \in {LinksOf(node'[q].log) : q \in Node}, NEW x \in S
          PROVE  x \in Links \cup new
      BY ZenonT(60), <3>1, <3>4
    <3>5. ASSUME NEW S \in {Carried(m) : m \in msgs'}, NEW x \in S
          PROVE  x \in Links \cup new
      BY ZenonT(60), <3>2, <3>5
    <3> QED
      BY ZenonT(60), <3>3, <3>4, <3>5
  <2>6. ASSUME NEW x \in Links
        PROVE  Owned(x)'
    <3>1. PICK q \in Node : /\ <<x.entry.term, q>> \in elected
                            /\ node[q].role = "Leader" /\ node[q].term = x.entry.term
                                 => x.index <= last_index(node[q].log)
      BY ZenonT(60), <2>1 DEF Owned
    <3>2. <<x.entry.term, q>> \in elected'
      BY ZenonT(60), <2>3, <3>1
    <3>3. node'[q].role = "Leader" /\ node'[q].term = x.entry.term => x.index <= last_index(node'[q].log)
      <4>1. CASE q # p
        BY ZenonT(60), <1>2, <3>1, <4>1
      <4>2. CASE q = p
        <5> SUFFICES ASSUME t.role = "Leader", t.term = x.entry.term
                     PROVE  x.index <= last_index(t.log)
          BY ZenonT(60), <1>2, <4>2
        <5>1. node[p].role = "Leader" /\ node[p].term = t.term /\ last_index(node[p].log) <= last_index(t.log)
          BY ZenonT(60), <2>2, <3>1, <4>2 DEF Office
        <5>2. x.index <= last_index(node[p].log)
          BY ZenonT(60), <3>1, <4>2, <5>1
        <5> QED
          BY SMTT(60), <1>1, <2>4, <5>1, <5>2
      <4> QED
        BY ZenonT(60), <4>1, <4>2
    <3> QED
      BY ZenonT(60), <3>2, <3>3 DEF Owned
  <2>7. ASSUME NEW x \in new
        PROVE  Owned(x)'
    <3>1. t.role = "Leader" /\ x.entry.term = t.term /\ x.index <= last_index(t.log)
      BY ZenonT(60), <2>2 DEF Writes
    <3>2. <<x.entry.term, p>> \in elected'
      BY ZenonT(60), <2>2, <3>1 DEF Office
    <3> QED
      BY ZenonT(60), <1>1, <1>2, <3>1, <3>2 DEF Owned
  <2>8. Functional'
    <3>1. ASSUME NEW x \in new, NEW y \in Links, x.index = y.index, x.entry.term = y.entry.term
          PROVE  FALSE
      <4>1. /\ t.role = "Leader" /\ x.entry.term = t.term /\ x.index \in Nat
            /\ node[p].role = "Leader" /\ node[p].term = t.term => last_index(node[p].log) < x.index
        BY ZenonT(60), <2>2 DEF Writes
      <4>2. PICK q \in Node : /\ <<y.entry.term, q>> \in elected
                              /\ node[q].role = "Leader" /\ node[q].term = y.entry.term
                                   => y.index <= last_index(node[q].log)
        BY ZenonT(60), <2>1 DEF Owned
      <4>3. <<t.term, p>> \in elected' /\ <<t.term, q>> \in elected'
        BY ZenonT(60), <2>2, <2>3, <3>1, <4>1, <4>2 DEF Office
      <4>4. p = q
        BY ZenonT(60), <1>5, <4>3 DEF ElectionSafety
      <4>5. node[p].role = "Leader" /\ node[p].term = t.term
        BY ZenonT(60), <2>2, <3>1, <4>1, <4>2, <4>4 DEF Office
      <4>6. last_index(node[p].log) < x.index /\ x.index <= last_index(node[p].log)
        BY ZenonT(60), <3>1, <4>1, <4>2, <4>4, <4>5
      <4>7. last_index(node[p].log) \in Nat
        BY ZenonT(60), <1>1, <2>4
      <4> QED
        BY SMTT(60), <4>1, <4>6, <4>7
    <3>2. \A x, y \in new : x = y
      BY ZenonT(60), <2>2 DEF Writes
    <3>3. \A x, y \in Links \cup new : x.index = y.index /\ x.entry.term = y.entry.term => x = y
      BY ZenonT(60), <2>1, <3>1, <3>2 DEF Functional
    <3> QED
      BY ZenonT(60), <2>5, <3>3 DEF Functional
  <2>9. OnRecord'
    <3>1. ASSUME NEW q \in Node, node'[q].role = "Leader"
          PROVE  <<node'[q].term, q>> \in elected'
      <4>1. CASE q = p
        BY ZenonT(60), <1>2, <2>2, <3>1, <4>1 DEF Office
      <4>2. CASE q # p
        BY ZenonT(60), <1>2, <2>1, <2>3, <3>1, <4>2 DEF OnRecord
      <4> QED
        BY ZenonT(60), <4>1, <4>2
    <3>2. ASSUME NEW e \in elected'
          PROVE  e[1] <= node'[e[2]].term /\ (e[1] = node'[e[2]].term => node'[e[2]].role # "Candidate")
      <4>0. /\ node[p].term <= t.term /\ (t.role = "Candidate" => <<t.term, p>> \notin elected')
            /\ t.term \in Nat
        <5>1. node[p].term <= t.term /\ (t.role = "Candidate" => <<t.term, p>> \notin elected')
          BY ZenonT(60), <2>2 DEF Office
        <5> QED
          BY ZenonT(60), <1>1, <5>1
      <4>1. CASE e \in elected /\ e[2] # p
        BY ZenonT(60), <1>2, <2>1, <2>4, <4>1 DEF OnRecord
      <4>2. CASE e \in elected /\ e[2] = p
        <5>1. e[1] <= node[p].term /\ e = <<e[1], p>>
          BY SMTT(60), <2>1, <4>2 DEF OnRecord, Types
        <5>2. e[1] <= t.term
          BY SMTT(60), <1>1, <2>4, <4>0, <4>2, <5>1
        <5>3. e[1] = t.term => t.role # "Candidate"
          BY ZenonT(60), <3>2, <4>0, <5>1
        <5> QED
          BY ZenonT(60), <1>2, <4>2, <5>2, <5>3
      <4>3. CASE e = <<t.term, p>>
        BY SMTT(60), <1>2, <3>2, <4>0, <4>3
      <4> QED
        BY ZenonT(60), <2>3, <4>1, <4>2, <4>3
    <3> QED
      BY ZenonT(60), <3>1, <3>2 DEF OnRecord
  <2>10. SentByLeaders'
    BY Zenon, <1>3, <2>1, <2>2, <2>3 DEF SentByLeaders, Writes
  <2> QED
    BY ZenonT(60), <2>5, <2>6, <2>7, <2>8, <2>9, <2>10 DEF Replicated
<1> QED
  BY ZenonT(60), <1>4, <1>5

(* A change of one replica that takes no office.                            *)
Tame(s, t) ==
    /\ s.term <= t.term
    /\ t.role = "Leader" => s.role = "Leader" /\ s.term = t.term
    /\ t.role = "Candidate" => s.term < t.term \/ (s.role = "Candidate" /\ s.term = t.term)

(* p, which leads as s, sends m from a log with the links of l.             *)
Own(p, s, l, m) ==
    /\ s.role = "Leader" /\ m.from = p /\ m.to # p /\ m.term = s.term
    /\ Carried(m) \subseteq LinksOf(l)

(* A change that keeps role and term after a tame one is tame.              *)
LEMMA TameKept ==
    ASSUME NEW s, NEW r, NEW t, Tame(s, r), Kept(r, t)
    PROVE  Tame(s, t)
BY ZenonT(60) DEF Tame, Kept

(* Only an append carries links.                                            *)
LEMMA NothingCarried ==
    ASSUME NEW m, ~Leads(m)
    PROVE  Carried(m) = {}
BY ZenonT(60) DEF Leads, Carried

(* A replica sound in type has a term and a last index.                     *)
LEMMA Numbers ==
    ASSUME NEW C, NEW M, NEW t, Sound(C, M, t)
    PROVE  t.term \in Nat /\ last_index(t.log) \in Nat
BY ZenonT(60), Fields, LogFields DEF Sound

(* A tame change keeps the record of leaders.                               *)
LEMMA TameOffice ==
    ASSUME NEW C, NEW M, Types(C, M), NEW p \in Node, NEW t, Sound(C, M, t), elected' = elected,
           Tame(node[p], t), t.role = "Leader" => last_index(node[p].log) <= last_index(t.log),
           Replicated
    PROVE  Office(p, t)
<1>1. t.term \in Nat /\ node[p].term \in Nat
  BY ZenonT(60), Unpacked, Numbers
<1>2. t.role = "Leader" => <<t.term, p>> \in elected
  BY ZenonT(60) DEF Tame, Replicated, OnRecord
<1>3. t.role = "Candidate" => <<t.term, p>> \notin elected
  <2> SUFFICES ASSUME t.role = "Candidate", <<t.term, p>> \in elected
               PROVE  FALSE
    BY ZenonT(60)
  <2> DEFINE e == <<t.term, p>>
  <2>1. e[1] = t.term /\ e[2] = p
    BY ZenonT(60)
  <2>2. e[1] <= node[e[2]].term /\ (e[1] = node[e[2]].term => node[e[2]].role # "Candidate")
    BY ZenonT(60) DEF Replicated, OnRecord
  <2> HIDE DEF e
  <2>3. t.term <= node[p].term /\ (t.term = node[p].term => node[p].role # "Candidate")
    BY ZenonT(60), <2>1, <2>2
  <2> QED
    BY SMTT(60), <1>1, <2>3 DEF Tame
<1> QED
  BY ZenonT(60), <1>2, <1>3 DEF Office, Tame

(* A tame change that trims the log, with what a leader sends of its own.   *)
LEMMA QuietLogs ==
    ASSUME NEW C, NEW M, Types(C, M), NEW p \in Node, NEW t, Sound(C, M, t), NEW sent,
           Update(p, t, sent), elected' = elected, Tame(node[p], t), Trims(node[p], t),
           \A m \in sent : Leads(m) => Own(p, t, node[p].log, m)
    PROVE  Advance
<1>1. t.term \in Nat /\ last_index(t.log) \in Nat /\ last_index(node[p].log) = last_index(t.log)
  BY ZenonT(60), Numbers DEF Trims
<1>2. MembershipFollowsLog => Coherent(t)
  BY ZenonT(60) DEF MembershipFollowsLog, Coherent, Trims
<1>3. ASSUME Replicated
      PROVE  Office(p, t) /\ Writes(p, t, sent, {})
  <2>1. Office(p, t)
    BY SMTT(60), <1>1, <1>3, TameOffice
  <2>2. LinksOf(node[p].log) \subseteq Links
    BY ZenonT(60), HeldIsLink
  <2>3. LinksOf(t.log) \subseteq Links \cup {}
    BY ZenonT(60), <2>2 DEF Trims
  <2>4. ASSUME NEW m \in sent
        PROVE  Carried(m) \subseteq Links \cup {}
    BY ZenonT(60), <2>2, <2>4, NothingCarried DEF Own
  <2>5. ASSUME NEW m \in sent, Leads(m)
        PROVE  m.from = p /\ m.to # p /\ <<m.term, p>> \in elected'
    BY ZenonT(60), <2>1, <2>5 DEF Own, Office
  <2> QED
    BY ZenonT(60), <2>1, <2>3, <2>4, <2>5 DEF Writes
<1>4. Advances(p, t, sent, {})
  BY ZenonT(60), <1>1, <1>2, <1>3 DEF Advances
<1> QED
  BY ZenonT(60), <1>4 DEF Advance

(* A follower that takes over the links of a leader's append or snapshot:   *)
(* a leader of the term never gets one.                                      *)
LEMMA TakenLogs ==
    ASSUME NEW C, NEW M, Types(C, M), NEW m \in msgs, Leads(m), NEW t, Sound(C, M, t), NEW sent,
           Update(m.to, t, sent), elected' = elected, Tame(node[m.to], t),
           t.role = "Leader" => t.term = m.term,
           Coherent(node[m.to]) => Coherent(t),
           LinksOf(t.log) \subseteq LinksOf(node[m.to].log) \cup Carried(m),
           \A r \in sent : ~Leads(r)
    PROVE  Advance
<1> DEFINE p == m.to
<1>0. p \in Node
  BY ZenonT(60), Unpacked DEF Typed
<1>1. t.term \in Nat /\ last_index(t.log) \in Nat
  BY ZenonT(60), Numbers
<1>2. MembershipFollowsLog => Coherent(t)
  BY ZenonT(60), <1>0 DEF MembershipFollowsLog, Coherent
<1>3. ASSUME Replicated, ElectionSafety
      PROVE  Office(p, t) /\ Writes(p, t, sent, {})
  <2>1. t.role # "Leader"
    <3> SUFFICES ASSUME t.role = "Leader"
                 PROVE  FALSE
      BY ZenonT(60)
    <3>1. <<m.term, p>> \in elected
      BY ZenonT(60), <1>0, <1>3 DEF Tame, Replicated, OnRecord
    <3>2. <<m.term, m.from>> \in elected /\ m.from # p
      BY ZenonT(60), <1>3 DEF Replicated, SentByLeaders
    <3> QED
      BY ZenonT(60), <1>3, <3>1, <3>2 DEF ElectionSafety
  <2>2. Office(p, t)
    BY ZenonT(60), <1>0, <1>3, <2>1, TameOffice
  <2>3. LinksOf(t.log) \subseteq Links \cup {}
    BY ZenonT(60), <1>0, HeldIsLink
  <2>4. \A r \in sent : Carried(r) \subseteq Links \cup {}
    BY ZenonT(60), NothingCarried
  <2> QED
    BY ZenonT(60), <2>2, <2>3, <2>4 DEF Writes
<1>4. Advances(p, t, sent, {})
  BY ZenonT(60), <1>0, <1>1, <1>2, <1>3 DEF Advances
<1> QED
  BY ZenonT(60), <1>4 DEF Advance

(* What send_append sends to others comes of the sender's log.              *)
LEMMA SendsOwn ==
    ASSUME NEW C, NEW M, NEW s, Sound(C, M, s), world \in World, s.role = "Leader", NEW p,
           NEW Q \in SUBSET Node, p \notin Q, NEW m \in SendAppends(p, s, Q)
    PROVE  Own(p, s, s.log, m)
<1>1. PICK q \in Q : m \in SendAppend(p, s, q)
  BY ZenonT(60) DEF SendAppends
<1> QED
  BY SMTT(60), <1>1, SendLinks DEF Own

-----------------------------------------------------------------------------
(* Elections.                                                               *)

(* handle_higher_term is tame and leaves the log alone.                     *)
LEMMA AdoptedTame ==
    ASSUME NEW C, NEW M, Types(C, M), NEW m \in msgs
    PROVE  /\ Tame(node[m.to], Adopted(m)) /\ Adopted(m).members = node[m.to].members
           /\ Current(m) /\ Adopted(m).role = "Leader" /\ Adopts(m) => Adopted(m).term = m.term
<1> DEFINE s == node[m.to]
           a == Adopted(m)
<1>1. /\ Sound(C, M, s) /\ a.term \in Nat /\ s.term \in Nat /\ s.term <= a.term /\ m.term \in Nat
      /\ a # s => a.role = "Follower" /\ a.term = m.term /\ s.term < a.term
      /\ Adopts(m) /\ m.term > s.term => a # s
  BY ZenonT(60), AdoptedSound
<1>2. a.members = s.members
  BY ZenonT(60), <1>1 DEF Adopted, become_follower, Sound, ReplicaOf
<1> HIDE DEF a, s
<1>3. Tame(s, a)
  BY ZenonT(60), <1>1 DEF Tame
<1>4. m.term >= s.term /\ a.role = "Leader" /\ Adopts(m) => a.term = m.term
  BY SMTT(60), <1>1
<1> QED
  BY ZenonT(60), <1>2, <1>3, <1>4 DEF a, s, Current

(* So is following the sender of an append or a snapshot.                   *)
LEMMA FollowingTame ==
    ASSUME NEW C, NEW M, Types(C, M), NEW m \in msgs, Leads(m), Current(m)
    PROVE  /\ Tame(node[m.to], Following(m))
           /\ Following(m).log = node[m.to].log /\ Following(m).members = node[m.to].members
           /\ Following(m).role = "Leader" => Following(m).term = m.term
<1> DEFINE s == Adopted(m)
           f == IF s.role \in {"PreCandidate", "Candidate"}
                THEN become_follower(s, s.term, m.from) ELSE s
           r == [f EXCEPT !.leader = m.from]
<1>1. /\ Sound(C, M, s) /\ s.log = node[m.to].log /\ m.from \in Node /\ s.term \in Nat
      /\ node[m.to].term \in Nat
  BY ZenonT(60), AdoptedSound
<1>2. /\ Tame(node[m.to], s) /\ s.members = node[m.to].members
      /\ s.role = "Leader" => s.term = m.term
  BY ZenonT(60), AdoptedTame DEF Adopts, Leads
<1>3. Following(m) = r
  BY ZenonT(60) DEF Following
<1> HIDE DEF s
<1>4. s \in ReplicaOf(C, M)
  BY ZenonT(60), <1>1 DEF Sound
<1>5. /\ f \in ReplicaOf(C, M) /\ f.term = s.term /\ f.log = s.log
      /\ f.role \in {"Candidate", "Leader"} => f.role = s.role
  BY SMTT(60), <1>1, <1>4, FollowerSound DEF Sound
<1>6. f.members = s.members
  BY ZenonT(60), <1>4 DEF become_follower, ReplicaOf
<1> HIDE DEF f
<1>7. r.term = f.term /\ r.log = f.log /\ r.members = f.members /\ r.role = f.role
  BY ZenonT(60), <1>5 DEF ReplicaOf
<1> HIDE DEF r
<1>8. Tame(node[m.to], r)
  BY ZenonT(60), <1>2, <1>5, <1>7 DEF Tame
<1> QED
  BY ZenonT(60), <1>1, <1>2, <1>3, <1>5, <1>6, <1>7, <1>8

(* s, with the log of p, is p in office, or about to take it.               *)
InOffice(p, s) ==
    \/ /\ elected' = elected
       /\ node[p].role = "Leader" /\ node[p].term = s.term
    \/ /\ elected' = elected \cup {<<s.term, p>>}
       /\ node[p].term < s.term \/ (node[p].role = "Candidate" /\ node[p].term = s.term)

(* A leader that appends an entry adds one link, at its end.                *)
LEMMA LeadLogs ==
    ASSUME NEW C, NEW M, Scope(C, M), Types(C, M), NEW p \in Node, NEW s, Sound(C, M, s),
           NEW config \in C, LeaderAppends(p, s, config), s.role = "Leader",
           s.log = node[p].log, s.members = node[p].members, InOffice(p, s)
    PROVE  Advance
<1> DEFINE a == Appended(p, s, config)
           Q == other_voters(p, a)
           c == Sent(a, Q)
           b == Commit(p, c)
           t == [b EXCEPT !.pending = IF config = {} THEN b.pending ELSE last_index(a.log)]
           sent == SendAppends(p, a, Q)
           x == NewLink(s, config)
<1>1. Sound(C, M, a) /\ Kept(s, a)
  BY ZenonT(60), AppendedSound
<1>2. /\ LinksOf(a.log) \subseteq LinksOf(s.log) \cup {x}
      /\ last_index(a.log) = last_index(s.log) + 1
      /\ Coherent(s) => Coherent(a)
  BY ZenonT(60), AppendedLinks
<1>3. last_index(s.log) \in Nat /\ s.term \in Nat /\ node[p].term \in Nat /\ world \in World
  BY ZenonT(60), Numbers, Unpacked
<1>4. x.index = last_index(s.log) + 1 /\ x.entry.term = s.term
  BY ZenonT(60) DEF NewLink, Link
<1> HIDE DEF a, x
<1>5. Q \in SUBSET Node /\ p \notin Q
  BY ZenonT(60), <1>1, Fields DEF Sound, Scope, other_voters
<1>6. ASSUME NEW m \in sent
      PROVE  Own(p, a, a.log, m)
  BY ZenonT(60), <1>1, <1>3, <1>5, SendsOwn DEF Kept
<1> HIDE DEF Q
<1>7. Sound(C, M, c) /\ Kept(a, c) /\ Trims(a, c)
  <2>1. Sound(C, M, c) /\ Kept(a, c)
    BY ZenonT(60), <1>1, SentSound
  <2>2. c.log = a.log /\ c.members = a.members
    BY ZenonT(60), <1>1 DEF Sent, Sound, ReplicaOf
  <2> QED
    BY ZenonT(60), <2>1, <2>2, SameTrims
<1> HIDE DEF c
<1>8. Sound(C, M, b) /\ Kept(c, b) /\ Trims(c, b)
  BY ZenonT(60), <1>7, CommitSound, CommitTrims
<1>9. Update(p, t, sent)
  <2>1. b \in ReplicaOf(C, M)
    BY ZenonT(60), <1>8 DEF Sound
  <2>2. LeaderAppends(p, s, config) =
          (/\ Update(p, [b EXCEPT !.pending = IF config = {} THEN @ ELSE last_index(a.log)], sent)
           /\ Decide(a, b))
    BY ZenonT(60) DEF LeaderAppends, a, Q, c
  <2>3. [b EXCEPT !.pending = IF config = {} THEN @ ELSE last_index(a.log)] = t
    BY ZenonT(60), <2>1 DEF ReplicaOf
  <2> QED
    BY ZenonT(60), <2>2, <2>3
<1> HIDE DEF b
<1>10. t.role = b.role /\ t.term = b.term /\ t.log = b.log /\ t.members = b.members
  BY ZenonT(60), <1>8 DEF Sound, ReplicaOf
<1> HIDE DEF t
<1>11. Trims(a, t)
  BY ZenonT(60), <1>7, <1>8, <1>10, SameTrims, TrimsAgain
<1>12. t.role = "Leader" /\ t.term = s.term /\ a.term = s.term
  BY ZenonT(60), <1>1, <1>7, <1>8, <1>10 DEF Kept
<1>13. last_index(t.log) = last_index(s.log) + 1 /\ LinksOf(t.log) \subseteq LinksOf(s.log) \cup {x}
  BY ZenonT(60), <1>2, <1>11 DEF Trims
<1>14. MembershipFollowsLog => Coherent(t)
  BY ZenonT(60), <1>2, <1>11 DEF MembershipFollowsLog, Coherent, Trims
<1>15. ASSUME Replicated
       PROVE  Office(p, t) /\ Writes(p, t, sent, {x})
  <2>1. /\ elected \subseteq elected' /\ elected' \subseteq elected \cup {<<s.term, p>>}
        /\ <<s.term, p>> \in elected' /\ node[p].term <= s.term
    BY SMTT(60), <1>3, <1>15 DEF InOffice, Replicated, OnRecord
  <2>2. \/ <<s.term, p>> \notin elected
        \/ (node[p].role = "Leader" /\ node[p].term = s.term)
    <3> SUFFICES ASSUME <<s.term, p>> \in elected
                 PROVE  node[p].role = "Leader" /\ node[p].term = s.term
      BY ZenonT(60)
    <3> DEFINE e == <<s.term, p>>
    <3>1. e[1] = s.term /\ e[2] = p
      BY ZenonT(60)
    <3>2. e[1] <= node[e[2]].term /\ (e[1] = node[e[2]].term => node[e[2]].role # "Candidate")
      BY ZenonT(60), <1>15 DEF Replicated, OnRecord
    <3> HIDE DEF e
    <3>3. s.term <= node[p].term /\ (s.term = node[p].term => node[p].role # "Candidate")
      BY ZenonT(60), <3>1, <3>2
    <3> QED
      BY SMTT(60), <1>3, <3>3 DEF InOffice
  <2>3. last_index(node[p].log) <= last_index(t.log)
    BY SMTT(60), <1>3, <1>13
  <2>4. Office(p, t)
    BY ZenonT(60), <1>12, <2>1, <2>2, <2>3 DEF Office
  <2>5. LinksOf(s.log) \subseteq Links
    BY ZenonT(60), HeldIsLink
  <2>6. LinksOf(t.log) \subseteq Links \cup {x}
    BY ZenonT(60), <1>13, <2>5
  <2>7. ASSUME NEW m \in sent
        PROVE  /\ Carried(m) \subseteq Links \cup {x}
               /\ m.from = p /\ m.to # p /\ <<m.term, p>> \in elected'
    BY ZenonT(60), <1>2, <1>6, <1>12, <2>1, <2>5, <2>7 DEF Own
  <2>8. /\ x.index \in Nat /\ x.index <= last_index(t.log) /\ last_index(node[p].log) < x.index
        /\ x.entry.term = t.term
    BY SMTT(60), <1>3, <1>4, <1>12, <1>13
  <2>9. Writes(p, t, sent, {x})
    BY ZenonT(60), <1>12, <2>6, <2>7, <2>8 DEF Writes
  <2> QED
    BY ZenonT(60), <2>4, <2>9
<1>16. t.term \in Nat /\ last_index(t.log) \in Nat
  BY SMTT(60), <1>3, <1>12, <1>13
<1>17. Advances(p, t, sent, {x})
  BY ZenonT(60), <1>9, <1>14, <1>15, <1>16 DEF Advances
<1> QED
  BY ZenonT(60), <1>17 DEF Advance

(* A replica that wins an election appends the first entry of its term.     *)
LEMMA BecomeLeaderLogs ==
    ASSUME NEW C, NEW M, Scope(C, M), Types(C, M), NEW p \in Node, NEW s, Sound(C, M, s),
           become_leader(p, s), s.log = node[p].log, s.members = node[p].members,
           node[p].term < s.term \/ (node[p].role = "Candidate" /\ node[p].term = s.term)
    PROVE  Advance
<1> DEFINE n == [q \in Node |-> IF q \in other_voters(p, s) THEN last_index(s.log) + 1 ELSE 0]
           r == [s EXCEPT !.role = "Leader", !.leader = p, !.yes = {}, !.no = {},
                          !.next = n, !.match = Zero]
<1>1. s \in ReplicaOf(C, M) /\ last_index(s.log) \in Nat
  BY ZenonT(60), Numbers DEF Sound
<1>2. n \in [Node -> Nat] /\ Zero \in [Node -> Nat]
  BY SMTT(60), <1>1 DEF Zero
<1>3. elected' = elected \cup {<<s.term, p>>} /\ LeaderAppends(p, r, {})
  BY ZenonT(60) DEF become_leader
<1> HIDE DEF n
<1>4. r \in ReplicaOf(C, M)
  BY ZenonT(60), <1>1, <1>2 DEF ReplicaOf, Role
<1>5. /\ r.role = "Leader" /\ r.term = s.term /\ r.members = s.members
      /\ r.log = s.log /\ r.applied = s.applied
  BY ZenonT(60), <1>1 DEF ReplicaOf
<1> HIDE DEF r
<1>6. Sound(C, M, r)
  BY ZenonT(60), <1>4, <1>5 DEF Sound
<1>7. {} \in C /\ InOffice(p, r)
  BY ZenonT(60), <1>3, <1>5 DEF Scope, InOffice
<1> QED
  BY ZenonT(60), <1>3, <1>5, <1>6, <1>7, LeadLogs

(* A request for votes leads nobody.                                        *)
LEMMA RequestsLeadNobody ==
    ASSUME NEW kind, kind \in {"VoteRequest", "PreVoteRequest"}, NEW p, NEW s, NEW t,
           NEW m \in Requests(kind, p, s, t)
    PROVE  ~Leads(m)
<1>1. PICK q : m = Request(kind, p, q, t, s.log)
  BY ZenonT(60) DEF Requests
<1> QED
  BY ZenonT(60), <1>1 DEF Request, Leads

(* A replica that stands for a new term leaves its log alone, or wins.      *)
LEMMA CampaignLogs ==
    ASSUME NEW C, NEW M, Scope(C, M), Types(C, M), NEW p \in Node, NEW s, Sound(C, M, s),
           node[p].term <= s.term, s.log = node[p].log, s.members = node[p].members, campaign(p, s)
    PROVE  Advance
<1> DEFINE c == [s EXCEPT !.term = s.term + 1, !.voted = p, !.role = "Candidate",
                          !.leader = None, !.yes = {p}, !.no = {}]
<1>1. s \in ReplicaOf(C, M) /\ s.term \in Nat /\ node[p].term \in Nat
  BY ZenonT(60), Numbers, Unpacked DEF Sound
<1>2. [s EXCEPT !.term = @ + 1, !.voted = p, !.role = "Candidate",
                !.leader = None, !.yes = {p}, !.no = {}] = c
  BY ZenonT(60), <1>1 DEF ReplicaOf
<1>3. \/ become_leader(p, c)
      \/ Update(p, c, Requests("VoteRequest", p, c, c.term)) /\ elected' = elected
  BY ZenonT(60), <1>2 DEF campaign
<1>4. c \in ReplicaOf(C, M)
  <2> DEFINE u == s.term + 1
  <2>1. u \in Nat
    BY SMTT(60), <1>1
  <2> HIDE DEF u
  <2>2. [s EXCEPT !.term = u, !.voted = p, !.role = "Candidate",
                  !.leader = None, !.yes = {p}, !.no = {}] \in ReplicaOf(C, M)
    BY ZenonT(60), <1>1, <2>1 DEF ReplicaOf, Role
  <2> QED
    BY ZenonT(60), <2>2 DEF u
<1>5. /\ c.term = s.term + 1 /\ c.role = "Candidate"
      /\ c.log = s.log /\ c.members = s.members /\ c.applied = s.applied
  BY ZenonT(60), <1>1 DEF ReplicaOf
<1> HIDE DEF c
<1>6. Sound(C, M, c) /\ node[p].term < c.term /\ node[p].term <= c.term
  BY SMTT(60), <1>1, <1>4, <1>5 DEF Sound
<1>a. c.log = node[p].log /\ c.members = node[p].members
  BY ZenonT(60), <1>5
<1>b. node[p].term < c.term \/ (node[p].role = "Candidate" /\ node[p].term = c.term)
  BY ZenonT(60), <1>6
<1>7. CASE become_leader(p, c)
  BY ZenonT(60), <1>6, <1>7, <1>a, <1>b, BecomeLeaderLogs
<1>8. CASE Update(p, c, Requests("VoteRequest", p, c, c.term)) /\ elected' = elected
  <2>1. Tame(node[p], c) /\ Trims(node[p], c)
    <3>1. Trims(node[p], c)
      BY ZenonT(60), <1>a, SameTrims
    <3>2. Tame(node[p], c)
      BY ZenonT(60), <1>5, <1>6 DEF Tame
    <3> QED
      BY ZenonT(60), <3>1, <3>2
  <2>2. \A m \in Requests("VoteRequest", p, c, c.term) : ~Leads(m)
    BY ZenonT(60), RequestsLeadNobody
  <2> QED
    BY ZenonT(60), <1>6, <1>8, <2>1, <2>2, QuietLogs
<1> QED
  BY ZenonT(60), <1>3, <1>7, <1>8

(* The election timeout.                                                    *)
LEMMA TimeoutLogs ==
    ASSUME NEW C, NEW M, Scope(C, M), Types(C, M), NEW p \in Node, Timeout(p)
    PROVE  Advance
<1> DEFINE s == node[p]
<1>1. Sound(C, M, s) /\ s \in ReplicaOf(C, M) /\ s.term \in Nat
  BY ZenonT(60), Unpacked, Numbers DEF Sound
<1>2. campaign_pre_vote(p, s) \/ campaign(p, s)
  BY ZenonT(60) DEF Timeout
<1>3. CASE campaign(p, s)
  BY SMTT(60), <1>1, <1>3, CampaignLogs
<1>4. CASE campaign_pre_vote(p, s) /\ ~campaign(p, s)
  <2> DEFINE t == [s EXCEPT !.role = "PreCandidate", !.leader = None, !.yes = {p}, !.no = {}]
             sent == Requests("PreVoteRequest", p, s, s.term + 1)
  <2>1. Update(p, t, sent) /\ elected' = elected
    BY ZenonT(60), <1>4 DEF campaign_pre_vote
  <2>2. \A m \in sent : ~Leads(m)
    BY ZenonT(60), RequestsLeadNobody
  <2>3. t \in ReplicaOf(C, M)
    BY ZenonT(60), <1>1 DEF ReplicaOf, Role
  <2>4. /\ t.role = "PreCandidate" /\ t.term = s.term
        /\ t.log = s.log /\ t.members = s.members /\ t.applied = s.applied
    BY ZenonT(60), <1>1 DEF ReplicaOf
  <2> HIDE DEF t, sent
  <2>5. Sound(C, M, t) /\ Tame(s, t) /\ Trims(s, t)
    BY SMTT(60), <1>1, <2>3, <2>4, SameTrims DEF Sound, Tame
  <2> QED
    BY ZenonT(60), <2>1, <2>2, <2>5, QuietLogs
<1> QED
  BY ZenonT(60), <1>2, <1>3, <1>4

-----------------------------------------------------------------------------
(* The calls of a replica's owner.                                          *)

(* A change that keeps role and term is tame.                               *)
LEMMA KeptTame ==
    ASSUME NEW C, NEW M, NEW s, Sound(C, M, s), NEW t, Kept(s, t)
    PROVE  Tame(s, t)
BY SMTT(60), Numbers DEF Tame, Kept

(* The heartbeat sends what the log holds.                                  *)
LEMMA HeartbeatLogs ==
    ASSUME NEW C, NEW M, Scope(C, M), Types(C, M), NEW p \in Node, Heartbeat(p)
    PROVE  Advance
<1> DEFINE s == node[p]
           Q == other_voters(p, s)
           t == Sent(s, Q)
           sent == SendAppends(p, s, Q)
<1>1. Sound(C, M, s) /\ world \in World
  BY ZenonT(60), Unpacked
<1>2. s.role = "Leader" /\ Update(p, t, sent) /\ elected' = elected
  BY ZenonT(60) DEF Heartbeat
<1>3. Q \in SUBSET Node /\ p \notin Q
  BY ZenonT(60), <1>1, Fields DEF Sound, Scope, other_voters
<1> HIDE DEF Q
<1>4. \A m \in sent : Own(p, s, s.log, m)
  BY ZenonT(60), <1>1, <1>2, <1>3, SendsOwn
<1>5. Sound(C, M, t) /\ Kept(s, t) /\ t.log = s.log /\ t.members = s.members
  BY SMTT(60), <1>1, SentSound
<1> HIDE DEF t, sent
<1>6. Tame(s, t) /\ Trims(s, t)
  BY ZenonT(60), <1>1, <1>5, KeptTame, SameTrims
<1>7. \A m \in sent : Own(p, t, s.log, m)
  BY ZenonT(60), <1>4, <1>5 DEF Own, Kept
<1> QED
  BY ZenonT(60), <1>2, <1>5, <1>6, <1>7, QuietLogs

(* A leader that steps down keeps its log.                                  *)
LEMMA StepDownLogs ==
    ASSUME NEW C, NEW M, Types(C, M), NEW p \in Node, StepDown(p)
    PROVE  Advance
<1> DEFINE s == node[p]
           t == become_follower(s, s.term, None)
<1>1. Sound(C, M, s) /\ s \in ReplicaOf(C, M) /\ s.term \in Nat
  BY ZenonT(60), Unpacked, Numbers DEF Sound
<1>2. Update(p, t, {}) /\ elected' = elected
  BY ZenonT(60) DEF StepDown
<1>3. Sound(C, M, t) /\ t.role = "Follower" /\ t.term = s.term /\ t.log = s.log
  BY SMTT(60), <1>1, FollowerSound
<1>4. t.members = s.members
  BY ZenonT(60), <1>1 DEF become_follower, ReplicaOf
<1> HIDE DEF t
<1>5. Tame(s, t) /\ Trims(s, t)
  BY SMTT(60), <1>1, <1>3, <1>4, SameTrims DEF Tame
<1> QED
  BY ZenonT(60), SMTT(60), <1>2, <1>3, <1>5, QuietLogs

(* A proposal, of a command or of a membership, appends one entry.          *)
LEMMA ProposeLogs ==
    ASSUME NEW C, NEW M, Scope(C, M), Types(C, M), NEW p \in Node, NEW config \in C,
           node[p].role = "Leader", LeaderAppends(p, node[p], config), elected' = elected
    PROVE  Advance
<1>1. Sound(C, M, node[p])
  BY ZenonT(60), Unpacked
<1>2. InOffice(p, node[p])
  BY ZenonT(60) DEF InOffice
<1> QED
  BY ZenonT(60), <1>1, <1>2, LeadLogs

(* A snapshot on demand trims the log.                                      *)
LEMMA TakeSnapshotLogs ==
    ASSUME NEW C, NEW M, Types(C, M), NEW p \in Node, TakeSnapshot(p)
    PROVE  Advance
<1> DEFINE s == node[p]
           t == take_snapshot(s)
<1>1. Sound(C, M, s)
  BY ZenonT(60), Unpacked
<1>2. Update(p, t, {}) /\ elected' = elected
  BY ZenonT(60) DEF TakeSnapshot
<1>3. Sound(C, M, t) /\ Kept(s, t) /\ Trims(s, t)
  BY ZenonT(60), <1>1, TakeSnapshotSound, TakeSnapshotTrims
<1> HIDE DEF t
<1>4. Tame(s, t)
  BY ZenonT(60), <1>1, <1>3, KeptTame
<1> QED
  BY SMTT(60), <1>2, <1>3, <1>4, QuietLogs

(* A restart keeps the log, and reads the membership from it.               *)
LEMMA RestartLogs ==
    ASSUME NEW C, NEW M, Scope(C, M), Types(C, M), NEW p \in Node, Restart(p)
    PROVE  Advance
<1> DEFINE s == node[p]
<1>1. /\ Sound(C, M, s) /\ s.term \in Nat /\ s.voted \in Node \cup {None}
      /\ s.log \in LogOf(C, M) /\ s.applied \in Nat
  BY ZenonT(60), Unpacked, Fields DEF Sound
<1>2. PICK d \in {0, s.applied} : Update(p, Recovered(s.term, s.voted, s.log, d), {})
  BY ZenonT(60) DEF Restart
<1>3. elected' = elected
  BY ZenonT(60) DEF Restart
<1> DEFINE t == Recovered(s.term, s.voted, s.log, d)
<1>4. d \in Nat
  BY SMTT(60), <1>1
<1>5. Sound(C, M, t) /\ t.role = "Follower" /\ t.term = s.term
  BY SMTT(60), <1>1, <1>4, RecoveredSound
<1>6. Update(p, t, {})
  BY ZenonT(60), <1>2
<1>7. t.log = s.log /\ t.members = from_entries(s.log)
  BY ZenonT(60) DEF Recovered
<1> HIDE DEF t
<1>8. Tame(s, t) /\ Trims(s, t)
  BY SMTT(60), <1>1, <1>5, <1>7 DEF Tame, Trims, Coherent
<1> QED
  BY SMTT(60), <1>3, <1>5, <1>6, <1>8, QuietLogs

-----------------------------------------------------------------------------
(* The arrival of a message.                                                *)

(* Votes and acknowledgements lead nobody.                                  *)
LEMMA AnswersLeadNobody ==
    /\ \A kind \in {"PreVoteResponse", "VoteResponse"} : \A p, q, t, g : ~Leads(Vote(kind, p, q, t, g))
    /\ \A p, q, t, ok, i, j, k : ~Leads(AppendAck(p, q, t, ok, i, j, k))
    /\ \A p, q, t, i : ~Leads(SnapshotAck(p, q, t, i))
BY ZenonT(60) DEF Leads, Vote, AppendAck, SnapshotAck

(* A step that only takes over the message's term.                          *)
LEMMA AdoptedLogs ==
    ASSUME NEW C, NEW M, Types(C, M), NEW m \in msgs, NEW t, Sound(C, M, t),
           t.term = Adopted(m).term, t.log = Adopted(m).log, t.members = Adopted(m).members,
           t.role \in {"Candidate", "Leader"} => t.role = Adopted(m).role,
           NEW sent, \A x \in sent : ~Leads(x), Update(m.to, t, sent), elected' = elected
    PROVE  Advance
<1>1. m.to \in Node /\ Adopted(m).log = node[m.to].log
  BY ZenonT(60), AdoptedSound
<1>2. Tame(node[m.to], Adopted(m)) /\ Adopted(m).members = node[m.to].members
  BY ZenonT(60), AdoptedTame
<1>3. Tame(node[m.to], t)
  BY ZenonT(60), <1>2 DEF Tame
<1>4. Trims(node[m.to], t)
  <2>1. t.log = node[m.to].log /\ t.members = node[m.to].members
    BY ZenonT(60), <1>1, <1>2
  <2> QED
    BY ZenonT(60), <2>1, SameTrims
<1> QED
  BY ZenonT(60), <1>1, <1>3, <1>4, QuietLogs

(* A message of an old term.                                                *)
LEMMA RejectStaleLogs ==
    ASSUME NEW C, NEW M, Types(C, M), NEW m \in msgs, RejectStale(m)
    PROVE  Advance
<1> DEFINE p == m.to
           t == node[m.to].term
           a == Vote("PreVoteResponse", m.to, m.from, t, FALSE)
           b == Vote("VoteResponse", m.to, m.from, t, FALSE)
           c == AppendAck(m.to, m.from, t, FALSE, 0, 0, 0)
           sent == CASE m.kind = "PreVoteRequest" -> {a}
                     [] m.kind = "VoteRequest" -> {b}
                     [] Leads(m) -> {c}
                     [] OTHER -> {}
<1>1. p \in Node /\ Sound(C, M, node[p]) /\ t \in Nat
  BY Zenon, AdoptedSound
<1>2. Send(sent) /\ UNCHANGED <<node, elected>>
  BY ZenonT(60) DEF RejectStale
<1>3. \A x \in sent : ~Leads(x)
  <2>1. sent \subseteq {a, b, c}
    <3> HIDE DEF a, b, c
    <3>1. CASE m.kind = "PreVoteRequest"
      BY ZenonT(60), <3>1 DEF Leads
    <3>2. CASE m.kind = "VoteRequest"
      BY ZenonT(60), <3>2 DEF Leads
    <3>3. CASE Leads(m)
      BY ZenonT(60), <3>3 DEF Leads
    <3>4. CASE m.kind # "PreVoteRequest" /\ m.kind # "VoteRequest" /\ ~Leads(m)
      BY ZenonT(60), <3>4
    <3> QED
      BY ZenonT(60), <3>1, <3>2, <3>3, <3>4
  <2>2. ~Leads(a) /\ ~Leads(b) /\ ~Leads(c)
    BY ZenonT(60), AnswersLeadNobody
  <2> HIDE DEF sent, a, b, c
  <2> QED
    BY ZenonT(60), <2>1, <2>2
<1> HIDE DEF sent
<1>4. Update(p, node[p], sent)
  BY ZenonT(60), <1>1, <1>2 DEF Update, Types
<1>5. Tame(node[p], node[p]) /\ Trims(node[p], node[p])
  BY SMTT(60), <1>1, SameTrims DEF Tame
<1> QED
  BY ZenonT(60), <1>1, <1>2, <1>3, <1>4, <1>5, QuietLogs

(* A request for a pre-vote or for a vote.                                  *)
LEMMA VoteRequestLogs ==
    ASSUME NEW C, NEW M, Types(C, M), NEW m \in msgs, HandlePreVoteRequest(m) \/ HandleVoteRequest(m)
    PROVE  Advance
<1> DEFINE p == m.to
           s == Adopted(m)
           t == [s EXCEPT !.voted = m.from]
<1>1. Sound(C, M, s) /\ m.from \in Node
  BY ZenonT(60), AdoptedSound
<1>2. elected' = elected
  BY ZenonT(60) DEF HandlePreVoteRequest, HandleVoteRequest
<1>3. \/ \E g : Update(p, s, {Vote("PreVoteResponse", p, m.from, s.term, g)})
      \/ \E g : Update(p, s, {Vote("VoteResponse", p, m.from, s.term, g)})
      \/ \E g : Update(p, t, {Vote("VoteResponse", p, m.from, s.term, g)})
  BY Zenon DEF HandlePreVoteRequest, HandleVoteRequest
<1>4. s \in ReplicaOf(C, M)
  BY ZenonT(60), <1>1 DEF Sound
<1>5. /\ t \in ReplicaOf(C, M) /\ t.term = s.term /\ t.role = s.role /\ t.log = s.log
      /\ t.members = s.members /\ t.applied = s.applied
  <2> HIDE DEF s
  <2> QED
    BY ZenonT(60), <1>1, <1>4 DEF ReplicaOf
<1>6. Sound(C, M, t)
  BY ZenonT(60), <1>1, <1>5 DEF Sound
<1> HIDE DEF t
<1>a. PICK kind \in {"PreVoteResponse", "VoteResponse"} : \E g :
          Update(p, s, {Vote(kind, p, m.from, s.term, g)}) \/ Update(p, t, {Vote(kind, p, m.from, s.term, g)})
  BY ZenonT(60), <1>3
<1>7. PICK g :
          Update(p, s, {Vote(kind, p, m.from, s.term, g)}) \/ Update(p, t, {Vote(kind, p, m.from, s.term, g)})
  BY ZenonT(60), <1>a
<1> DEFINE sent == {Vote(kind, p, m.from, s.term, g)}
<1>8. \A x \in sent : ~Leads(x)
  BY ZenonT(60), AnswersLeadNobody
<1>9. CASE Update(p, s, sent)
  <2> HIDE DEF sent
  <2> QED
    BY ZenonT(60), <1>1, <1>2, <1>8, <1>9, AdoptedLogs
<1>10. CASE Update(p, t, sent)
  <2> HIDE DEF sent
  <2> QED
    BY ZenonT(60), <1>2, <1>5, <1>6, <1>8, <1>10, AdoptedLogs
<1> QED
  BY ZenonT(60), <1>7, <1>9, <1>10

(* The answer to such a request.                                            *)
LEMMA VoteResponseLogs ==
    ASSUME NEW C, NEW M, Scope(C, M), Types(C, M), NEW m \in msgs, HandleVoteResponse(m)
    PROVE  Advance
<1> DEFINE p == m.to
           s == Adopted(m)
           y == IF m.granted THEN s.yes \cup {m.from} ELSE s.yes \ {m.from}
           n == IF m.granted THEN s.no \ {m.from} ELSE s.no \cup {m.from}
           r == [s EXCEPT !.yes = y, !.no = n]
           f == [r EXCEPT !.role = "Follower", !.yes = {}, !.no = {}]
           lost == is_quorum(r.members, Cardinality(r.no))
<1>1. /\ p \in Node /\ m.from \in Node /\ Sound(C, M, s) /\ node[p].term <= s.term
      /\ s.log = node[p].log
      /\ s # node[p] => s.role = "Follower"
  BY ZenonT(60), AdoptedSound
<1>2. s \in ReplicaOf(C, M) /\ s.yes \in SUBSET Node /\ s.no \in SUBSET Node
  BY ZenonT(60), <1>1, Fields DEF Sound
<1>3. s.members = node[p].members
  BY ZenonT(60), AdoptedTame
<1>4. \/ Update(p, s, {}) /\ elected' = elected
      \/ campaign(p, r)
      \/ s.role = "Candidate" /\ become_leader(p, r)
      \/ Update(p, IF lost THEN f ELSE r, {}) /\ elected' = elected
  <2>1. r = [s EXCEPT !.yes = IF m.granted THEN @ \cup {m.from} ELSE @ \ {m.from},
                      !.no = IF m.granted THEN @ \ {m.from} ELSE @ \cup {m.from}]
    BY ZenonT(60), <1>2 DEF ReplicaOf
  <2> HIDE DEF s, r
  <2> QED
    BY ZenonT(60), <2>1 DEF HandleVoteResponse, s
<1>5. y \in SUBSET Node /\ n \in SUBSET Node
  BY ZenonT(60), <1>1, <1>2
<1>6. CASE Update(p, s, {}) /\ elected' = elected
  BY ZenonT(60), SMTT(60), <1>1, <1>6, AdoptedLogs
<1> HIDE DEF y, n
<1>7. /\ r \in ReplicaOf(C, M) /\ r.term = s.term /\ r.role = s.role
      /\ r.log = s.log /\ r.members = s.members /\ r.applied = s.applied
  <2> HIDE DEF s
  <2>1. r \in ReplicaOf(C, M)
    BY ZenonT(60), <1>2, <1>5 DEF ReplicaOf
  <2> QED
    BY ZenonT(60), <1>2, <2>1 DEF ReplicaOf
<1> HIDE DEF r
<1>8. /\ f \in ReplicaOf(C, M) /\ f.term = r.term /\ f.role = "Follower"
      /\ f.log = r.log /\ f.members = r.members /\ f.applied = r.applied
  <2>1. f \in ReplicaOf(C, M)
    BY ZenonT(60), <1>7 DEF ReplicaOf, Role
  <2> QED
    BY ZenonT(60), <1>7, <2>1 DEF ReplicaOf
<1> HIDE DEF f, lost
<1>9. Sound(C, M, r) /\ Sound(C, M, f)
  BY ZenonT(60), <1>1, <1>7, <1>8 DEF Sound
<1>10. r.log = node[p].log /\ r.members = node[p].members /\ node[p].term <= r.term
  BY ZenonT(60), <1>1, <1>3, <1>7
<1>11. CASE campaign(p, r)
  BY ZenonT(60), <1>1, <1>9, <1>10, <1>11, CampaignLogs
<1>12. CASE s.role = "Candidate" /\ become_leader(p, r)
  <2>1. node[p].role = "Candidate" /\ node[p].term = r.term
    BY ZenonT(60), <1>1, <1>7, <1>12
  <2> QED
    BY ZenonT(60), <1>1, <1>9, <1>10, <1>12, <2>1, BecomeLeaderLogs
<1>13. CASE Update(p, IF lost THEN f ELSE r, {}) /\ elected' = elected
  <2> DEFINE t == IF lost THEN f ELSE r
  <2>1. /\ Sound(C, M, t) /\ t.term = s.term /\ t.log = s.log /\ t.members = s.members
        /\ t.role \in {"Candidate", "Leader"} => t.role = s.role
    BY ZenonT(60), <1>7, <1>8, <1>9
  <2>2. Update(p, t, {})
    BY ZenonT(60), <1>13
  <2> HIDE DEF t
  <2> QED
    BY ZenonT(60), SMTT(60), <1>13, <2>1, <2>2, AdoptedLogs
<1> QED
  BY ZenonT(60), <1>4, <1>6, <1>11, <1>12, <1>13

(* A follower that answers an append without taking it in.                  *)
LEMMA FollowedLogs ==
    ASSUME NEW C, NEW M, Types(C, M), NEW m \in msgs, Leads(m), Current(m),
           NEW sent, \A x \in sent : ~Leads(x), Update(m.to, Following(m), sent), elected' = elected
    PROVE  Advance
<1>1. m.to \in Node /\ Sound(C, M, Following(m))
  BY ZenonT(60), AdoptedSound, FollowingSound
<1>2. /\ Tame(node[m.to], Following(m))
      /\ Following(m).log = node[m.to].log /\ Following(m).members = node[m.to].members
  BY ZenonT(60), FollowingTame
<1>3. Trims(node[m.to], Following(m))
  BY ZenonT(60), <1>2, SameTrims
<1> QED
  BY ZenonT(60), <1>1, <1>2, <1>3, QuietLogs

(* handle_append_entries merges the links of the message into the log.      *)
LEMMA AppendEntriesLogs ==
    ASSUME NEW C, NEW M, Scope(C, M), Types(C, M), NEW m \in msgs, HandleAppendEntries(m)
    PROVE  Advance
<1> DEFINE p == m.to
           s == Following(m)
           prev == m.prev_log_index
           n == prev + Len(m.entries)
<1>1. /\ m.kind = "AppendEntries" /\ Leads(m) /\ Current(m) /\ elected' = elected
      /\ prev \in Nat /\ m.entries \in Seq(EntryOf(C)) /\ m.leader_commit \in Nat
  <2>1. m.kind = "AppendEntries" /\ Current(m) /\ elected' = elected
    BY ZenonT(60) DEF HandleAppendEntries
  <2>2. prev \in Nat /\ m.entries \in Seq(EntryOf(C)) /\ m.leader_commit \in Nat
    BY ZenonT(60), <2>1, Unpacked DEF Typed
  <2> QED
    BY ZenonT(60), <2>1, <2>2 DEF Leads
<1>2. /\ Sound(C, M, s) /\ Tame(node[p], s) /\ s.log = node[p].log /\ s.members = node[p].members
      /\ s.role = "Leader" => s.term = m.term
  BY ZenonT(60), <1>1, FollowingSound, FollowingTame
<1>3. \/ \E ok, i, j, k : Update(p, s, {AppendAck(p, m.from, s.term, ok, i, j, k)})
      \/ PrevAgrees(s.log, m) /\ Update(p, Accept(s, m), {AppendAck(p, m.from, s.term, TRUE, n, 0, 0)})
  BY ZenonT(60) DEF HandleAppendEntries
<1>4. CASE \E ok, i, j, k : Update(p, s, {AppendAck(p, m.from, s.term, ok, i, j, k)})
  <2>1. PICK ok, i, j, k : Update(p, s, {AppendAck(p, m.from, s.term, ok, i, j, k)})
    BY ZenonT(60), <1>4
  <2> DEFINE sent == {AppendAck(p, m.from, s.term, ok, i, j, k)}
  <2>2. \A x \in sent : ~Leads(x)
    BY ZenonT(60), AnswersLeadNobody
  <2>3. Update(p, s, sent)
    BY ZenonT(60), <2>1
  <2> HIDE DEF sent
  <2> QED
    BY ZenonT(60), <1>1, <2>2, <2>3, FollowedLogs
<1>5. CASE PrevAgrees(s.log, m) /\ Update(p, Accept(s, m), {AppendAck(p, m.from, s.term, TRUE, n, 0, 0)})
  <2> DEFINE sent == {AppendAck(p, m.from, s.term, TRUE, n, 0, 0)}
             t == Accept(s, m)
  <2>1. \A x \in sent : ~Leads(x)
    BY ZenonT(60), AnswersLeadNobody
  <2>2. Update(p, t, sent)
    BY ZenonT(60), <1>5
  <2> HIDE DEF sent, s
  <2>3. Sound(C, M, t) /\ Kept(s, t)
    BY ZenonT(60), <1>1, <1>2, <1>5, AcceptSound DEF PrevAgrees
  <2>4. LinksOf(t.log) \subseteq LinksOf(s.log) \cup Carried(m) /\ (Coherent(s) => Coherent(t))
    BY ZenonT(60), <1>1, <1>2, <1>5, AcceptLinks
  <2> HIDE DEF t
  <2>5. Tame(node[p], t) /\ (t.role = "Leader" => t.term = m.term)
    BY ZenonT(60), <1>2, <2>3, TameKept DEF Kept
  <2>6. LinksOf(t.log) \subseteq LinksOf(node[p].log) \cup Carried(m) /\ (Coherent(node[p]) => Coherent(t))
    BY ZenonT(60), <1>2, <2>4 DEF Coherent
  <2> QED
    BY ZenonT(60), <1>1, <2>1, <2>2, <2>3, <2>5, <2>6, TakenLogs
<1> QED
  BY ZenonT(60), <1>3, <1>4, <1>5

(* handle_install_snapshot keeps the log or empties it.                     *)
LEMMA InstallSnapshotLogs ==
    ASSUME NEW C, NEW M, Scope(C, M), Types(C, M), NEW m \in msgs, HandleInstallSnapshot(m)
    PROVE  Advance
<1> DEFINE p == m.to
           s == Following(m)
           b == m.snapshot
           Ack(i) == {SnapshotAck(p, m.from, s.term, i)}
<1>1. m.kind = "InstallSnapshot" /\ Leads(m) /\ Current(m) /\ elected' = elected /\ b \in BaseOf(M)
  <2>1. m.kind = "InstallSnapshot" /\ Current(m) /\ elected' = elected
    BY ZenonT(60) DEF HandleInstallSnapshot
  <2>2. b \in BaseOf(M)
    BY ZenonT(60), <2>1, Unpacked DEF Typed
  <2> QED
    BY ZenonT(60), <2>1, <2>2 DEF Leads
<1>2. /\ Sound(C, M, s) /\ Tame(node[p], s)
      /\ s.role = "Leader" => s.term = m.term
  BY ZenonT(60), <1>1, FollowingSound, FollowingTame
<1>3. Update(p, s, Ack(last_index(s.log))) \/ Update(p, Installed(s, b), Ack(b.index))
  BY ZenonT(60) DEF HandleInstallSnapshot
<1>4. \A i : \A x \in Ack(i) : ~Leads(x)
  BY ZenonT(60), AnswersLeadNobody
<1> HIDE DEF Ack
<1>5. CASE Update(p, s, Ack(last_index(s.log)))
  BY ZenonT(60), <1>1, <1>4, <1>5, FollowedLogs
<1> HIDE DEF s
<1>6. CASE Update(p, Installed(s, b), Ack(b.index))
  <2> DEFINE t == Installed(s, b)
  <2>1. Sound(C, M, t) /\ Kept(s, t) /\ LinksOf(t.log) = {} /\ Coherent(t)
    BY ZenonT(60), <1>1, <1>2, InstalledSound, InstalledLinks
  <2>2. Update(p, t, Ack(b.index))
    BY ZenonT(60), <1>6
  <2> HIDE DEF t
  <2>3. Tame(node[p], t) /\ (t.role = "Leader" => t.term = m.term)
    BY ZenonT(60), <1>2, <2>1, TameKept DEF Kept
  <2>4. LinksOf(t.log) \subseteq LinksOf(node[p].log) \cup Carried(m)
    BY ZenonT(60), <2>1
  <2> QED
    BY ZenonT(60), <1>1, <1>4, <2>1, <2>2, <2>3, <2>4, TakenLogs
<1> QED
  BY ZenonT(60), <1>3, <1>5, <1>6

(* A leader that takes in an answer sends what its log holds.               *)
LEMMA AnsweredLogs ==
    ASSUME NEW C, NEW M, Types(C, M), NEW p \in Node, node[p].role = "Leader",
           NEW b, Sound(C, M, b), Kept(node[p], b), Trims(node[p], b),
           NEW Q \in SUBSET Node, p \notin Q, NEW sent, sent \subseteq SendAppends(p, b, Q),
           Update(p, Sent(b, Q), sent), elected' = elected
    PROVE  Advance
<1> DEFINE t == Sent(b, Q)
<1>1. Sound(C, M, t) /\ Kept(b, t) /\ t.log = b.log /\ t.members = b.members
  BY ZenonT(60), SMTT(60), SentSound
<1>2. b.role = "Leader" /\ world \in World
  BY Zenon, Unpacked DEF Kept
<1>3. \A m \in sent : Own(p, b, b.log, m)
  BY ZenonT(60), <1>2, SendsOwn
<1> HIDE DEF t
<1>4. Kept(node[p], t)
  BY ZenonT(60), <1>1 DEF Kept
<1>5. Tame(node[p], t)
  BY ZenonT(60), <1>4, KeptTame, Unpacked
<1>6. Trims(node[p], t)
  BY ZenonT(60), <1>1, SameTrims, TrimsAgain
<1>7. \A m \in sent : Own(p, t, node[p].log, m)
  BY ZenonT(60), <1>1, <1>3 DEF Own, Kept, Trims
<1> QED
  BY ZenonT(60), <1>1, <1>5, <1>6, <1>7, QuietLogs DEF t

(* Counting an acknowledgement trims the log at most.                       *)
LEMMA AcknowledgedTrims ==
    ASSUME NEW C, NEW M, NEW p, NEW s, Sound(C, M, s), NEW q \in Node, NEW i \in Nat
    PROVE  LET b == Commit(p, Acknowledged(s, q, i))
           IN  Sound(C, M, b) /\ Kept(s, b) /\ Trims(s, b)
<1> DEFINE a == Acknowledged(s, q, i)
           b == Commit(p, a)
<1>1. Sound(C, M, a) /\ Kept(s, a)
  BY ZenonT(60), AcknowledgedSound
<1>2. a.log = s.log /\ a.members = s.members
  BY ZenonT(60) DEF Acknowledged, Sound, ReplicaOf
<1> HIDE DEF a
<1>3. Sound(C, M, b) /\ Kept(a, b) /\ Trims(a, b)
  BY ZenonT(60), <1>1, CommitSound, CommitTrims
<1> HIDE DEF b
<1>4. Kept(s, b) /\ Trims(s, b)
  BY ZenonT(60), <1>1, <1>2, <1>3, SameTrims, TrimsAgain DEF Kept
<1> QED
  BY ZenonT(60), <1>3, <1>4 DEF b, a

(* An answer that counts is one to a leader, which has not changed.         *)
LEMMA AnswersToLeader ==
    ASSUME NEW C, NEW M, Types(C, M), NEW m \in msgs, Answers(m, Adopted(m))
    PROVE  /\ m.to \in Node /\ m.from \in Node /\ Sound(C, M, node[m.to]) /\ Adopted(m) = node[m.to]
           /\ node[m.to].role = "Leader" /\ m.to # m.from
<1>1. /\ m.to \in Node /\ m.from \in Node /\ Sound(C, M, node[m.to])
      /\ Adopted(m) # node[m.to] => Adopted(m).role = "Follower"
  BY ZenonT(60), AdoptedSound
<1> QED
  BY ZenonT(60), <1>1 DEF Answers, other_voters

(* handle_append_response.                                                  *)
LEMMA AppendResponseLogs ==
    ASSUME NEW C, NEW M, Scope(C, M), Types(C, M), NEW m \in msgs, HandleAppendResponse(m)
    PROVE  Advance
<1> DEFINE p == m.to
           s == Adopted(m)
           a == Acknowledged(s, m.from, m.match_index)
           b == Commit(p, a)
           peers == IF a.next[m.from] <= last_index(a.log) THEN {m.from} ELSE {}
           r == Rejected(s, m)
<1>1. /\ elected' = elected /\ m.kind = "AppendEntriesResponse"
      /\ \/ Update(p, s, {})
         \/ Answers(m, s) /\ Update(p, Sent(b, peers), SendAppends(p, b, peers))
         \/ Answers(m, s) /\ Update(p, Sent(r, {m.from}), SendAppend(p, r, m.from))
  BY ZenonT(60) DEF HandleAppendResponse
<1>2. m.match_index \in Nat /\ m.conflict_index \in Nat
  BY ZenonT(60), <1>1, Unpacked DEF Typed
<1>3. CASE Update(p, s, {})
  <2>1. Sound(C, M, s)
    BY ZenonT(60), AdoptedSound
  <2> QED
    BY ZenonT(60), SMTT(60), <1>1, <1>3, <2>1, AdoptedLogs
<1>4. ASSUME Answers(m, s)
      PROVE  /\ p \in Node /\ m.from \in Node /\ Sound(C, M, s) /\ s = node[p]
             /\ node[p].role = "Leader" /\ p # m.from
  BY ZenonT(60), <1>4, AnswersToLeader
<1> HIDE DEF s
<1>5. CASE Answers(m, s) /\ Update(p, Sent(b, peers), SendAppends(p, b, peers))
  <2>1. peers \in SUBSET Node /\ p \notin peers
    BY ZenonT(60), <1>4, <1>5
  <2> HIDE DEF peers
  <2>2. Sound(C, M, b) /\ Kept(s, b) /\ Trims(s, b)
    BY ZenonT(60), <1>2, <1>4, <1>5, AcknowledgedTrims
  <2> HIDE DEF b
  <2> QED
    BY ZenonT(60), <1>1, <1>4, <1>5, <2>1, <2>2, AnsweredLogs
<1>6. CASE Answers(m, s) /\ Update(p, Sent(r, {m.from}), SendAppend(p, r, m.from))
  <2>1. {m.from} \in SUBSET Node /\ p \notin {m.from}
    BY ZenonT(60), <1>4, <1>6
  <2>2. Sound(C, M, r) /\ Kept(s, r)
    BY ZenonT(60), <1>2, <1>4, <1>6, RejectedSound
  <2>3. r.log = s.log /\ r.members = s.members
    BY ZenonT(60), <1>4, <1>6 DEF Rejected, Sound, ReplicaOf
  <2> HIDE DEF r
  <2>4. Trims(s, r)
    BY ZenonT(60), <2>3, SameTrims
  <2>5. SendAppend(p, r, m.from) \subseteq SendAppends(p, r, {m.from})
    BY ZenonT(60) DEF SendAppends
  <2> QED
    BY ZenonT(60), <1>1, <1>4, <1>6, <2>1, <2>2, <2>4, <2>5, AnsweredLogs
<1> QED
  BY ZenonT(60), <1>1, <1>3, <1>5, <1>6

(* handle_install_snapshot_response.                                        *)
LEMMA InstallSnapshotResponseLogs ==
    ASSUME NEW C, NEW M, Scope(C, M), Types(C, M), NEW m \in msgs, HandleInstallSnapshotResponse(m)
    PROVE  Advance
<1> DEFINE p == m.to
           s == Adopted(m)
           b == Commit(p, Acknowledged(s, m.from, m.last_index))
<1>1. /\ elected' = elected /\ m.kind = "InstallSnapshotResponse"
      /\ \/ Update(p, s, {})
         \/ Answers(m, s) /\ Update(p, Sent(b, {m.from}), SendAppend(p, b, m.from))
  BY ZenonT(60) DEF HandleInstallSnapshotResponse
<1>2. m.last_index \in Nat
  BY ZenonT(60), <1>1, Unpacked DEF Typed
<1>3. CASE Update(p, s, {})
  <2>1. Sound(C, M, s)
    BY ZenonT(60), AdoptedSound
  <2> QED
    BY SMTT(60), <1>1, <1>3, <2>1, AdoptedLogs
<1>4. CASE Answers(m, s) /\ Update(p, Sent(b, {m.from}), SendAppend(p, b, m.from))
  <2>1. /\ p \in Node /\ m.from \in Node /\ Sound(C, M, s) /\ s = node[p]
        /\ node[p].role = "Leader" /\ p # m.from
    BY ZenonT(60), <1>4, AnswersToLeader
  <2> HIDE DEF s
  <2>2. Sound(C, M, b) /\ Kept(s, b) /\ Trims(s, b)
    BY ZenonT(60), <1>2, <2>1, AcknowledgedTrims
  <2> HIDE DEF b
  <2>3. {m.from} \in SUBSET Node /\ p \notin {m.from}
    BY ZenonT(60), <2>1
  <2>4. SendAppend(p, b, m.from) \subseteq SendAppends(p, b, {m.from})
    BY ZenonT(60) DEF SendAppends
  <2> QED
    BY ZenonT(60), <1>1, <1>4, <2>1, <2>2, <2>3, <2>4, AnsweredLogs
<1> QED
  BY ZenonT(60), <1>1, <1>3, <1>4

-----------------------------------------------------------------------------
(* The theorems.                                                            *)

(* Every step of the cluster is a step of one replica of that kind.         *)
LEMMA NextAdvances ==
    ASSUME NEW C, NEW M, Covers(C, M), Types(C, M), Next
    PROVE  Advance
<1>0. Scope(C, M)
  BY ZenonT(60) DEF Covers
<1>1. ASSUME NEW m \in msgs, Receive(m) PROVE Advance
  BY ZenonT(60), <1>0, <1>1, RejectStaleLogs, VoteRequestLogs, VoteResponseLogs, AppendEntriesLogs,
     AppendResponseLogs, InstallSnapshotLogs, InstallSnapshotResponseLogs
  DEF Receive
<1>2. ASSUME NEW p \in Node, Call(p) PROVE Advance
  <2>1. ASSUME Propose(p) PROVE Advance
    <3>1. {} \in C /\ node[p].role = "Leader" /\ LeaderAppends(p, node[p], {}) /\ elected' = elected
      BY ZenonT(60), <1>0, <2>1 DEF Scope, Propose
    <3> QED
      BY ZenonT(60), <1>0, <3>1, ProposeLogs
  <2>2. ASSUME ProposeMembership(p) PROVE Advance
    <3>1. /\ node[p].role = "Leader" /\ elected' = elected /\ world.reconfigures
          /\ \E config \in Changes(node[p].members) : LeaderAppends(p, node[p], config)
      BY ZenonT(60), <2>2 DEF ProposeMembership
    <3>2. PICK config \in Changes(node[p].members) : LeaderAppends(p, node[p], config)
      BY ZenonT(60), <3>1
    <3>3. world \in Worlds /\ Sound(C, M, node[p])
      BY ZenonT(60), Unpacked
    <3>4. node[p].members \in SUBSET Node
      BY ZenonT(60), <1>0, <3>3, Fields DEF Sound, Scope
    <3>5. config \in SUBSET Node
      BY ZenonT(60), <3>2, <3>4 DEF Changes
    <3>6. config \in C
      BY ZenonT(60), <3>1, <3>3, <3>5 DEF Covers
    <3> QED
      BY ZenonT(60), <1>0, <3>1, <3>2, <3>6, ProposeLogs
  <2> QED
    BY ZenonT(60), <1>0, <1>2, <2>1, <2>2, TimeoutLogs, HeartbeatLogs, StepDownLogs, TakeSnapshotLogs,
       RestartLogs
    DEF Call
<1> QED
  BY ZenonT(60), <1>1, <1>2 DEF Next

(* What IInv says of types, whatever the memberships.                       *)
LEMMA AllCovered == Covers(SUBSET Node, SUBSET Node)
<1>1. \A w \in Worlds : w.voters \in SUBSET Node
  BY ZenonT(60), RaftAssumption DEF World
<1> QED
  BY ZenonT(60), <1>1 DEF Covers, Scope

(* MembershipFollowsLog, for every cluster and deployment: after every      *)
(* proposal, truncation (recompute_membership), compaction, installed        *)
(* snapshot and restart, the membership in force is the log's.               *)
THEOREM MembershipAlwaysFollowsLog == Spec => []MembershipFollowsLog
<1> DEFINE I == IInv(SUBSET Node, SUBSET Node)
<1>1. Init => MembershipFollowsLog
  <2> SUFFICES ASSUME Init, NEW p \in Node
               PROVE  node[p].members = from_entries(node[p].log)
    BY ZenonT(60) DEF MembershipFollowsLog
  <2>1. node[p] = Recovered(0, None, EmptyLog(p), 0)
    BY ZenonT(60) DEF Init
  <2> QED
    BY ZenonT(60), SMTT(60), <2>1 DEF Recovered
<1>2. I /\ MembershipFollowsLog /\ [Next]_vars => MembershipFollowsLog'
  <2> SUFFICES ASSUME I, MembershipFollowsLog, [Next]_vars
               PROVE  MembershipFollowsLog'
    BY ZenonT(60)
  <2>1. Types(SUBSET Node, SUBSET Node)
    BY ZenonT(60) DEF IInv
  <2>2. CASE Next
    BY ZenonT(60), <2>1, <2>2, AllCovered, NextAdvances, AdvanceKeeps
  <2>3. CASE UNCHANGED vars
    BY ZenonT(60), <2>3 DEF vars, MembershipFollowsLog
  <2> QED
    BY ZenonT(60), <2>2, <2>3
<1>3. Spec => []I
  BY ZenonT(60), Inductive
<1> HIDE DEF I
<1> QED
  BY <1>1, <1>2, <1>3, PTL DEF Spec

(* The logs begin empty.                                                    *)
LEMMA ReplicatedInitially ==
    ASSUME Init
    PROVE  Replicated
<1>1. ASSUME NEW p \in Node
      PROVE  LinksOf(node[p].log) = {} /\ node[p].role = "Follower"
  <2>1. node[p] = Recovered(0, None, EmptyLog(p), 0)
    BY ZenonT(60) DEF Init
  <2>2. node[p].log = EmptyLog(p) /\ node[p].role = "Follower"
    BY ZenonT(60), SMTT(60), <2>1 DEF Recovered
  <2> DEFINE l == node[p].log
  <2>3. l.base.index = 0 /\ l.ents = <<>>
    BY SMTT(60), <2>2 DEF EmptyLog
  <2> HIDE DEF l
  <2>4. first_index(l) = 1 /\ last_index(l) = 0
    BY SMTT(60), <2>3 DEF first_index, last_index
  <2>5. LinksOf(l) = {}
    BY SMTT(60), <2>4 DEF LinksOf
  <2> QED
    BY ZenonT(60), <2>2, <2>5 DEF l
<1>2. msgs = {} /\ elected = {}
  BY ZenonT(60) DEF Init
<1>3. \A x \in Links : FALSE
  BY ZenonT(60), <1>1, <1>2, LinkIsHeld
<1> QED
  BY ZenonT(60), <1>1, <1>2, <1>3 DEF Replicated, Functional, OnRecord, SentByLeaders

(* While elections are safe, the logs are replicas of what leaders wrote:   *)
(* index and term determine an entry and the term before it.                 *)
THEOREM LogsReplicated == Spec /\ []ElectionSafety => []Replicated
<1> DEFINE I == IInv(SUBSET Node, SUBSET Node)
<1>1. Init => Replicated
  BY ZenonT(60), ReplicatedInitially
<1>2. I /\ ElectionSafety /\ ElectionSafety' /\ Replicated /\ [Next]_vars => Replicated'
  <2> SUFFICES ASSUME I, ElectionSafety, ElectionSafety', Replicated, [Next]_vars
               PROVE  Replicated'
    BY ZenonT(60)
  <2>1. Types(SUBSET Node, SUBSET Node)
    BY ZenonT(60) DEF IInv
  <2>2. CASE Next
    BY ZenonT(60), <2>1, <2>2, AllCovered, NextAdvances, AdvanceKeeps
  <2>3. CASE UNCHANGED vars
    <3>1. node' = node /\ msgs' = msgs /\ elected' = elected
      BY ZenonT(60), <2>3 DEF vars
    <3>2. Links' = Links
      BY ZenonT(60), <3>1 DEF Links
    <3> QED
      BY ZenonT(60), <3>1, <3>2 DEF Replicated, Functional, Owned, OnRecord, SentByLeaders
  <2> QED
    BY ZenonT(60), <2>2, <2>3
<1>3. Spec => []I
  BY ZenonT(60), Inductive
<1> HIDE DEF I
<1> QED
  BY <1>1, <1>2, <1>3, PTL DEF Spec

(* Two logs whose links agree match below an entry they share.              *)
LEMMA LinksMatch ==
    ASSUME NEW C, NEW M, NEW k \in LogOf(C, M), NEW l \in LogOf(C, M),
           \A x \in LinksOf(k), y \in LinksOf(l) :
               x.index = y.index /\ x.entry.term = y.entry.term => x = y,
           NEW i \in first_index(k) .. last_index(k), i \in first_index(l) .. last_index(l),
           term_at(k, i) = term_at(l, i),
           NEW j \in first_index(k) .. last_index(k), j \in first_index(l) .. last_index(l), j <= i
    PROVE  entry(k, j) = entry(l, j)
<1> DEFINE In(n) == n \in first_index(k) .. last_index(k) /\ n \in first_index(l) .. last_index(l)
           B == {n \in 1 .. i : In(n) /\ entry(k, n) # entry(l, n)}
<1>1. /\ first_index(k) \in Nat /\ last_index(k) \in Nat /\ first_index(l) \in Nat /\ last_index(l) \in Nat
      /\ i \in Nat \ {0} /\ j \in Nat \ {0}
  BY ZenonT(60), LogFields, EntryAt
(* Entries of the same term at the same index come after the same term.     *)
<1>2. ASSUME NEW n, In(n), entry(k, n).term = entry(l, n).term
      PROVE  entry(k, n) = entry(l, n) /\ term_at(k, n - 1) = term_at(l, n - 1)
  <2> DEFINE x == Link(n, entry(k, n), term_at(k, n - 1))
             y == Link(n, entry(l, n), term_at(l, n - 1))
  <2>1. x \in LinksOf(k) /\ y \in LinksOf(l)
    BY ZenonT(60), <1>2 DEF LinksOf
  <2>2. /\ x.index = n /\ x.entry = entry(k, n) /\ x.before = term_at(k, n - 1)
        /\ y.index = n /\ y.entry = entry(l, n) /\ y.before = term_at(l, n - 1)
    BY ZenonT(60) DEF Link
  <2> HIDE DEF x, y
  <2>3. x = y
    BY ZenonT(60), <1>2, <2>1, <2>2
  <2> QED
    BY ZenonT(60), <2>2, <2>3
<1>3. \A n : In(n) => term_at(k, n) = entry(k, n).term /\ term_at(l, n) = entry(l, n).term
  BY SMTT(60), EntryAt
<1>4. ASSUME B # {}
      PROVE  FALSE
  <2>1. PICK g \in B : \A n \in B : n <= g
    BY ZenonT(60), <1>1, <1>4, GreatestExists
  <2>2. g \in 1 .. i /\ In(g) /\ entry(k, g) # entry(l, g)
    BY ZenonT(60)
  <2>3. CASE g = i
    BY ZenonT(60), <1>2, <1>3, <2>2, <2>3
  <2>4. CASE g # i
    <3> DEFINE h == g + 1
    <3>1. h \in 1 .. i /\ In(h) /\ h - 1 = g /\ ~(h <= g)
      BY SMTT(60), <1>1, <2>2, <2>4
    <3> HIDE DEF h
    <3>2. entry(k, h) = entry(l, h)
      BY ZenonT(60), <2>1, <3>1
    <3>3. term_at(k, g) = term_at(l, g)
      BY ZenonT(60), <1>2, <3>1, <3>2
    <3> QED
      BY ZenonT(60), <1>2, <1>3, <2>2, <3>3
  <2> QED
    BY ZenonT(60), <2>3, <2>4
<1>5. j \in 1 .. i /\ In(j)
  BY SMTT(60), <1>1
<1> QED
  BY ZenonT(60), <1>4, <1>5

(* Replicas match.                                                          *)
LEMMA ReplicasMatch ==
    ASSUME NEW C, NEW M, Types(C, M), Replicated
    PROVE  LogMatching
<1> SUFFICES ASSUME NEW p \in Node, NEW q \in Node
             PROVE  LET k == node[p].log
                        l == node[q].log
                        both == {i \in 1 .. last_index(k) : i >= first_index(k) /\ Held(l, i) /\ i >= first_index(l)}
                    IN  \A i \in both : term_at(k, i) = term_at(l, i)
                          => \A j \in both : j <= i => entry(k, j) = entry(l, j)
  BY ZenonT(60) DEF LogMatching
<1> DEFINE k == node[p].log
           l == node[q].log
           both == {i \in 1 .. last_index(k) : i >= first_index(k) /\ Held(l, i) /\ i >= first_index(l)}
<1>1. k \in LogOf(C, M) /\ l \in LogOf(C, M)
  BY ZenonT(60), Unpacked, Fields DEF Sound
<1>2. \A x \in LinksOf(k), y \in LinksOf(l) : x.index = y.index /\ x.entry.term = y.entry.term => x = y
  BY ZenonT(60), HeldIsLink DEF Replicated, Functional
<1> HIDE DEF k, l
<1>3. /\ first_index(k) \in Nat /\ last_index(k) \in Nat /\ first_index(l) \in Nat /\ last_index(l) \in Nat
      /\ l.base.index \in Nat
  BY ZenonT(60), <1>1, LogFields
<1>4. \A i \in both : i \in first_index(k) .. last_index(k) /\ i \in first_index(l) .. last_index(l)
  BY SMTT(60), <1>3 DEF Held
<1> HIDE DEF both
<1>5. ASSUME NEW i \in both, NEW j \in both, term_at(k, i) = term_at(l, i), j <= i
      PROVE  entry(k, j) = entry(l, j)
  <2>1. /\ i \in first_index(k) .. last_index(k) /\ i \in first_index(l) .. last_index(l)
        /\ j \in first_index(k) .. last_index(k) /\ j \in first_index(l) .. last_index(l)
    BY ZenonT(60), <1>4
  <2> QED
    BY SMTT(60), <1>1, <1>2, <1>5, <2>1, LinksMatch
<1> QED
  BY ZenonT(60), <1>5 DEF both, k, l

(* Log Matching, for every cluster and deployment, as long as no term has   *)
(* two leaders.                                                              *)
THEOREM LogsMatchUnderElectionSafety == Spec /\ []ElectionSafety => []LogMatching
<1> DEFINE I == IInv(SUBSET Node, SUBSET Node)
<1>1. I /\ Replicated => LogMatching
  BY ZenonT(60), ReplicasMatch DEF IInv
<1>2. Spec => []I
  BY ZenonT(60), Inductive
<1> HIDE DEF I
<1> QED
  BY <1>1, <1>2, LogsReplicated, PTL

(* Log Matching for every cluster of a fixed membership, of any size: logs  *)
(* that share an entry of one index and term share all before it, through    *)
(* conflicts, truncations, compactions, installed snapshots and restarts.    *)
THEOREM LogsAlwaysMatch ==
    ASSUME \A w \in Worlds : w.voters = Node /\ ~w.reconfigures
    PROVE  Spec => []LogMatching
<1>1. Spec => []ElectionSafety
  BY ZenonT(60), OneLeaderPerTerm
<1> QED
  BY <1>1, LogsMatchUnderElectionSafety, PTL
=============================================================================
