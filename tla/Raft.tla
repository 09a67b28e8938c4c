-------------------------------- MODULE Raft --------------------------------
(***************************************************************************)
(* The consensus core of astrs-raft: elections with pre-vote, replication,  *)
(* commitment, snapshots, single-server membership changes and restarts.     *)
(*                                                                           *)
(* One action is one call into RaftNode (tick, step, propose, ...) together  *)
(* with the flush that follows it: the driver hands every message of a call  *)
(* to the network before it makes the next one, and the store has saved the  *)
(* term, the vote and the entries before the call returns.  A crash inside a *)
(* call is a call whose messages are all lost.                               *)
(*                                                                           *)
(* msgs only grows.  A message may be delivered any number of times, in any  *)
(* order, long after it was sent, or never.                                  *)
(*                                                                           *)
(* Tick counters are left out.  Every replica counts its own ticks, so from  *)
(* any state its election timeout may expire before anything else happens:   *)
(* a timeout is an action that is always enabled.                            *)
(***************************************************************************)
EXTENDS Integers, Sequences, FiniteSets

CONSTANTS
    Node,     \* every peer that may ever be a member
    Worlds    \* the deployments considered

(* A deployment: the cluster's RaftConfig, what its callers do, and bounds   *)
(* on what the environment does to it.                                       *)
World ==
    [voters:       SUBSET Node \ {{}},    \* the configured peers: the initial membership
     pre_vote:     BOOLEAN,
     max_append:   Nat \ {0},             \* max_entries_per_append
     threshold:    Nat,                   \* snapshot_threshold; 0 disables compaction
     snapshots:    BOOLEAN,               \* whether callers request snapshots
     reconfigures: BOOLEAN,               \* whether callers propose membership changes
     stand:        Seq(SUBSET Node),      \* bound: stand[t] is who may campaign for term t
     ticking:      SUBSET Node,           \* bound: whose ticks are seen while they lead
     crashing:     SUBSET Node,           \* bound: who may crash
     link:         SUBSET (Node \X Node), \* bound: the pairs whose messages are not always lost
     max_index:    Nat]                   \* bound: no proposal once a log is this long

ASSUME RaftAssumption ==
    IsFiniteSet(Node) /\ "none" \notin Node /\ Worlds \subseteq World

VARIABLES
    world,    \* the deployment, chosen at the start
    node,     \* the replicas
    msgs,     \* every message ever sent
    ballot,   \* history: every vote cast, as <<voter, term, candidate>>
    elected,  \* history: every leader, as <<term, leader>>
    decided   \* history: the entries leaders committed, with the term of the first to do so

vars == <<world, node, msgs, ballot, elected, decided>>

None == "none"

-----------------------------------------------------------------------------
(* The log store.  base is the snapshot the log is compacted against (index *)
(* 0 if there is none); an entry is its term and, for a configuration entry, *)
(* the new membership.  A command and a no-op both have config = {}.         *)

Entry == [term: Nat, config: SUBSET Node]
Base  == [index: Nat, term: Nat, members: SUBSET Node]
Log   == [base: Base, ents: Seq(Entry)]

first_index(l) == l.base.index + 1
last_index(l)  == l.base.index + Len(l.ents)
last_term(l)   == IF l.ents = <<>> THEN l.base.term ELSE l.ents[Len(l.ents)].term

(* term_at is Some(_) on exactly these indices.                             *)
Held(l, i)    == i = 0 \/ i \in l.base.index .. last_index(l)
entry(l, i)   == l.ents[i - l.base.index]
term_at(l, i) == IF i = 0 THEN 0
                 ELSE IF i = l.base.index THEN l.base.term ELSE entry(l, i).term

append(l, es) == [l EXCEPT !.ents = @ \o es]
truncate_from(l, i) == [l EXCEPT !.ents = SubSeq(@, 1, i - 1 - l.base.index)]

(* Up to world.max_append entries from index i on.                                 *)
entries(l, i) ==
    LET from == i - l.base.index
        upto == IF Len(l.ents) < from + world.max_append - 1 THEN Len(l.ents) ELSE from + world.max_append - 1
    IN  SubSeq(l.ents, from, upto)

(* save_snapshot keeps what follows the boundary.                           *)
save_snapshot(l, b) == [base |-> b, ents |-> SubSeq(l.ents, b.index - l.base.index + 1, Len(l.ents))]

(* Membership::from_entries: the last configuration in the log, else the    *)
(* snapshot's (or the configured) one.                                       *)
from_entries(l) ==
    LET config == {i \in 1 .. Len(l.ents) : l.ents[i].config # {}}
    IN  IF config = {} THEN l.base.members
        ELSE l.ents[CHOOSE i \in config : \A j \in config : j <= i].config

(* recompute_membership: the last configuration entry, if it is in flight.  *)
in_flight(l, commit) ==
    LET config == {i \in 1 .. Len(l.ents) : l.ents[i].config # {}}
        last == CHOOSE i \in config : \A j \in config : j <= i
    IN  IF config # {} /\ l.base.index + last > commit THEN l.base.index + last ELSE 0

(* Mutated form: half of the members are enough.                            *)
quorum_half(members) == (Cardinality(members) + 1) \div 2

quorum(members) == (Cardinality(members) \div 2) + 1
is_quorum(members, n) == members # {} /\ n >= quorum(members)

-----------------------------------------------------------------------------
(* One replica.                                                             *)

Role == {"Follower", "PreCandidate", "Candidate", "Leader"}

Replica ==
    [role: Role, term: Nat, voted: Node \cup {None}, leader: Node \cup {None},
     log: Log, commit: Nat, applied: Nat, members: SUBSET Node, pending: Nat,
     next: [Node -> Nat], match: [Node -> Nat],      \* Progress, of the members
     yes: SUBSET Node, no: SUBSET Node]              \* votes

Zero == [q \in Node |-> 0]

(* RaftNode::new over the store l, under term and vote t and v, with a state *)
(* machine that reports applied_index d.                                     *)
Recovered(t, v, l, d) ==
    LET upto == IF d > l.base.index THEN d ELSE l.base.index
    IN  [role |-> "Follower", term |-> t, voted |-> v, leader |-> None, log |-> l,
         commit |-> upto, applied |-> upto,
         members |-> from_entries(l), pending |-> in_flight(l, upto),
         next |-> Zero, match |-> Zero, yes |-> {}, no |-> {}]

(* A peer that joins later is configured with itself among the peers: the  *)
(* configuration is refused otherwise.                                       *)
EmptyLog(p) == [base |-> [index |-> 0, term |-> 0, members |-> world.voters \cup {p}], ents |-> <<>>]

Init ==
    /\ world \in Worlds
    /\ node = [p \in Node |-> Recovered(0, None, EmptyLog(p), 0)]
    /\ msgs = {} /\ ballot = {} /\ elected = {} /\ decided = {}

become_follower(s, t, l) ==
    [s EXCEPT !.term = t, !.voted = IF t = s.term THEN @ ELSE None,
              !.role = "Follower", !.leader = l,
              !.next = Zero, !.match = Zero, !.yes = {}, !.no = {}]

is_log_up_to_date(s, i, t) ==
    \/ t > last_term(s.log)
    \/ t = last_term(s.log) /\ i >= last_index(s.log)

other_voters(p, s) == s.members \ {p}

-----------------------------------------------------------------------------
(* Messages.                                                                *)

Request(kind, p, q, t, l) ==
    [kind |-> kind, from |-> p, to |-> q, term |-> t,
     last_log_index |-> last_index(l), last_log_term |-> last_term(l)]

Requests(kind, p, s, t) == {Request(kind, p, q, t, s.log) : q \in other_voters(p, s)}

Vote(kind, p, q, t, granted) ==
    [kind |-> kind, from |-> p, to |-> q, term |-> t, granted |-> granted]

AppendAck(p, q, t, success, match, ci, ct) ==
    [kind |-> "AppendEntriesResponse", from |-> p, to |-> q, term |-> t,
     success |-> success, match_index |-> match, conflict_index |-> ci, conflict_term |-> ct]

SnapshotAck(p, q, t, i) ==
    [kind |-> "InstallSnapshotResponse", from |-> p, to |-> q, term |-> t, last_index |-> i]

(* send_append, send_snapshot: what q lacks, or the snapshot if the log no  *)
(* longer reaches back to it (or does not reach up to it).                   *)
MustSnapshot(s, q) == s.next[q] < first_index(s.log) \/ ~Held(s.log, s.next[q] - 1)

SendAppend(p, s, q) ==
    IF ~MustSnapshot(s, q)
    THEN {[kind |-> "AppendEntries", from |-> p, to |-> q, term |-> s.term,
           prev_log_index |-> s.next[q] - 1, prev_log_term |-> term_at(s.log, s.next[q] - 1),
           entries |-> entries(s.log, s.next[q]), leader_commit |-> s.commit]}
    ELSE IF s.log.base.index = 0 THEN {}
    ELSE {[kind |-> "InstallSnapshot", from |-> p, to |-> q, term |-> s.term,
           snapshot |-> s.log.base]}

SendAppends(p, s, Q) == UNION {SendAppend(p, s, q) : q \in Q}

(* Replication to a peer that was sent a snapshot resumes after it.         *)
Sent(s, Q) ==
    [s EXCEPT !.next = [q \in Node |-> IF q \in Q /\ MustSnapshot(s, q)
                                       THEN first_index(s.log) ELSE s.next[q]]]

-----------------------------------------------------------------------------
(* Commitment and application.                                              *)

(* take_snapshot stamps the membership in force, not the one at the index.  *)
take_snapshot(s) ==
    IF s.applied = 0 \/ ~Held(s.log, s.applied) THEN s
    ELSE [s EXCEPT !.log = save_snapshot(@, [index |-> s.applied,
                                             term |-> term_at(s.log, s.applied),
                                             members |-> s.members])]

maybe_compact(s) ==
    IF world.threshold # 0 /\ s.applied >= first_index(s.log) + world.threshold
    THEN take_snapshot(s) ELSE s

apply_committed(s) ==
    maybe_compact([s EXCEPT !.applied = IF s.commit > @ THEN s.commit ELSE @])

(* The highest index that a quorum of the voters holds, as this leader      *)
(* knows it: the entry of the sorted match indices at the quorum's place.    *)
Matched(p, s, q) == IF q = p THEN last_index(s.log) ELSE s.match[q]

QuorumHolds(p, s, i) ==
    /\ \E q \in s.members : Matched(p, s, q) = i
    /\ Cardinality({q \in s.members : Matched(p, s, q) >= i}) >= quorum(s.members)
    /\ Cardinality({q \in s.members : Matched(p, s, q) > i}) < quorum(s.members)

(* Mutated form: replication counts commit entries of earlier terms too.    *)
CommittableByCount(p, s, i) == i > s.commit /\ QuorumHolds(p, s, i)

Committable(p, s, i) ==
    /\ i > s.commit /\ QuorumHolds(p, s, i)
    /\ term_at(s.log, i) = s.term

maybe_advance_commit(p, s) ==
    LET ready == {i \in 1 .. last_index(s.log) : Committable(p, s, i)}
        c == CHOOSE i \in ready : TRUE
    IN  IF ready = {} THEN s
        ELSE [s EXCEPT !.commit = c, !.pending = IF @ <= c THEN 0 ELSE @]

Commit(p, s) == apply_committed(maybe_advance_commit(p, s))

Decide(a, b) ==
    decided' = decided \cup
        {[index |-> i, term |-> term_at(a.log, i), at |-> a.term] :
            i \in {j \in a.commit + 1 .. b.commit :
                     Held(a.log, j) /\ \A d \in decided : d.index # j}}

Send(sent) ==
    /\ msgs' = msgs \cup {m \in sent : <<m.from, m.to>> \in world.link}
    /\ UNCHANGED world

Update(p, s, sent) == node' = [node EXCEPT ![p] = s] /\ Send(sent)

-----------------------------------------------------------------------------
(* Elections.                                                               *)

(* append_local: one entry of the leader's own term.  A configuration is in *)
(* force at once; peers it adds start with fresh progress.                   *)
Appended(p, s, config) ==
    LET fresh == [q \in Node |-> IF q \in s.members THEN s.next[q] ELSE last_index(s.log) + 1]
        r == IF config = {} THEN s
             ELSE [s EXCEPT !.members = config,
                            !.next = [q \in Node |-> IF q \in config \ {p} THEN fresh[q] ELSE 0],
                            !.match = [q \in Node |-> IF q \in config \ {p} THEN @[q] ELSE 0]]
    IN  [r EXCEPT !.log = append(@, <<[term |-> s.term, config |-> config]>>)]

LeaderAppends(p, s, config) ==
    LET a == Appended(p, s, config)
        b == Commit(p, Sent(a, other_voters(p, a)))
    IN  /\ Update(p, [b EXCEPT !.pending = IF config = {} THEN @ ELSE last_index(a.log)],
                   SendAppends(p, a, other_voters(p, a)))
        /\ Decide(a, b)

become_leader(p, s) ==
    /\ elected' = elected \cup {<<s.term, p>>}
    /\ LeaderAppends(p, [s EXCEPT !.role = "Leader", !.leader = p, !.yes = {}, !.no = {},
                                  !.next = [q \in Node |-> IF q \in other_voters(p, s)
                                                           THEN last_index(s.log) + 1 ELSE 0],
                                  !.match = Zero],
                     {})

campaign(p, s) ==
    LET c == [s EXCEPT !.term = @ + 1, !.voted = p, !.role = "Candidate", !.leader = None,
                       !.yes = {p}, !.no = {}]
    IN  /\ ballot' = ballot \cup {<<p, c.term, p>>}
        /\ \/ /\ is_quorum(s.members, 1)
              /\ become_leader(p, c)
           \/ /\ ~is_quorum(s.members, 1)
              /\ Update(p, c, Requests("VoteRequest", p, c, c.term))
              /\ UNCHANGED <<elected, decided>>

campaign_pre_vote(p, s) ==
    \/ /\ is_quorum(s.members, 1)
       /\ campaign(p, s)
    \/ /\ ~is_quorum(s.members, 1)
       /\ Update(p, [s EXCEPT !.role = "PreCandidate", !.leader = None, !.yes = {p}, !.no = {}],
                 Requests("PreVoteRequest", p, s, s.term + 1))
       /\ UNCHANGED <<ballot, elected, decided>>

(* tick_follower: the election timeout.  A peer that is not a voter never   *)
(* campaigns.                                                                *)
Timeout(p) ==
    LET s == node[p]
    IN  /\ s.role # "Leader" /\ p \in s.members
        /\ s.term < Len(world.stand) /\ p \in world.stand[s.term + 1]
        /\ IF world.pre_vote THEN campaign_pre_vote(p, s) ELSE campaign(p, s)

(* tick_leader: the heartbeat, and stepping down without quorum contact.    *)
Heartbeat(p) ==
    /\ p \in world.ticking /\ node[p].role = "Leader"
    /\ Update(p, Sent(node[p], other_voters(p, node[p])),
              SendAppends(p, node[p], other_voters(p, node[p])))
    /\ UNCHANGED <<ballot, elected, decided>>

StepDown(p) ==
    /\ p \in world.ticking /\ node[p].role = "Leader"
    /\ ~is_quorum(node[p].members, Cardinality({p} \cap node[p].members))
    /\ Update(p, become_follower(node[p], node[p].term, None), {})
    /\ UNCHANGED <<ballot, elected, decided>>

-----------------------------------------------------------------------------
(* step: a message arrives.                                                 *)

(* handle_higher_term: a pre-vote request and a granted pre-vote response   *)
(* never move the term.                                                      *)
Adopts(m) ==
    /\ m.kind # "PreVoteRequest"
    /\ m.kind = "PreVoteResponse" => ~m.granted

Leads(m) == m.kind \in {"AppendEntries", "InstallSnapshot"}

Adopted(m) ==
    LET s == node[m.to]
    IN  IF m.term > s.term /\ Adopts(m)
        THEN become_follower(s, m.term, IF Leads(m) THEN m.from ELSE None)
        ELSE s

Current(m) == m.term >= node[m.to].term

(* reject_stale.                                                            *)
RejectStale(m) ==
    LET t == node[m.to].term
    IN  /\ ~Current(m)
        /\ Send(
              CASE m.kind = "PreVoteRequest" -> {Vote("PreVoteResponse", m.to, m.from, t, FALSE)}
                [] m.kind = "VoteRequest" -> {Vote("VoteResponse", m.to, m.from, t, FALSE)}
                [] Leads(m) -> {AppendAck(m.to, m.from, t, FALSE, 0, 0, 0)}
                [] OTHER -> {})
        /\ UNCHANGED <<node, ballot, elected, decided>>

(* A follower in touch with a leader refuses unless its election timeout    *)
(* has run out meanwhile; `gone' is that circumstance.                       *)
HandlePreVoteRequest(m) ==
    LET s == Adopted(m)
    IN  /\ m.kind = "PreVoteRequest" /\ Current(m)
        /\ \E gone \in BOOLEAN :
              /\ s.leader = None => gone
              /\ Update(m.to, s,
                        {Vote("PreVoteResponse", m.to, m.from, s.term,
                              /\ m.term > s.term /\ gone
                              /\ is_log_up_to_date(s, m.last_log_index, m.last_log_term))})
        /\ UNCHANGED <<ballot, elected, decided>>

(* Mutated form: the vote already cast in this term is not looked at.       *)
MayVoteTwice(s, m) == is_log_up_to_date(s, m.last_log_index, m.last_log_term)

MayVote(s, m) ==
    /\ s.voted \in {None, m.from}
    /\ is_log_up_to_date(s, m.last_log_index, m.last_log_term)

HandleVoteRequest(m) ==
    LET s == Adopted(m)
    IN  /\ m.kind = "VoteRequest" /\ Current(m)
        /\ \/ /\ MayVote(s, m)
              /\ Update(m.to, [s EXCEPT !.voted = m.from],
                        {Vote("VoteResponse", m.to, m.from, s.term, TRUE)})
              /\ ballot' = ballot \cup {<<m.to, s.term, m.from>>}
           \/ /\ ~MayVote(s, m)
              /\ Update(m.to, s, {Vote("VoteResponse", m.to, m.from, s.term, FALSE)})
              /\ UNCHANGED ballot
        /\ UNCHANGED <<elected, decided>>

HandleVoteResponse(m) ==
    LET p == m.to
        s == Adopted(m)
        r == [s EXCEPT !.yes = IF m.granted THEN @ \cup {m.from} ELSE @ \ {m.from},
                       !.no = IF m.granted THEN @ \ {m.from} ELSE @ \cup {m.from}]
        won  == is_quorum(r.members, Cardinality(r.yes))
        lost == is_quorum(r.members, Cardinality(r.no))
        expected == IF m.kind = "PreVoteResponse" THEN "PreCandidate" ELSE "Candidate"
    IN  /\ m.kind \in {"PreVoteResponse", "VoteResponse"} /\ Current(m)
        /\ \/ /\ s.role # expected
              /\ Update(p, s, {})
              /\ UNCHANGED <<ballot, elected, decided>>
           \/ /\ s.role = expected /\ won /\ m.kind = "PreVoteResponse"
              /\ campaign(p, r)
           \/ /\ s.role = expected /\ won /\ m.kind = "VoteResponse"
              /\ become_leader(p, r)
              /\ UNCHANGED ballot
           \/ /\ s.role = expected /\ ~won
              /\ Update(p, IF lost THEN [r EXCEPT !.role = "Follower", !.yes = {}, !.no = {}]
                           ELSE r, {})
              /\ UNCHANGED <<ballot, elected, decided>>

-----------------------------------------------------------------------------
(* Replication, on the follower.                                            *)

(* A campaign ends when a leader of the term is heard from.                 *)
Following(m) ==
    LET s == Adopted(m)
        f == IF s.role \in {"PreCandidate", "Candidate"}
             THEN become_follower(s, s.term, m.from) ELSE s
    IN  [f EXCEPT !.leader = m.from]

(* The entries this replica lacks, or holds with another term.              *)
Unmatched(l, prev, es) ==
    {k \in 1 .. Len(es) : ~(Held(l, prev + k) /\ term_at(l, prev + k) = es[k].term)}

(* Mutated form: whatever follows prev is dropped, matching or not.         *)
MergeTruncatesAlways(l, prev, es) == append(truncate_from(l, prev + 1), es)

(* merge_entries: truncate at the first disagreement and append the rest.   *)
Merge(l, prev, es) ==
    LET new == Unmatched(l, prev, es)
        k == CHOOSE i \in new : \A j \in new : i <= j
    IN  IF new = {} THEN l
        ELSE append(truncate_from(l, prev + k), SubSeq(es, k, Len(es)))

(* Mutated form: a truncation leaves the membership as it was.              *)
MembersAfterForgets(s, l) == s

(* recompute_membership, when entries were dropped or a configuration came. *)
MembersAfter(s, l) ==
    IF \/ \E i \in 1 .. Len(s.log.ents) : i > Len(l.ents) \/ l.ents[i] # s.log.ents[i]
       \/ \E i \in Len(s.log.ents) + 1 .. Len(l.ents) : l.ents[i].config # {}
    THEN [s EXCEPT !.members = from_entries(l), !.pending = in_flight(l, s.commit)]
    ELSE s

(* Never past what this message showed to match the leader's log.           *)
CommitTo(leader_commit, last_new) ==
    IF leader_commit < last_new THEN leader_commit ELSE last_new

Accept(s, m) ==
    LET l == Merge(s.log, m.prev_log_index, m.entries)
        r == [MembersAfter(s, l) EXCEPT !.log = l]
    IN  IF m.leader_commit > s.commit
        THEN apply_committed([r EXCEPT !.commit =
                 CommitTo(m.leader_commit, m.prev_log_index + Len(m.entries))])
        ELSE r

(* Mutated form: any entry at prev_log_index will do.                       *)
PrevAgreesByIndex(l, m) == m.prev_log_index \in l.base.index .. last_index(l)

PrevAgrees(l, m) ==
    /\ m.prev_log_index \in l.base.index .. last_index(l)
    /\ term_at(l, m.prev_log_index) = m.prev_log_term

HandleAppendEntries(m) ==
    LET s == Following(m)
        prev == m.prev_log_index
        Reply(t, success, match, ci, ct) == {AppendAck(m.to, m.from, t, success, match, ci, ct)}
    IN  /\ m.kind = "AppendEntries" /\ Current(m)
        /\ \/ /\ prev < s.log.base.index
              /\ Update(m.to, s, Reply(s.term, TRUE, s.log.base.index, 0, 0))
           \/ /\ prev > last_index(s.log)
              /\ Update(m.to, s, Reply(s.term, FALSE, 0, last_index(s.log) + 1, 0))
           \/ /\ prev \in s.log.base.index .. last_index(s.log) /\ ~PrevAgrees(s.log, m)
              /\ \E i \in 1 .. prev :          \* first_index_of_term
                    /\ \A j \in i .. prev : term_at(s.log, j) = term_at(s.log, prev)
                    /\ \/ i <= first_index(s.log)
                       \/ term_at(s.log, i - 1) # term_at(s.log, prev)
                    /\ i = prev \/ i >= first_index(s.log)
                    /\ Update(m.to, s, Reply(s.term, FALSE, 0, i, term_at(s.log, prev)))
           \/ /\ PrevAgrees(s.log, m)
              /\ Update(m.to, Accept(s, m), Reply(s.term, TRUE, prev + Len(m.entries), 0, 0))
        /\ UNCHANGED <<ballot, elected, decided>>

(* The snapshot takes the place of the whole log.                           *)
Installed(s, b) ==
    [s EXCEPT !.log = [base |-> b, ents |-> <<>>], !.commit = b.index, !.applied = b.index,
              !.members = b.members, !.pending = 0]

HandleInstallSnapshot(m) ==
    LET s == Following(m)
        b == m.snapshot
    IN  /\ m.kind = "InstallSnapshot" /\ Current(m)
        /\ \/ /\ b.index <= s.commit
              /\ Update(m.to, s, {SnapshotAck(m.to, m.from, s.term, last_index(s.log))})
           \/ /\ b.index > s.commit
              /\ Update(m.to, Installed(s, b), {SnapshotAck(m.to, m.from, s.term, b.index)})
        /\ UNCHANGED <<ballot, elected, decided>>

-----------------------------------------------------------------------------
(* Replication, on the leader.                                              *)

Answers(m, s) == s.role = "Leader" /\ m.term = s.term /\ m.from \in other_voters(m.to, s)

(* The match index never moves back.                                        *)
Acknowledged(s, q, i) ==
    LET top == IF i > s.match[q] THEN i ELSE s.match[q]
    IN  [s EXCEPT !.match[q] = top, !.next[q] = top + 1]

(* last_index_of_term.                                                      *)
IsLastOfTerm(l, i, t) ==
    /\ i \in first_index(l) .. last_index(l) /\ term_at(l, i) = t
    /\ \A j \in i + 1 .. last_index(l) : term_at(l, j) # t

Rejected(s, m) ==
    LET hits == {i \in 1 .. last_index(s.log) : IsLastOfTerm(s.log, i, m.conflict_term)}
        hint == IF m.conflict_term # 0 /\ hits # {} THEN (CHOOSE i \in hits : TRUE) + 1
                ELSE m.conflict_index
    IN  [s EXCEPT !.next[m.from] = IF hint > s.match[m.from] THEN hint
                                   ELSE s.match[m.from] + 1]

HandleAppendResponse(m) ==
    LET p == m.to
        s == Adopted(m)
        a == Acknowledged(s, m.from, m.match_index)
        b == Commit(p, a)
        peers == IF a.next[m.from] <= last_index(a.log) THEN {m.from} ELSE {}
        r == Rejected(s, m)
    IN  /\ m.kind = "AppendEntriesResponse" /\ Current(m)
        /\ \/ /\ ~Answers(m, s)
              /\ Update(p, s, {})
              /\ UNCHANGED decided
           \/ /\ Answers(m, s) /\ m.success
              /\ Update(p, Sent(b, peers), SendAppends(p, b, peers))
              /\ Decide(a, b)
           \/ /\ Answers(m, s) /\ ~m.success
              /\ Update(p, Sent(r, {m.from}), SendAppend(p, r, m.from))
              /\ UNCHANGED decided
        /\ UNCHANGED <<ballot, elected>>

HandleInstallSnapshotResponse(m) ==
    LET p == m.to
        s == Adopted(m)
        a == Acknowledged(s, m.from, m.last_index)
        b == Commit(p, a)
    IN  /\ m.kind = "InstallSnapshotResponse" /\ Current(m)
        /\ \/ /\ ~Answers(m, s)
              /\ Update(p, s, {})
              /\ UNCHANGED decided
           \/ /\ Answers(m, s)
              /\ Update(p, Sent(b, {m.from}), SendAppend(p, b, m.from))
              /\ Decide(a, b)
        /\ UNCHANGED <<ballot, elected>>

-----------------------------------------------------------------------------
(* Calls of the application, and restarts.                                  *)

Propose(p) ==
    /\ node[p].role = "Leader" /\ last_index(node[p].log) < world.max_index
    /\ LeaderAppends(p, node[p], {})
    /\ UNCHANGED <<ballot, elected>>

(* Membership::apply, over one added or removed peer.                       *)
Changes(members) ==
    ({members \cup {q} : q \in Node} \cup {members \ {q} : q \in Node}) \ {members, {}}

(* propose_membership: one change in flight at a time.                      *)
ProposeMembership(p) ==
    LET s == node[p]
    IN  /\ world.reconfigures
        /\ s.role = "Leader" /\ last_index(s.log) < world.max_index
        /\ s.pending <= s.commit
        /\ \E config \in Changes(s.members) : LeaderAppends(p, s, config)
        /\ UNCHANGED <<ballot, elected>>

TakeSnapshot(p) ==
    /\ world.snapshots
    /\ Update(p, take_snapshot(node[p]), {})
    /\ UNCHANGED <<ballot, elected, decided>>

(* A crash and a restart over the same store.  The state machine either     *)
(* starts over (applied_index 0) or remembers all it applied.                *)
Restart(p) ==
    LET s == node[p]
    IN  /\ p \in world.crashing
        /\ \E d \in {0, s.applied} : Update(p, Recovered(s.term, s.voted, s.log, d), {})
        /\ UNCHANGED <<ballot, elected, decided>>

-----------------------------------------------------------------------------

Receive(m) ==
    \/ RejectStale(m)
    \/ HandlePreVoteRequest(m)
    \/ HandleVoteRequest(m)
    \/ HandleVoteResponse(m)
    \/ HandleAppendEntries(m)
    \/ HandleAppendResponse(m)
    \/ HandleInstallSnapshot(m)
    \/ HandleInstallSnapshotResponse(m)

Call(p) ==
    \/ Timeout(p) \/ Heartbeat(p) \/ StepDown(p)
    \/ Propose(p) \/ ProposeMembership(p) \/ TakeSnapshot(p) \/ Restart(p)

Next ==
    \/ \E m \in msgs : Receive(m)
    \/ \E p \in Node : Call(p)

Spec == Init /\ [][Next]_vars

-----------------------------------------------------------------------------
(* Properties.                                                              *)

(* Every replica, vote and leader is what its field declares, and a         *)
(* snapshot never covers an entry the state machine has not applied          *)
(* (take_snapshot, handle_install_snapshot, RaftNode::new).                  *)
TypeOK ==
    /\ world \in Worlds
    /\ node \in [Node -> Replica]
    /\ \A p \in Node : node[p].log.base.index <= node[p].applied
    /\ ballot \subseteq Node \X Nat \X Node
    /\ elected \subseteq Nat \X Node
    /\ decided \subseteq [index: Nat, term: Nat, at: Nat]

(* A peer votes once per term, whatever it is sent twice or late and        *)
(* however often it restarts (handle_vote_request, save_hard_state).         *)
VoteOnce ==
    \A v, w \in ballot : v[1] = w[1] /\ v[2] = w[2] => v[3] = w[3]

(* Election Safety: no term ever has two leaders.                           *)
ElectionSafety ==
    \A e, f \in elected : e[1] = f[1] => e[2] = f[2]

(* Log Matching: two logs that hold an entry of the same index and term     *)
(* hold the same entries up to it, as far back as both still reach.          *)
LogMatching ==
    \A p, q \in Node :
        LET k == node[p].log
            l == node[q].log
            both == {i \in 1 .. last_index(k) : i >= first_index(k) /\ Held(l, i) /\ i >= first_index(l)}
        IN  \A i \in both :
              term_at(k, i) = term_at(l, i)
                => \A j \in both : j <= i => entry(k, j) = entry(l, j)

(* Leader Completeness: an entry committed in some term is in the log of    *)
(* every leader of a later term, in the log proper or in its snapshot.       *)
LeaderCompleteness ==
    \A p \in Node : node[p].role = "Leader" =>
        \A d \in decided : d.at < node[p].term =>
            \/ d.index < node[p].log.base.index
            \/ d.index <= last_index(node[p].log) /\ term_at(node[p].log, d.index) = d.term

(* State Machine Safety: what a replica applied is what a leader committed  *)
(* at that index, so no two state machines ever differ (apply_committed).    *)
StateMachineSafety ==
    \A p \in Node : \A i \in 1 .. node[p].applied :
        i >= node[p].log.base.index =>
            /\ i <= last_index(node[p].log)
            /\ \E d \in decided : d.index = i /\ d.term = term_at(node[p].log, i)

(* What a leader believes a peer to hold, that peer holds, for as long as   *)
(* the peer has not moved on to a later term: the count that commits an      *)
(* entry is of logs that really have it (Progress::match_index).  Not so     *)
(* while a snapshot of less is on its way to the peer, which may still       *)
(* replace its log (handle_install_snapshot).                                *)
MatchIsHeld ==
    \A p, q \in Node :
        LET i == node[p].match[q]
            l == node[p].log
            k == node[q].log
        IN  /\ node[p].role = "Leader" /\ q \in other_voters(p, node[p])
            /\ node[q].term = node[p].term
            /\ i > l.base.index /\ i > k.base.index
            /\ \A m \in msgs : m.kind = "InstallSnapshot" /\ m.to = q => m.snapshot.index >= i
            => /\ i <= last_index(l) /\ i <= last_index(k)
               /\ entry(k, i) = entry(l, i)

(* The membership in force is the one the log implies, also after a         *)
(* configuration entry was truncated away (recompute_membership).            *)
MembershipFollowsLog ==
    \A p \in Node : node[p].members = from_entries(node[p].log)

=============================================================================
