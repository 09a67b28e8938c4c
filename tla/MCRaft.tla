------------------------------- MODULE MCRaft -------------------------------
(* Instances of Raft for TLC.                                               *)
EXTENDS Raft, TLC

CONSTANTS n1, n2, n3

Three == {n1, n2, n3}
Mesh  == Three \X Three
Line  == {<<n1, n3>>, <<n3, n1>>, <<n2, n3>>, <<n3, n2>>}
Wire  == {<<n1, n3>>, <<n3, n1>>}

Quiet == [voters |-> Three, pre_vote |-> FALSE, max_append |-> 1, threshold |-> 0,
          snapshots |-> FALSE, reconfigures |-> FALSE, stand |-> <<>>,
          ticking |-> {}, crashing |-> {}, link |-> Mesh, max_index |-> 0]

(* Two peers stand in the one term there is, and anyone may crash.          *)
Duel == [Quiet EXCEPT !.stand = <<{n1, n2}>>, !.crashing = Three]

(* The same with pre-votes, when n2 does not hear n1.                        *)
Canvass == [Quiet EXCEPT !.pre_vote = TRUE, !.stand = <<{n1, n2}>>, !.crashing = {n3},
                         !.link = Line \cup {<<n2, n1>>}]

(* A cluster of one, which the others join and n2 takes over.               *)
Growth == [Quiet EXCEPT !.voters = {n1}, !.pre_vote = TRUE, !.max_append = 2,
                        !.reconfigures = TRUE, !.stand = <<{n1}, {n2}>>,
                        !.ticking = {n1, n2}, !.crashing = Three, !.max_index = 2]

(* The other runs start from a later state: replicas that just restarted    *)
(* over the stores a history left behind, every message of that history      *)
(* lost.                                                                     *)
Ent(t)     == [term |-> t, config |-> {}]
Conf(t, c) == [term |-> t, config |-> c]

Store(p, t, v, es) == Recovered(t, v, [EmptyLog(p) EXCEPT !.ents = es], 0)

Start(votes, leaders, dec) ==
    msgs = {} /\ ballot = votes /\ elected = leaders /\ decided = dec

(* The opening of the Raft paper's Figure 8: n1 led term 1 and n2 term 2,   *)
(* each elected with the help of n3, each crashed when its no-op was in its  *)
(* own log only.  n2 has stood again since, for term 3, unheard.             *)
Figure8 == [Quiet EXCEPT !.stand = <<{}, {}, {n1}, {n2}>>, !.ticking = {n1, n2},
                         !.crashing = Three, !.link = Line, !.max_index = 3]

Figure8Init ==
    /\ world = Figure8
    /\ node = [p \in Node |-> CASE p = n1 -> Store(p, 2, None, <<Ent(1)>>)
                                [] p = n2 -> Store(p, 3, n2, <<Ent(2)>>)
                                [] p = n3 -> Store(p, 2, n2, <<>>)]
    /\ Start({<<n1, 1, n1>>, <<n3, 1, n1>>, <<n2, 2, n2>>, <<n3, 2, n2>>, <<n2, 3, n2>>},
             {<<1, n1>>, <<2, n2>>}, {})

(* n1 led term 1 and committed two entries with n2, which has gone silent;  *)
(* n3 voted and got nothing.                                                 *)
Behind == [Quiet EXCEPT !.threshold = 2, !.snapshots = TRUE, !.stand = <<{}, {n1}>>,
                        !.ticking = {n1}, !.crashing = {n3}, !.link = Wire, !.max_index = 3]

Committed2(t, v) == Recovered(t, v, [EmptyLog(n1) EXCEPT !.ents = <<Ent(1), Ent(1)>>], 2)

BehindInit ==
    /\ world = Behind
    /\ node = [p \in Node |-> IF p = n3 THEN Store(p, 1, n1, <<>>) ELSE Committed2(1, n1)]
    /\ Start({<<p, 1, n1>> : p \in Three}, {<<1, n1>>},
             {[index |-> i, term |-> 1, at |-> 1] : i \in 1 .. 2})

(* n1 led term 1 with the vote of n3 and removed n3; nobody heard of it.    *)
Orphan == [Quiet EXCEPT !.max_append = 2, !.snapshots = TRUE, !.reconfigures = TRUE,
                        !.stand = <<{}, {n2}>>, !.max_index = 2]

OrphanInit ==
    /\ world = Orphan
    /\ node = [p \in Node |-> CASE p = n1 -> Store(p, 1, n1, <<Ent(1), Conf(1, {n1, n2})>>)
                                [] p = n2 -> Store(p, 1, None, <<>>)
                                [] p = n3 -> Store(p, 1, n1, <<>>)]
    /\ Start({<<n1, 1, n1>>, <<n3, 1, n1>>}, {<<1, n1>>}, {})

Histories == {Duel, Canvass, Growth, Figure8, Behind, Orphan}

HistoryInit ==
    (world \in {Duel, Canvass, Growth} /\ Init) \/ Figure8Init \/ BehindInit \/ OrphanInit

HistorySpec == HistoryInit /\ [][Next]_vars

(* n1 led term 1: its no-op is committed on n1 and n2, two more entries are *)
(* in its own log only.  n2 took a snapshot, then led term 2 with the vote   *)
(* of n3 and appended its no-op, which n3 never saw.                         *)
Stray == [Quiet EXCEPT !.max_append = 2, !.stand = <<{}, {}, {n2}, {n1}>>, !.ticking = {n2}]

StrayInit ==
    /\ world = Stray
    /\ node = [p \in Node |->
         CASE p = n1 -> Recovered(1, n1, [EmptyLog(p) EXCEPT !.ents = <<Ent(1), Ent(1), Ent(1)>>], 1)
           [] p = n2 -> Recovered(2, n2, [base |-> [index |-> 1, term |-> 1, members |-> Three],
                                          ents |-> <<Ent(2)>>], 1)
           [] p = n3 -> Store(p, 2, n2, <<>>)]
    /\ Start({<<n1, 1, n1>>, <<n2, 1, n1>>, <<n2, 2, n2>>, <<n3, 2, n2>>},
             {<<1, n1>>, <<2, n2>>}, {[index |-> 1, term |-> 1, at |-> 1]})

Strays == {Stray}

StraySpec == StrayInit /\ [][Next]_vars
=============================================================================
