--------------------------- MODULE NodeLife_proofs ---------------------------
(* Proofs about NodeLife.tla for every manifest, queue and number of restarts.  *)
(*                                                                              *)
(* Core relates the daemon's record of the node to the processes, their sessions *)
(* and the exits under way; Words is what the consumer has been told.  Onward is *)
(* what no step undoes: a step that keeps Core and goes Onward keeps Words, if   *)
(* what it tells the consumer is true (WordsKept).                              *)
EXTENDS NodeLife, TLAPS

States == {"pending", "spawning", "running", "restarting", "stopping", "finished", "failed"}
Intents == {"running", "stop", "shutdown", "term", "kill"}
Places == {"none", "boot", "up", "quiet", "shut", "gone"}
Statuses == {"ok", "fail", "signal"}
Causes == {"success", "exit_code", "signal", "cancelled", "killed", "daemon_shutdown"}
Frames == {"register", "msg", "done", "close", "eof"}

NodeRecord ==
    [gen : Gens, state : States, handle : BOOLEAN, intent : Intents, open : BOOLEAN, history : Nat]
Process == [at : Places, left : Nat, status : Statuses \cup {"none"}, done : BOOLEAN]

Types ==
    /\ world \in World
    /\ node \in NodeRecord
    /\ bound \subseteq Gens /\ deferred \subseteq Gens /\ over \subseteq Gens
    /\ draining \subseteq [gen : Gens, cause : Causes]
    /\ armed \subseteq [table : Deadlines, gen : Gens]
    /\ proc \in [Gens -> Process]
    /\ sock \in [Gens -> Seq(Frames)]
    /\ exits \subseteq [gen : Gens, status : Statuses]

(* Every restart is paid for out of the budget, the one to come included.       *)
Budget ==
    /\ node.gen + (IF node.state = "restarting" THEN 1 ELSE 0) <= node.history
    /\ node.history <= world.max_restarts

(* Only a node that is spawning, running or stopping has a process to signal;   *)
(* one that has none has been accounted for or waits for its session to end.    *)
Handled ==
    /\ node.state \in {"pending", "restarting", "finished", "failed"} => ~ node.handle
    /\ ~ node.handle /\ node.state # "pending" => node.gen \in over \/ draining # {}

(* A node that was asked to stop is never restarted.                            *)
Watched ==
    /\ \A x \in armed : x.table \in {"term", "kill"} => node.intent # "running"
    /\ node.intent # "running" => node.state \notin {"pending", "restarting"}

Unstarted(g) == g > node.gen \/ node.state = "pending"

Fresh ==
    \A g \in Gens : Unstarted(g) =>
        /\ proc[g] = NoProcess /\ sock[g] = <<>>
        /\ g \notin bound /\ g \notin over /\ g \notin deferred

ExitsReal ==
    \A x \in exits : proc[x.gen].at = "gone" /\ proc[x.gen].status = x.status

(* The exit that waits is that of the node's process, and is the only one.      *)
DrainingReal ==
    \A x \in draining :
        /\ x.gen = node.gen /\ Terminal(node)
        /\ proc[x.gen].at = "gone" /\ \A e \in exits : e.gen # x.gen
        /\ IsFailure(x.cause) => proc[x.gen].status \in {"fail", "signal"}
        /\ ~ IsFailure(x.cause) => proc[x.gen].status = "ok" \/ node.intent # "running"
        /\ x.gen \in over => x.gen \in cut

(* Nothing follows the end of a session, and no message follows a closure.      *)
Ordered(s) ==
    \A i, j \in DOMAIN s : i < j =>
        /\ s[i] # "eof"
        /\ s[i] \in {"done", "close"} => s[j] # "msg"

(* The frames of a session are those of a process that has come that far, and   *)
(* all but its registration are sent while it is bound.                         *)
Session(g) ==
    /\ proc[g].at # "gone" => proc[g].status = "none"
    /\ proc[g].at \in {"none", "boot"} => sock[g] = <<>> /\ g \notin bound
    /\ \A f \in {"msg", "done", "close"} : f \in Range(sock[g]) => g \in bound
    /\ "done" \in Range(sock[g]) => proc[g].done /\ proc[g].at # "up"
    /\ \A f \in {"close", "eof"} : f \in Range(sock[g]) => proc[g].at \in {"shut", "gone"}
    /\ Ordered(sock[g])

(* An incarnation that is accounted for and was not cut short has ended and has *)
(* nothing more to say.                                                         *)
Accounted ==
    \A g \in over \ cut :
        /\ proc[g].at \in {"none", "gone"} /\ g \notin deferred
        /\ \A f \in {"msg", "done", "close"} : f \notin Range(sock[g])
        /\ \A x \in exits : x.gen # g

(* No message of g is under way or will be.                                     *)
Mute(g) == proc[g].at \notin {"boot", "up"} /\ "msg" \notin Range(sock[g])

DeferredMute == \A g \in deferred : Mute(g)

Core ==
    /\ Types /\ Budget /\ Handled /\ Watched /\ NoOrphan /\ Fresh /\ ExitsReal /\ DrainingReal
    /\ Accounted /\ DeferredMute
    /\ \A g \in Gens : Session(g)

(* What is told in s is true, of a node whose ends in o are accounted for.      *)
ToldIn(s, kind, g) == Ev(kind, g) \in Range(s)

UnstartedUnheard(s) == \A g \in Gens : Unstarted(g) => \A e \in Range(s) : e.gen # g

ClosedMute(s) ==
    \A g \in Gens \ cut : ToldIn(s, "finished", g) \/ ToldIn(s, "crashed", g) => Mute(g)

TailKeptIn(s) ==
    \A i, j \in DOMAIN s : i < j /\ IsClosure(s[i]) /\ s[j] = Ev("msg", s[i].gen) => s[i].gen \in cut

CrashTrue(g) == proc[g].status \in {"fail", "signal"} \/ g \in world.spoilt
FinishTrue(g) == proc[g].status = "ok" \/ proc[g].done \/ Asked(g) \/ g \in waited

LastIn(s, g) ==
    \E i \in DOMAIN s : s[i] = Ev("crashed", g) /\ \A j \in DOMAIN s : j > i => s[j] # Ev("finished", g)

TruthfulIn(s, o) ==
    \A g \in Gens \ cut :
       /\ ToldIn(s, "crashed", g) => CrashTrue(g)
       /\ ToldIn(s, "finished", g) => FinishTrue(g)
       /\ g \in o /\ proc[g].status # "ok" /\ ~ Asked(g) => LastIn(s, g)

WordsOf(s, o) == UnstartedUnheard(s) /\ ClosedMute(s) /\ TailKeptIn(s) /\ TruthfulIn(s, o)

Words ==
    /\ "said" \in DOMAIN peer /\ peer.said \in Seq(Routed)
    /\ WordsOf(peer.said, over)

(* -------------------------------- sequences ------------------------------- *)

(* What is in a sequence that grew by an element.                               *)
LEMMA RangeAppend ==
    ASSUME NEW S, NEW s \in Seq(S), NEW x \in S
    PROVE  Range(Append(s, x)) = Range(s) \cup {x} /\ Append(s, x) \in Seq(S)
<1> DEFINE t == Append(s, x)
<1>1. /\ t \in Seq(S) /\ DOMAIN s = 1..Len(s) /\ DOMAIN t = 1..(Len(s) + 1) /\ Len(s) \in Nat
      /\ t[Len(s) + 1] = x /\ \A i \in 1..Len(s) : t[i] = s[i]
  OBVIOUS
<1> HIDE DEF t
<1>2. ASSUME NEW e
      PROVE  (\E i \in DOMAIN t : t[i] = e) <=> ((\E i \in DOMAIN s : s[i] = e) \/ e = x)
  <2>1. ASSUME NEW i \in DOMAIN t, t[i] = e
        PROVE  (\E j \in DOMAIN s : s[j] = e) \/ e = x
    <3>1. i = Len(s) + 1 \/ i \in 1..Len(s)
      BY <1>1, <2>1
    <3> QED
      BY ZenonT(60), <1>1, <2>1, <3>1
  <2>2. Len(s) + 1 \in DOMAIN t /\ \A i \in DOMAIN s : i \in DOMAIN t
    BY <1>1
  <2> QED
    BY ZenonT(60), <1>1, <2>1, <2>2
<1>3. Range(t) = Range(s) \cup {x}
  BY Zenon, <1>2, Zenon DEF Range
<1> QED
  BY ZenonT(60), <1>1, <1>3 DEF t

(* Two elements are added one after the other.                                  *)
LEMMA ConcatTwo ==
    ASSUME NEW S, NEW s \in Seq(S), NEW x \in S, NEW y \in S
    PROVE  s \o <<x>> = Append(s, x) /\ s \o <<x, y>> = Append(Append(s, x), y)
  OBVIOUS

(* What is in the rest of a sequence.                                           *)
LEMMA RangeTail ==
    ASSUME NEW S, NEW s \in Seq(S), s # <<>>
    PROVE  /\ Tail(s) \in Seq(S) /\ Head(s) \in Range(s) /\ Head(s) \in S
           /\ Range(Tail(s)) \subseteq Range(s)
  BY DEF Range

(* The frames left when the first one is taken.                                 *)
LEMMA OrderedTail ==
    ASSUME NEW s \in Seq(Frames), s # <<>>, Ordered(s)
    PROVE  /\ Ordered(Tail(s))
           /\ Head(s) = "eof" => Tail(s) = <<>>
           /\ Head(s) \in {"done", "close"} => "msg" \notin Range(Tail(s))
  BY DEF Range, Ordered

(* A frame written behind the others.                                           *)
LEMMA OrderedAppend ==
    ASSUME NEW s \in Seq(Frames), NEW f \in Frames, Ordered(s), "eof" \notin Range(s),
           f = "msg" => "done" \notin Range(s) /\ "close" \notin Range(s)
    PROVE  Ordered(Append(s, f))
  BY DEF Range, Ordered

(* ------------------------------ the consumer ------------------------------ *)

Keeps(p, q) == "said" \in DOMAIN q /\ q.said = p.said
Adds(p, q, e) == "said" \in DOMAIN q /\ q.said = Append(p.said, e)

(* Serving the consumer, or sending past its mailbox, tells it nothing.         *)
LEMMA ServingKeeps ==
    ASSUME NEW p, "said" \in DOMAIN p
    PROVE  Keeps(p, Delivered(p)) /\ Keeps(p, Flushed(p)) /\ \A e : Keeps(p, SentTo(p, e))
  BY ZenonT(60) DEF Keeps, Delivered, Flushed, SentTo

(* push_to, and what is routed through it.                                      *)
LEMMA RoutingAdds ==
    ASSUME NEW p, "said" \in DOMAIN p, NEW e
    PROVE  Adds(p, Pushed(p, e), e) /\ Adds(p, Routing(p, e), e)
<1>1. Keeps(p, Queued(p, e))
  BY ZenonT(60) DEF Keeps, Queued
<1>2. Adds(p, Pushed(p, e), e)
  BY ZenonT(60), <1>1 DEF Pushed, Keeps, Adds
<1>3. Keeps(Pushed(p, e), Delivered(Pushed(p, e)))
  BY ZenonT(60), <1>2, ServingKeeps DEF Adds
<1> QED
  BY ZenonT(60), <1>2, <1>3 DEF Routing, Keeps, Adds

(* The two closures of an output, and the notice of a restart.                  *)
LEMMA ClosingAdds ==
    ASSUME NEW p, "said" \in DOMAIN p, NEW g, NEW kind
    PROVE  /\ Adds(p, ClosedSource(p, g), Ev("finished", g))
           /\ Adds(p, ClosedOutputs(p, kind, g), Ev(kind, g))
           /\ g = 0 => Keeps(p, ToldRestarted(p, g))
           /\ g # 0 => Adds(p, ToldRestarted(p, g), Ev("recovered", g))
<1>1. ASSUME NEW q, "said" \in DOMAIN q
      PROVE  Keeps(q, Propagated(q, g))
  <2>1. Keeps(q, SentTo(q, Ev("all_closed", g)))
    BY ZenonT(60), <1>1, ServingKeeps
  <2> QED
    BY ZenonT(60), <1>1, <2>1 DEF Propagated, Keeps
<1>2. Adds(p, ClosedOutputs(p, kind, g), Ev(kind, g))
  <2> DEFINE q == Routing(p, Ev(kind, g))
  <2>1. Adds(p, q, Ev(kind, g))
    BY ZenonT(60), RoutingAdds
  <2>2. Keeps(q, Propagated(q, g))
    BY ZenonT(60), <1>1, <2>1 DEF Adds
  <2> QED
    BY ZenonT(60), <2>1, <2>2 DEF ClosedOutputs, Adds, Keeps
<1>3. Adds(p, ClosedSource(p, g), Ev("finished", g))
  <2> DEFINE q == Routing(p, Ev("finished", g))
             r == [q EXCEPT !.closed = TRUE]
  <2>1. Adds(p, q, Ev("finished", g))
    BY ZenonT(60), RoutingAdds
  <2>2. Keeps(q, r)
    <3> HIDE DEF q
    <3> QED
      BY ZenonT(60), <2>1 DEF Adds, Keeps
  <2>3. Keeps(r, Propagated(r, g))
    <3> HIDE DEF r
    <3> QED
      BY ZenonT(60), <1>1, <2>2 DEF Keeps
  <2> QED
    BY Zenon, <2>1, <2>2, <2>3 DEF ClosedSource, Adds, Keeps
<1>4. CASE g # 0
  <2> DEFINE q == SentTo(p, Ev("restarted", g))
  <2>1. Keeps(p, q)
    BY ZenonT(60), ServingKeeps
  <2>2. Adds(q, Pushed(q, Ev("recovered", g)), Ev("recovered", g))
    BY ZenonT(60), <2>1, RoutingAdds DEF Keeps
  <2> QED
    BY ZenonT(60), <1>2, <1>3, <1>4, <2>1, <2>2 DEF ToldRestarted, Keeps, Adds
<1>5. CASE g = 0
  BY ZenonT(60), <1>2, <1>3, <1>5 DEF ToldRestarted, Keeps
<1> QED
  BY ZenonT(60), <1>4, <1>5

(* ------------------------------ what is told ------------------------------ *)

(* What no step undoes.                                                         *)
Onward ==
    /\ world' = world
    /\ \A g \in Gens :
        /\ Unstarted(g)' => Unstarted(g)
        /\ ~ Unstarted(g) /\ Mute(g) => Mute(g)'
        /\ proc[g].status \in Statuses => proc'[g].status = proc[g].status
        /\ proc[g].done => proc'[g].done
        /\ Asked(g) => Asked(g)'
        /\ g \in cut => g \in cut'
        /\ g \in waited => g \in waited'
        /\ g \in over \ cut => proc'[g] = proc[g]

(* What was true when it was told is true after a step.                         *)
LEMMA StaysTrue ==
    ASSUME NEW s \in Seq(Routed), NEW o, o = over, WordsOf(s, o), Onward
    PROVE  WordsOf(s, o)'
<1>1. UnstartedUnheard(s)'
  BY ZenonT(60) DEF WordsOf, UnstartedUnheard, Onward
<1>2. ClosedMute(s)'
  <2> SUFFICES ASSUME NEW g \in Gens, g \notin cut', ToldIn(s, "finished", g) \/ ToldIn(s, "crashed", g)
               PROVE  Mute(g)'
    BY ZenonT(60) DEF ClosedMute, ToldIn
  <2>1. g \notin cut
    BY ZenonT(60) DEF Onward
  <2>2. Mute(g)
    BY ZenonT(60), <2>1 DEF WordsOf, ClosedMute
  <2>3. ~ Unstarted(g)
    BY ZenonT(60) DEF WordsOf, UnstartedUnheard, ToldIn, Ev
  <2> QED
    BY ZenonT(60), <2>2, <2>3 DEF Onward
<1>3. TailKeptIn(s)'
  <2>1. \A i \in DOMAIN s : s[i] \in Routed
    OBVIOUS
  <2>2. \A e \in Routed : e.gen \in Gens
    BY ZenonT(60) DEF Routed
  <2> QED
    BY ZenonT(60), <2>1, <2>2 DEF WordsOf, TailKeptIn, Onward, IsClosure
<1>4. TruthfulIn(s, o)'
  <2> SUFFICES ASSUME NEW g \in Gens, g \notin cut'
               PROVE  /\ ToldIn(s, "crashed", g) => CrashTrue(g)'
                      /\ ToldIn(s, "finished", g) => FinishTrue(g)'
                      /\ g \in o /\ proc'[g].status # "ok" /\ ~ Asked(g)' => LastIn(s, g)
    BY ZenonT(60) DEF TruthfulIn, ToldIn, LastIn
  <2>1. g \notin cut
    BY ZenonT(60) DEF Onward
  <2>2. /\ ToldIn(s, "crashed", g) => CrashTrue(g)
        /\ ToldIn(s, "finished", g) => FinishTrue(g)
        /\ g \in o /\ proc[g].status # "ok" /\ ~ Asked(g) => LastIn(s, g)
    BY ZenonT(60), <2>1 DEF WordsOf, TruthfulIn
  <2>3. (CrashTrue(g) => CrashTrue(g)') /\ (FinishTrue(g) => FinishTrue(g)')
    BY ZenonT(60) DEF CrashTrue, FinishTrue, Onward, Statuses
  <2>4. g \in o /\ proc'[g].status # "ok" /\ ~ Asked(g)' => proc[g].status # "ok" /\ ~ Asked(g)
    BY ZenonT(60), <2>1 DEF Onward
  <2> QED
    BY ZenonT(60), <2>2, <2>3, <2>4
<1> QED
  BY ZenonT(60), <1>1, <1>2, <1>3, <1>4 DEF WordsOf

(* An event may be told when a step leaves the node in a state that bears it    *)
(* out: a message of an incarnation whose output is not closed, or a closure    *)
(* that is true and ends what was told of that incarnation.                     *)
MayTell(s, o, e) ==
    /\ ~ Unstarted(e.gen)'
    /\ e.kind = "msg" /\ (ToldIn(s, "finished", e.gen) \/ ToldIn(s, "crashed", e.gen)) => e.gen \in cut'
    /\ IsClosure(e) => \/ e.gen \in cut'
                       \/ /\ Mute(e.gen)' /\ e.gen \notin o
                          /\ e.kind = "crashed" => CrashTrue(e.gen)'
                          /\ e.kind = "finished" => FinishTrue(e.gen)'

(* Telling such an event keeps what is told true.                               *)
LEMMA TellingKeeps ==
    ASSUME NEW s \in Seq(Routed), NEW o, WordsOf(s, o)', NEW e \in Routed, MayTell(s, o, e)
    PROVE  WordsOf(Append(s, e), o)'
<1> DEFINE t == Append(s, e)
<1>1. /\ DOMAIN s = 1..Len(s) /\ DOMAIN t = 1..(Len(s) + 1) /\ Len(s) \in Nat
      /\ t[Len(s) + 1] = e /\ \A i \in 1..Len(s) : t[i] = s[i]
  OBVIOUS
<1>2. Range(t) = Range(s) \cup {e} /\ t \in Seq(Routed)
  BY ZenonT(60), RangeAppend
<1>3. e = Ev(e.kind, e.gen) /\ e.gen \in Gens
  BY ZenonT(60) DEF Routed, Ev
<1>4. \A kind, g : Ev(kind, g).kind = kind /\ Ev(kind, g).gen = g
  BY ZenonT(60) DEF Ev
<1> HIDE DEF t
<1>5. UnstartedUnheard(t)'
  BY ZenonT(60), <1>2 DEF WordsOf, UnstartedUnheard, MayTell
<1>6. ClosedMute(t)'
  <2> SUFFICES ASSUME NEW g \in Gens, g \notin cut', ToldIn(t, "finished", g) \/ ToldIn(t, "crashed", g)
               PROVE  Mute(g)'
    BY ZenonT(60) DEF ClosedMute, ToldIn
  <2>1. CASE ToldIn(s, "finished", g) \/ ToldIn(s, "crashed", g)
    BY ZenonT(60), <2>1 DEF WordsOf, ClosedMute, ToldIn
  <2>2. CASE ~(ToldIn(s, "finished", g) \/ ToldIn(s, "crashed", g))
    <3>1. e = Ev("finished", g) \/ e = Ev("crashed", g)
      BY ZenonT(60), <1>2, <2>2 DEF ToldIn
    <3>2. e.gen = g /\ IsClosure(e)
      BY ZenonT(60), <1>4, <3>1 DEF IsClosure
    <3> QED
      BY ZenonT(60), <3>2 DEF MayTell
  <2> QED
    BY ZenonT(60), <2>1, <2>2
<1>7. TailKeptIn(t)'
  <2> SUFFICES ASSUME NEW i \in DOMAIN t, NEW j \in DOMAIN t, i < j, IsClosure(t[i]),
                      t[j] = Ev("msg", t[i].gen)
               PROVE  t[i].gen \in cut'
    BY ZenonT(60) DEF TailKeptIn, IsClosure
  <2>1. i \in 1..Len(s) /\ t[i] = s[i]
    BY <1>1
  <2>2. CASE j \in 1..Len(s)
    BY ZenonT(60), <1>1, <2>1, <2>2 DEF WordsOf, TailKeptIn, IsClosure
  <2>3. CASE j = Len(s) + 1
    <3>1. e.kind = "msg" /\ e.gen = s[i].gen
      BY <1>1, <1>4, <2>1, <2>3
    <3>2. s[i] \in Routed /\ s[i] \in Range(s)
      BY <1>1, <2>1 DEF Range
    <3>3. s[i] = Ev(s[i].kind, s[i].gen)
      BY ZenonT(60), <3>2 DEF Routed, Ev
    <3>4. s[i] = Ev("finished", s[i].gen) \/ s[i] = Ev("crashed", s[i].gen)
      BY ZenonT(60), <2>1, <3>3 DEF IsClosure
    <3>5. ToldIn(s, "finished", e.gen) \/ ToldIn(s, "crashed", e.gen)
      BY ZenonT(60), <3>1, <3>2, <3>4 DEF ToldIn
    <3> QED
      BY ZenonT(60), <2>1, <3>1, <3>5 DEF MayTell
  <2> QED
    BY <1>1, <2>2, <2>3
<1>8. TruthfulIn(t, o)'
  <2> SUFFICES ASSUME NEW g \in Gens, g \notin cut'
               PROVE  /\ ToldIn(t, "crashed", g) => CrashTrue(g)'
                      /\ ToldIn(t, "finished", g) => FinishTrue(g)'
                      /\ g \in o /\ proc'[g].status # "ok" /\ ~ Asked(g)' => LastIn(t, g)
    BY ZenonT(60) DEF TruthfulIn, ToldIn, LastIn
  <2>1. /\ ToldIn(s, "crashed", g) => CrashTrue(g)'
        /\ ToldIn(s, "finished", g) => FinishTrue(g)'
        /\ g \in o /\ proc'[g].status # "ok" /\ ~ Asked(g)' => LastIn(s, g)
    BY ZenonT(60) DEF WordsOf, TruthfulIn, ToldIn, LastIn
  <2>2. ToldIn(t, "crashed", g) => ToldIn(s, "crashed", g) \/ e = Ev("crashed", g)
    BY ZenonT(60), <1>2 DEF ToldIn
  <2>3. ToldIn(t, "finished", g) => ToldIn(s, "finished", g) \/ e = Ev("finished", g)
    BY ZenonT(60), <1>2 DEF ToldIn
  <2>4. /\ e = Ev("crashed", g) => e.gen = g /\ e.kind = "crashed" /\ IsClosure(e)
        /\ e = Ev("finished", g) => e.gen = g /\ e.kind = "finished" /\ IsClosure(e)
    BY ZenonT(60), <1>4 DEF IsClosure
  <2>5. e = Ev("crashed", g) => CrashTrue(g)'
    BY ZenonT(60), <2>4 DEF MayTell
  <2>6. e = Ev("finished", g) => FinishTrue(g)' /\ g \notin o
    BY ZenonT(60), <2>4 DEF MayTell
  <2>7. ASSUME g \in o, LastIn(s, g)
        PROVE  LastIn(t, g)
    <3>1. PICK i \in DOMAIN s : /\ s[i] = Ev("crashed", g)
                                /\ \A j \in DOMAIN s : j > i => s[j] # Ev("finished", g)
      BY ZenonT(60), <2>7 DEF LastIn
    <3>2. i \in DOMAIN t /\ t[i] = Ev("crashed", g)
      BY <1>1, <3>1
    <3>3. ASSUME NEW j \in DOMAIN t, j > i
          PROVE  t[j] # Ev("finished", g)
      <4>1. CASE j \in 1..Len(s)
        BY ZenonT(60), <1>1, <3>1, <3>3, <4>1
      <4>2. CASE j = Len(s) + 1
        BY ZenonT(60), <1>1, <2>6, <2>7, <4>2
      <4> QED
        BY <1>1, <4>1, <4>2
    <3> QED
      BY ZenonT(60), <3>2, <3>3 DEF LastIn
  <2> QED
    BY ZenonT(60), <2>1, <2>2, <2>3, <2>5, <2>6, <2>7
<1> QED
  BY ZenonT(60), <1>5, <1>6, <1>7, <1>8 DEF WordsOf, t

(* The end of an incarnation may be accounted for once it has been told.        *)
LEMMA EndTold ==
    ASSUME NEW s \in Seq(Routed), NEW o, NEW g \in Gens, NEW kind \in {"finished", "crashed"},
           WordsOf(Append(s, Ev(kind, g)), o)',
           kind = "finished" => g \in cut' \/ proc'[g].status = "ok" \/ Asked(g)'
    PROVE  WordsOf(Append(s, Ev(kind, g)), o \cup {g})'
<1> DEFINE e == Ev(kind, g)
           t == Append(s, e)
<1>1. e \in Routed /\ (kind = "crashed" => e = Ev("crashed", g))
  BY ZenonT(60) DEF Ev, Routed
<1>2. /\ DOMAIN t = 1..(Len(s) + 1) /\ Len(s) \in Nat /\ t[Len(s) + 1] = e
  BY <1>1
<1> HIDE DEF t, e
<1>3. kind = "crashed" => LastIn(t, g)
  BY <1>1, <1>2 DEF LastIn
<1>4. TruthfulIn(t, o \cup {g})'
  <2>1. TruthfulIn(t, o)'
    BY ZenonT(60) DEF WordsOf, t, e
  <2>2. ASSUME NEW h \in Gens, h \notin cut'
        PROVE  h \in o \cup {g} /\ proc'[h].status # "ok" /\ ~ Asked(h)' => LastIn(t, h)
    <3>1. CASE h \in o
      BY ZenonT(60), <2>1, <2>2, <3>1 DEF TruthfulIn, LastIn
    <3>2. CASE h = g
      BY ZenonT(60), <1>3, <2>2, <3>2
    <3> QED
      BY ZenonT(60), <3>1, <3>2
  <2> QED
    BY ZenonT(60), <2>1, <2>2 DEF TruthfulIn, LastIn, ToldIn
<1> QED
  BY ZenonT(60), <1>4 DEF WordsOf, t, e

(* ------------------------------- processes -------------------------------- *)

(* The daemon's records of the node.                                            *)
daemon == <<world, node, draining, deferred, armed, over, cut, waited>>

(* What the fields of the invariants' records are.                              *)
LEMMA Fields ==
    ASSUME Types
    PROVE  /\ node.gen \in Gens /\ node.state \in States /\ node.handle \in BOOLEAN
           /\ node.intent \in Intents /\ node.history \in Nat
           /\ \A g \in Gens : /\ proc[g] \in Process /\ sock[g] \in Seq(Frames)
                              /\ proc[g].at \in Places /\ proc[g].done \in BOOLEAN
                              /\ proc[g].status \in Statuses \cup {"none"}
           /\ \A x \in exits : x.gen \in Gens /\ x.status \in Statuses
           /\ \A x \in draining : x.gen \in Gens /\ x.cause \in Causes
           /\ \A x \in armed : x.table \in Deadlines /\ x.gen \in Gens
           /\ Gens \subseteq Nat
<1>1. node.gen \in Gens /\ node.state \in States /\ node.handle \in BOOLEAN
      /\ node.intent \in Intents /\ node.history \in Nat
  BY ZenonT(60) DEF Types, NodeRecord
<1>2. ASSUME NEW g \in Gens
      PROVE  /\ proc[g] \in Process /\ sock[g] \in Seq(Frames)
             /\ proc[g].at \in Places /\ proc[g].done \in BOOLEAN
             /\ proc[g].status \in Statuses \cup {"none"}
  <2>1. proc[g] \in Process /\ sock[g] \in Seq(Frames)
    BY ZenonT(60), <1>2 DEF Types
  <2> QED
    BY ZenonT(60), <2>1 DEF Process
<1>3. /\ \A x \in exits : x.gen \in Gens /\ x.status \in Statuses
      /\ \A x \in draining : x.gen \in Gens /\ x.cause \in Causes
      /\ \A x \in armed : x.table \in Deadlines /\ x.gen \in Gens
  BY ZenonT(60) DEF Types
<1>4. Gens \subseteq Nat
  BY NodeLifeAssumption DEF Gens
<1> QED
  BY ZenonT(60), <1>1, <1>2, <1>3, <1>4

(* A process g that goes on to q and writes the frames t, and dies if it is     *)
(* gone after that: Core holds if its session still is one.                     *)
Moves(g, q, t) ==
    /\ proc' = [proc EXCEPT ![g] = q]
    /\ sock' = [sock EXCEPT ![g] = t]
    /\ exits' = IF q.at = "gone" THEN exits \cup {[gen |-> g, status |-> q.status]} ELSE exits

(* What is true of one that does.                                               *)
Legal(g, q, t) ==
    /\ g \in Gens /\ Alive(g)
    /\ q \in Process /\ t \in Seq(Frames) /\ Ordered(t)
    /\ q.at \in {"up", "quiet", "shut", "gone"}
    /\ q.at = "gone" => q.status \in Statuses
    /\ q.at # "gone" => q.status = "none"
    /\ proc[g].done => q.done
    /\ \A f \in {"msg", "done", "close"} : f \in Range(t) => g \in bound
    /\ "done" \in Range(t) => q.done /\ q.at # "up"
    /\ \A f \in {"close", "eof"} : f \in Range(t) => q.at \in {"shut", "gone"}
    /\ Mute(g) => q.at # "up" /\ "msg" \notin Range(t)

(* Only the current incarnation lives, and it is not accounted for unless cut.  *)
LEMMA LivingCurrent ==
    ASSUME Core, NEW g \in Gens, Alive(g)
    PROVE  /\ g = node.gen /\ node.handle /\ draining = {} /\ ~ Unstarted(g)
           /\ \A x \in exits : x.gen # g
           /\ g \in over => g \in cut
           /\ proc[g].status = "none"
<1>1. g = node.gen /\ node.handle
  BY ZenonT(60) DEF Core, NoOrphan
<1>2. proc[g].at \notin {"none", "gone"}
  BY ZenonT(60) DEF Alive
<1>3. draining = {}
  BY ZenonT(60), <1>1, <1>2 DEF Core, DrainingReal
<1>4. ~ Unstarted(g)
  BY <1>2 DEF Core, Fresh, NoProcess
<1>5. \A x \in exits : x.gen # g
  BY ZenonT(60), <1>2 DEF Core, ExitsReal
<1>6. g \in over => g \in cut
  BY ZenonT(60), <1>2 DEF Core, Accounted
<1>7. proc[g].status = "none"
  BY ZenonT(60), <1>2 DEF Core, Session
<1> QED
  BY ZenonT(60), <1>1, <1>3, <1>4, <1>5, <1>6, <1>7

(* What a step of a process, or the handling of one of its frames, leaves.      *)
Processes ==
    /\ proc' \in [Gens -> Process] /\ sock' \in [Gens -> Seq(Frames)]
    /\ exits' \subseteq [gen : Gens, status : Statuses]
    /\ ExitsReal'
    /\ \A h \in Gens :
        /\ Session(h)'
        /\ Mute(h) => Mute(h)'
        /\ Alive(h)' => Alive(h)
        /\ ~ Alive(h) => proc'[h] = proc[h] /\ Range(sock'[h]) \subseteq Range(sock[h])
        /\ ~ Alive(h) /\ sock[h] = <<>> => sock'[h] = <<>>
        /\ proc[h].status \in Statuses => proc'[h].status = proc[h].status
        /\ proc[h].done => proc'[h].done
    /\ \A x \in exits' : x \in exits \/ Alive(x.gen)

(* A legal move is such a step.                                                 *)
LEMMA MovesProcesses ==
    ASSUME Core, NEW g, NEW q, NEW t, Legal(g, q, t), Moves(g, q, t), bound' = bound
    PROVE  Processes
<1>1. /\ g \in Gens /\ q \in Process /\ t \in Seq(Frames) /\ Alive(g)
      /\ q.at \in {"up", "quiet", "shut", "gone"}
  BY ZenonT(60) DEF Legal
<1>2. Types
  BY ZenonT(60) DEF Core
<1>3. /\ proc' \in [Gens -> Process] /\ sock' \in [Gens -> Seq(Frames)]
      /\ proc'[g] = q /\ sock'[g] = t
      /\ \A h \in Gens : h # g => proc'[h] = proc[h] /\ sock'[h] = sock[h]
  BY ZenonT(60), <1>1, <1>2 DEF Types, Moves
<1>4. \A x \in exits' : x \in exits \/ (x.gen = g /\ q.at = "gone" /\ x.status = q.status)
  BY DEF Moves
<1>5. exits' \subseteq [gen : Gens, status : Statuses]
  BY <1>1, <1>2 DEF Types, Moves, Legal
<1>6. \A x \in exits : x.gen # g /\ x.gen \in Gens
  BY ZenonT(60), <1>1, <1>2, LivingCurrent, Fields
<1>7. ExitsReal'
  <2> SUFFICES ASSUME NEW x \in exits'
               PROVE  proc'[x.gen].at = "gone" /\ proc'[x.gen].status = x.status
    BY ZenonT(60) DEF ExitsReal
  <2>1. CASE x \in exits
    BY ZenonT(60), <1>3, <1>6, <2>1 DEF Core, ExitsReal
  <2>2. CASE x \notin exits
    BY ZenonT(60), <1>3, <1>4, <2>2
  <2> QED
    BY ZenonT(60), <2>1, <2>2
<1>8. ASSUME NEW h \in Gens
      PROVE  /\ Session(h)'
             /\ Mute(h) => Mute(h)'
             /\ Alive(h)' => Alive(h)
             /\ ~ Alive(h) => proc'[h] = proc[h] /\ Range(sock'[h]) \subseteq Range(sock[h])
             /\ ~ Alive(h) /\ sock[h] = <<>> => sock'[h] = <<>>
             /\ proc[h].status \in Statuses => proc'[h].status = proc[h].status
             /\ proc[h].done => proc'[h].done
  <2>1. CASE h # g
    <3>1. proc'[h] = proc[h] /\ sock'[h] = sock[h]
      BY ZenonT(60), <1>3, <2>1
    <3>2. Session(h)
      BY ZenonT(60) DEF Core
    <3> QED
      BY ZenonT(60), <3>1, <3>2 DEF Session, Mute, Alive
  <2>2. CASE h = g
    <3>1. Session(h)'
      BY ZenonT(60), <1>1, <1>3, <2>2 DEF Session, Legal
    <3>2. Mute(h) => Mute(h)'
      BY ZenonT(60), <1>1, <1>3, <2>2 DEF Mute, Legal
    <3>3. proc[g].status = "none" /\ (proc[g].done => q.done)
      BY ZenonT(60), <1>1, LivingCurrent DEF Legal
    <3> QED
      BY ZenonT(60), <1>1, <1>3, <2>2, <3>1, <3>2, <3>3 DEF Alive, Statuses
  <2> QED
    BY ZenonT(60), <2>1, <2>2
<1> QED
  BY ZenonT(60), <1>1, <1>3, <1>4, <1>5, <1>7, <1>8 DEF Processes

(* A process that ends makes a legal move.                                      *)
LEMMA DyingIsLegal ==
    ASSUME Core, NEW g \in Gens, Alive(g), NEW status \in Statuses, Dies(g, status)
    PROVE  \E q, t : Legal(g, q, t) /\ Moves(g, q, t) /\ q.at = "gone"
<1> DEFINE q == [proc[g] EXCEPT !.at = "gone", !.status = status]
           t == IF proc[g].at \in {"up", "quiet"} THEN Append(sock[g], "eof") ELSE sock[g]
<1>0. Types /\ Session(g)
  BY ZenonT(60) DEF Core
<1>1. /\ proc[g] \in Process /\ sock[g] \in Seq(Frames) /\ proc[g].at \in {"boot", "up", "quiet", "shut"}
      /\ proc[g].done \in BOOLEAN
  BY ZenonT(60), <1>0, Fields DEF Alive
<1>2. /\ q \in Process /\ q.at = "gone" /\ q.status = status /\ q.done = proc[g].done
  BY Zenon, <1>1 DEF Process, Places
<1>3. proc' = [proc EXCEPT ![g] = q]
  BY Zenon, <1>0 DEF Types, Dies
<1>4. sock' = [sock EXCEPT ![g] = t]
  <2>1. CASE proc[g].at \in {"up", "quiet"}
    BY ZenonT(60), <2>1 DEF Dies
  <2>2. CASE proc[g].at \notin {"up", "quiet"}
    BY ZenonT(60), <1>0, <2>2 DEF Dies, Types
  <2> QED
    BY ZenonT(60), <2>1, <2>2
<1>5. Moves(g, q, t)
  <2> HIDE DEF q, t
  <2> QED
    BY Zenon, <1>2, <1>3, <1>4 DEF Moves, Dies
<1>6. t \in Seq(Frames) /\ Range(t) \subseteq Range(sock[g]) \cup {"eof"} /\ Ordered(t)
  <2>1. CASE proc[g].at \in {"up", "quiet"}
    <3>1. "eof" \notin Range(sock[g])
      BY ZenonT(60), <1>0, <2>1 DEF Session
    <3>2. Range(Append(sock[g], "eof")) = Range(sock[g]) \cup {"eof"} /\ Append(sock[g], "eof") \in Seq(Frames)
      BY ZenonT(60), <1>1, RangeAppend DEF Frames
    <3>3. Ordered(Append(sock[g], "eof"))
      BY ZenonT(60), <1>0, <1>1, <3>1, OrderedAppend DEF Session, Frames
    <3> QED
      BY ZenonT(60), <2>1, <3>2, <3>3
  <2>2. CASE proc[g].at \notin {"up", "quiet"}
    BY ZenonT(60), <1>0, <1>1, <2>2 DEF Session
  <2> QED
    BY ZenonT(60), <2>1, <2>2
<1> HIDE DEF q, t
<1>7. Legal(g, q, t)
  BY ZenonT(60), <1>0, <1>1, <1>2, <1>6 DEF Legal, Session, Mute
<1> QED
  BY ZenonT(60), <1>2, <1>5, <1>7

(* A step that starts no process keeps Core, if it keeps the processes in order *)
(* and accounts only for what has ended.                                        *)
LEMMA CoreKept ==
    ASSUME Core, Processes, Types', Budget', Handled', Watched', NoOrphan', DrainingReal',
           \A h \in Gens : Unstarted(h)' => Unstarted(h),
           \A h \in Gens : Unstarted(h)' => h \notin bound' /\ h \notin over' /\ h \notin deferred',
           \A h \in over' \ cut' :
              \/ h \in over \ cut /\ (h \in deferred' => h \in deferred)
              \/ /\ proc'[h].at \in {"none", "gone"} /\ h \notin deferred'
                 /\ \A f \in {"msg", "done", "close"} : f \notin Range(sock'[h])
                 /\ \A x \in exits' : x.gen # h,
           \A h \in deferred' : h \in deferred \/ Mute(h)'
    PROVE  Core'
<1>0. Types
  BY ZenonT(60) DEF Core
<1>2. Fresh'
  <2> SUFFICES ASSUME NEW h \in Gens, Unstarted(h)'
               PROVE  /\ proc'[h] = NoProcess /\ sock'[h] = <<>>
                      /\ h \notin bound' /\ h \notin over' /\ h \notin deferred'
    BY ZenonT(60) DEF Fresh, NoProcess
  <2>1. Unstarted(h)
    BY ZenonT(60)
  <2>2. proc[h] = NoProcess /\ sock[h] = <<>>
    BY ZenonT(60), <2>1 DEF Core, Fresh
  <2>3. ~ Alive(h)
    BY <2>2 DEF Alive, NoProcess
  <2> QED
    BY ZenonT(60), <2>1, <2>2, <2>3 DEF Processes
<1>3. Accounted'
  <2> SUFFICES ASSUME NEW h \in over', h \notin cut'
               PROVE  /\ proc'[h].at \in {"none", "gone"} /\ h \notin deferred'
                      /\ \A f \in {"msg", "done", "close"} : f \notin Range(sock'[h])
                      /\ \A x \in exits' : x.gen # h
    BY ZenonT(60) DEF Accounted
  <2>1. CASE h \in over \ cut /\ (h \in deferred' => h \in deferred)
    <3>1. h \in Gens
      BY ZenonT(60), <1>0, <2>1 DEF Types
    <3>2. /\ proc[h].at \in {"none", "gone"} /\ h \notin deferred
          /\ \A f \in {"msg", "done", "close"} : f \notin Range(sock[h])
          /\ \A x \in exits : x.gen # h
      BY ZenonT(60), <2>1 DEF Core, Accounted
    <3>3. ~ Alive(h)
      BY ZenonT(60), <3>2 DEF Alive
    <3>4. proc'[h] = proc[h] /\ Range(sock'[h]) \subseteq Range(sock[h])
      BY ZenonT(60), <3>1, <3>3 DEF Processes
    <3>5. \A x \in exits' : x.gen # h
      BY ZenonT(60), <3>2, <3>3 DEF Processes
    <3> QED
      BY ZenonT(60), <2>1, <3>2, <3>4, <3>5
  <2> QED
    BY ZenonT(60), <2>1
<1>4. DeferredMute'
  <2> SUFFICES ASSUME NEW h \in deferred' PROVE Mute(h)'
    BY ZenonT(60) DEF DeferredMute
  <2>1. h \in Gens
    BY ZenonT(60) DEF Types
  <2> QED
    BY ZenonT(60), <2>1 DEF Core, DeferredMute, Processes
<1>5. ExitsReal' /\ \A h \in Gens : Session(h)'
  BY ZenonT(60) DEF Processes
<1> QED
  BY ZenonT(60), <1>2, <1>3, <1>4, <1>5 DEF Core

(* The node goes on as the incarnation it is, with the process it has.          *)
LEMMA SameIncarnation ==
    ASSUME Core, Processes, node'.gen = node.gen, node'.state = "pending" <=> node.state = "pending",
           node.handle => node'.handle \/ ~ Alive(node.gen)'
    PROVE  NoOrphan' /\ \A h \in Gens : Unstarted(h)' <=> Unstarted(h)
<1>1. NoOrphan'
  BY ZenonT(60) DEF NoOrphan, Core, Processes
<1> QED
  BY ZenonT(60), <1>1 DEF Unstarted

(* Such a step goes onward.                                                     *)
LEMMA GoesOnward ==
    ASSUME Core, Processes, world' = world,
           \A h \in Gens : Unstarted(h)' => Unstarted(h),
           node.intent # "running" => node'.gen = node.gen /\ node'.intent # "running",
           cut \subseteq cut', waited \subseteq waited'
    PROVE  Onward
<1>1. ASSUME NEW g \in Gens, g \in over \ cut
      PROVE  proc'[g] = proc[g]
  <2>1. ~ Alive(g)
    BY ZenonT(60), <1>1 DEF Core, Accounted, Alive
  <2> QED
    BY Zenon, <2>1 DEF Processes
<1> QED
  BY ZenonT(60), <1>1 DEF Onward, Processes, Asked

(* An exit that waits goes on waiting while the node stays as it is.            *)
LEMMA DrainingKept ==
    ASSUME Core, Processes, draining' \subseteq draining,
           draining # {} => node'.gen = node.gen /\ node'.state = node.state,
           node.intent # "running" => node'.intent # "running",
           cut \subseteq cut', over' \subseteq over \cup cut'
    PROVE  DrainingReal'
<1> SUFFICES ASSUME NEW x \in draining'
             PROVE  /\ x.gen = node'.gen /\ Terminal(node')
                    /\ proc'[x.gen].at = "gone" /\ \A e \in exits' : e.gen # x.gen
                    /\ IsFailure(x.cause) => proc'[x.gen].status \in {"fail", "signal"}
                    /\ ~ IsFailure(x.cause) => proc'[x.gen].status = "ok" \/ node'.intent # "running"
                    /\ x.gen \in over' => x.gen \in cut'
  BY ZenonT(60) DEF DrainingReal, IsFailure, Terminal
<1>0. Types
  BY ZenonT(60) DEF Core
<1>1. /\ x \in draining /\ x.gen \in Gens
  BY ZenonT(60), <1>0, Fields
<1>2. /\ x.gen = node.gen /\ Terminal(node)
      /\ proc[x.gen].at = "gone" /\ \A e \in exits : e.gen # x.gen
      /\ IsFailure(x.cause) => proc[x.gen].status \in {"fail", "signal"}
      /\ ~ IsFailure(x.cause) => proc[x.gen].status = "ok" \/ node.intent # "running"
      /\ x.gen \in over => x.gen \in cut
  BY ZenonT(60), <1>1 DEF Core, DrainingReal
<1>3. ~ Alive(x.gen)
  BY ZenonT(60), <1>2 DEF Alive
<1>4. proc'[x.gen] = proc[x.gen]
  BY ZenonT(60), <1>1, <1>3 DEF Processes
<1>5. \A e \in exits' : e.gen # x.gen
  BY ZenonT(60), <1>2, <1>3 DEF Processes
<1>6. node'.gen = node.gen /\ Terminal(node')
  BY ZenonT(60), <1>1, <1>2 DEF Terminal
<1>7. x.gen \in over' => x.gen \in cut'
  BY ZenonT(60), <1>2
<1> QED
  BY ZenonT(60), <1>2, <1>4, <1>5, <1>6, <1>7

(* What is told stays true when nothing new is told.                            *)
LEMMA NothingTold ==
    ASSUME Words, Onward, Keeps(peer, peer'), over' = over
    PROVE  Words'
<1>1. peer'.said = peer.said /\ peer.said \in Seq(Routed) /\ "said" \in DOMAIN peer'
  BY ZenonT(60) DEF Words, Keeps
<1>2. ASSUME NEW s \in Seq(Routed), s = peer.said, NEW o, o = over
      PROVE  WordsOf(s, o)'
  <2>1. WordsOf(s, o)
    BY ZenonT(60), <1>2 DEF Words
  <2> QED
    BY ZenonT(60), <1>2, <2>1, StaysTrue
<1>3. WordsOf(peer.said, over)'
  BY ZenonT(60), <1>1, <1>2
<1> QED
  BY ZenonT(60), <1>1, <1>3 DEF Words

(* What is told stays true when an event is told that may be.                   *)
LEMMA EventTold ==
    ASSUME Words, Onward, NEW e \in Routed, Adds(peer, peer', e), over' = over,
           MayTell(peer.said, over, e)
    PROVE  Words'
<1>1. peer'.said = Append(peer.said, e) /\ peer.said \in Seq(Routed) /\ "said" \in DOMAIN peer'
  BY ZenonT(60) DEF Words, Adds
<1>2. ASSUME NEW s \in Seq(Routed), s = peer.said, NEW o, o = over
      PROVE  WordsOf(Append(s, e), o)'
  <2>1. WordsOf(s, o)
    BY ZenonT(60), <1>2 DEF Words
  <2>2. WordsOf(s, o)'
    BY ZenonT(60), <1>2, <2>1, StaysTrue
  <2>3. MayTell(s, o, e)
    BY ZenonT(60), <1>2
  <2> QED
    BY ZenonT(60), <2>2, <2>3, TellingKeeps
<1>3. WordsOf(peer.said, over)'
  <2> DEFINE s == peer.said
             o == over
  <2>1. s \in Seq(Routed)
    BY ZenonT(60), <1>1
  <2>2. \A t \in Seq(Routed) : \A u : t = peer.said /\ u = over => WordsOf(Append(t, e), u)'
    BY ZenonT(60), <1>2
  <2> QED
    BY ZenonT(60), <1>1, <2>2
<1>4. peer'.said \in Seq(Routed)
  BY <1>1, RangeAppend
<1> QED
  BY ZenonT(60), <1>1, <1>3, <1>4 DEF Words

(* The processes in order and the daemon's records of the node as they were.    *)
LEMMA DaemonAsleep ==
    ASSUME Core, Processes, UNCHANGED daemon, bound' \subseteq bound
    PROVE  Core' /\ Onward /\ \A h \in Gens : Unstarted(h)' <=> Unstarted(h)
<1>0. Types
  BY ZenonT(60) DEF Core
<1>1. Types'
  BY ZenonT(60), <1>0 DEF Types, Processes, daemon
<1>2. Budget' /\ Handled' /\ Watched'
  BY ZenonT(60) DEF Core, Budget, Handled, Watched, daemon
<1>3. DrainingReal'
  BY ZenonT(60), DrainingKept DEF daemon
<1>4. NoOrphan' /\ \A h \in Gens : Unstarted(h)' <=> Unstarted(h)
  BY ZenonT(60), SameIncarnation DEF daemon
<1>5. \A h \in Gens : Unstarted(h)' => h \notin bound' /\ h \notin over' /\ h \notin deferred'
  BY ZenonT(60), <1>4 DEF daemon, Core, Fresh
<1>6. Core'
  BY ZenonT(60), <1>1, <1>2, <1>3, <1>4, <1>5, CoreKept DEF daemon
<1>7. Onward
  BY ZenonT(60), <1>4, GoesOnward DEF daemon
<1> QED
  BY ZenonT(60), <1>4, <1>6, <1>7

(* If nothing is told either, nothing breaks.                                   *)
LEMMA QuietDaemon ==
    ASSUME Core, Words, Processes, UNCHANGED daemon, bound' \subseteq bound, Keeps(peer, peer')
    PROVE  Core' /\ Words'
<1>1. Core' /\ Onward
  BY ZenonT(60), DaemonAsleep
<1>2. over' = over
  BY ZenonT(60) DEF daemon
<1> QED
  BY ZenonT(60), <1>1, <1>2, NothingTold

(* A process connects, publishes, closes its output or shuts down.              *)
LEMMA WritingIsLegal ==
    ASSUME Core, NEW g \in Gens, Connect(g) \/ Publish(g) \/ CloseOutput(g) \/ Shutdown(g),
           UNCHANGED exits
    PROVE  \E q, t : Legal(g, q, t) /\ Moves(g, q, t)
<1>0. Types /\ Session(g)
  BY ZenonT(60) DEF Core
<1>1. /\ proc[g] \in Process /\ sock[g] \in Seq(Frames) /\ proc[g].done \in BOOLEAN /\ proc[g].left \in Nat
      /\ Ordered(sock[g])
  BY ZenonT(60), <1>0, Fields DEF Process, Session
<1>2. CASE Connect(g)
  <2> DEFINE q == [proc[g] EXCEPT !.at = "up"]
             t == Append(sock[g], "register")
  <2>1. proc[g].at = "boot" /\ sock[g] = <<>> /\ g \notin bound /\ proc[g].status = "none"
    BY ZenonT(60), <1>0, <1>2 DEF Connect, Writes, Session
  <2>2. q \in Process /\ q.at = "up" /\ q.status = "none" /\ q.done = proc[g].done
    BY ZenonT(60), <1>1, <2>1 DEF Process, Places
  <2>3. t \in Seq(Frames) /\ Range(t) = {"register"} /\ Ordered(t)
    <3>1. Range(sock[g]) = {}
      BY <2>1 DEF Range
    <3>2. Range(t) = Range(sock[g]) \cup {"register"} /\ t \in Seq(Frames)
      BY ZenonT(60), <1>1, RangeAppend DEF Frames
    <3>3. Ordered(t)
      BY ZenonT(60), <1>1, <3>1, OrderedAppend DEF Frames
    <3> QED
      BY ZenonT(60), <3>1, <3>2, <3>3
  <2>4. sock[g] \o <<"register">> = t
    BY <1>1, ConcatTwo DEF Frames
  <2>5. proc' = [proc EXCEPT ![g] = q] /\ sock' = [sock EXCEPT ![g] = t]
    BY Zenon, <1>0, <1>2, <2>4 DEF Connect, Writes, Types
  <2> HIDE DEF q, t
  <2>6. Legal(g, q, t)
    BY ZenonT(60), <1>1, <2>1, <2>2, <2>3 DEF Legal, Alive, Mute
  <2> QED
    BY ZenonT(60), <2>2, <2>5, <2>6 DEF Moves
<1>3. CASE Publish(g)
  <2> DEFINE q == [proc[g] EXCEPT !.left = @ - 1]
             t == Append(sock[g], "msg")
  <2>1. proc[g].at = "up" /\ g \in bound /\ proc[g].status = "none" /\ proc[g].left > 0
    BY ZenonT(60), <1>0, <1>3 DEF Publish, Session
  <2>2. q \in Process /\ q.at = "up" /\ q.status = "none" /\ q.done = proc[g].done
    BY <1>1, <2>1 DEF Process, Places
  <2>3. "eof" \notin Range(sock[g]) /\ "done" \notin Range(sock[g]) /\ "close" \notin Range(sock[g])
    BY ZenonT(60), <1>0, <2>1 DEF Session
  <2>4. Range(t) = Range(sock[g]) \cup {"msg"} /\ t \in Seq(Frames)
    BY ZenonT(60), <1>1, RangeAppend DEF Frames
  <2>5. Ordered(t)
    BY ZenonT(60), <1>1, <2>3, OrderedAppend DEF Frames
  <2>6. proc' = [proc EXCEPT ![g] = q] /\ sock' = [sock EXCEPT ![g] = t]
    BY ZenonT(60), <1>0, <1>3 DEF Publish, Types
  <2> HIDE DEF q, t
  <2>7. Legal(g, q, t)
    BY ZenonT(60), <1>1, <2>1, <2>2, <2>3, <2>4, <2>5 DEF Legal, Alive, Mute
  <2> QED
    BY Zenon, <2>2, <2>6, <2>7 DEF Moves
<1>4. CASE CloseOutput(g)
  <2> DEFINE q == [proc[g] EXCEPT !.at = "quiet", !.done = TRUE]
             t == Append(sock[g], "done")
  <2>1. proc[g].at = "up" /\ g \in bound /\ proc[g].status = "none"
    BY ZenonT(60), <1>0, <1>4 DEF CloseOutput, Session
  <2>2. q \in Process /\ q.at = "quiet" /\ q.status = "none" /\ q.done
    BY Zenon, <1>1, <2>1 DEF Process, Places
  <2>3. "eof" \notin Range(sock[g]) /\ "done" \notin Range(sock[g]) /\ "close" \notin Range(sock[g])
    BY ZenonT(60), <1>0, <2>1 DEF Session
  <2>4. Range(t) = Range(sock[g]) \cup {"done"} /\ t \in Seq(Frames)
    BY ZenonT(60), <1>1, RangeAppend DEF Frames
  <2>5. Ordered(t)
    BY ZenonT(60), <1>1, <2>3, OrderedAppend DEF Frames
  <2>6. proc' = [proc EXCEPT ![g] = q] /\ sock' = [sock EXCEPT ![g] = t]
    BY Zenon, <1>0, <1>4 DEF CloseOutput, Types
  <2> HIDE DEF q, t
  <2>7. Legal(g, q, t)
    BY ZenonT(60), <1>1, <2>1, <2>2, <2>3, <2>4, <2>5 DEF Legal, Alive, Mute
  <2> QED
    BY Zenon, <2>2, <2>6, <2>7 DEF Moves
<1>5. CASE Shutdown(g)
  <2> DEFINE q == [proc[g] EXCEPT !.at = "shut"]
             u == Append(sock[g], "close")
             t == Append(u, "eof")
  <2>1. proc[g].at \in {"up", "quiet"} /\ g \in bound /\ proc[g].status = "none"
    BY ZenonT(60), <1>0, <1>5 DEF Shutdown, Writes, Session
  <2>2. q \in Process /\ q.at = "shut" /\ q.status = "none" /\ q.done = proc[g].done
    BY ZenonT(60), <1>1, <2>1 DEF Process, Places
  <2>3. "eof" \notin Range(sock[g])
    BY ZenonT(60), <1>0, <2>1 DEF Session
  <2>4. Range(u) = Range(sock[g]) \cup {"close"} /\ u \in Seq(Frames)
    BY ZenonT(60), <1>1, RangeAppend DEF Frames
  <2>5. Ordered(u)
    BY ZenonT(60), <1>1, <2>3, OrderedAppend DEF Frames
  <2>6. sock[g] \o <<"close", "eof">> = t
    BY <1>1, ConcatTwo DEF Frames
  <2>7. proc' = [proc EXCEPT ![g] = q] /\ sock' = [sock EXCEPT ![g] = t]
    BY Zenon, <1>0, <1>5, <2>6 DEF Shutdown, Writes, Types
  <2> HIDE DEF q, u
  <2>8. Range(t) = Range(sock[g]) \cup {"close", "eof"} /\ t \in Seq(Frames)
    <3>1. Range(t) = Range(u) \cup {"eof"} /\ t \in Seq(Frames)
      BY ZenonT(60), <2>4, RangeAppend DEF Frames
    <3> QED
      BY ZenonT(60), <2>4, <3>1
  <2>9. Ordered(t)
    BY ZenonT(60), <2>3, <2>4, <2>5, OrderedAppend DEF Frames
  <2> HIDE DEF t
  <2>10. Legal(g, q, t)
    BY ZenonT(60), <1>0, <1>1, <2>1, <2>2, <2>3, <2>8, <2>9 DEF Legal, Alive, Mute, Session
  <2> QED
    BY Zenon, <2>2, <2>7, <2>10 DEF Moves
<1> QED
  BY ZenonT(60), <1>2, <1>3, <1>4, <1>5

(* Whatever the process of an incarnation does, nothing breaks.                 *)
LEMMA LivesStep ==
    ASSUME Core, Words, NEW g \in Gens, Lives(g)
    PROVE  Core' /\ Words'
<1>1. UNCHANGED daemon /\ bound' = bound /\ peer' = peer
  BY ZenonT(60) DEF Lives, daemon
<1>2. \E q, t : Legal(g, q, t) /\ Moves(g, q, t)
  <2>1. CASE (Connect(g) \/ Publish(g) \/ CloseOutput(g) \/ Shutdown(g)) /\ UNCHANGED exits
    BY ZenonT(60), <2>1, WritingIsLegal
  <2>2. CASE Exit(g)
    <3>1. PICK status \in world.ends : Dies(g, status)
      BY ZenonT(60), <2>2 DEF Exit
    <3>2. world.ends \subseteq Statuses
      BY ZenonT(60) DEF Core, Types, World, Statuses
    <3> QED
      BY ZenonT(60), <2>2, <3>1, <3>2, DyingIsLegal DEF Exit
  <2> QED
    BY ZenonT(60), <2>1, <2>2 DEF Lives
<1>3. Processes
  BY ZenonT(60), <1>1, <1>2, MovesProcesses
<1>4. Keeps(peer, peer')
  BY ZenonT(60), <1>1 DEF Keeps, Words
<1> QED
  BY ZenonT(60), <1>1, <1>3, <1>4, QuietDaemon

(* -------------------------------- the loop -------------------------------- *)

(* The next frame of a session is taken.  Its session is bound or unbound by    *)
(* the way, the latter only at its end.                                         *)
LEMMA FrameTaken ==
    ASSUME Core, NEW g \in Gens, sock[g] # <<>>, sock' = [sock EXCEPT ![g] = Tail(@)],
           proc' = proc, exits' = exits,
           \A h \in Gens : h # g => (h \in bound' <=> h \in bound),
           g \in bound => g \in bound' \/ Head(sock[g]) = "eof"
    PROVE  /\ Processes /\ ~ Unstarted(g) /\ Head(sock[g]) \in Range(sock[g])
           /\ Head(sock[g]) \in Frames
           /\ Head(sock[g]) = "eof" => sock'[g] = <<>> /\ Mute(g)'
           /\ Head(sock[g]) \in {"done", "close"} => Mute(g)' /\ g \in bound
<1>0. Types /\ Session(g)
  BY ZenonT(60) DEF Core
<1>1. sock[g] \in Seq(Frames) /\ sock \in [Gens -> Seq(Frames)] /\ Ordered(sock[g])
  BY ZenonT(60), <1>0, Fields DEF Types, Session
<1>2. /\ Tail(sock[g]) \in Seq(Frames) /\ Head(sock[g]) \in Range(sock[g]) /\ Head(sock[g]) \in Frames
      /\ Range(Tail(sock[g])) \subseteq Range(sock[g])
  BY ZenonT(60), <1>1, RangeTail
<1>3. /\ Ordered(Tail(sock[g]))
      /\ Head(sock[g]) = "eof" => Tail(sock[g]) = <<>>
      /\ Head(sock[g]) \in {"done", "close"} => "msg" \notin Range(Tail(sock[g]))
  BY ZenonT(60), <1>1, OrderedTail
<1>4. /\ sock' \in [Gens -> Seq(Frames)] /\ sock'[g] = Tail(sock[g])
      /\ \A h \in Gens : h # g => sock'[h] = sock[h]
  BY ZenonT(60), <1>1, <1>2
<1>5. proc[g].at \notin {"none", "boot"}
  BY ZenonT(60), <1>0 DEF Session
<1>6. ~ Unstarted(g)
  BY ZenonT(60) DEF Core, Fresh
<1>7. Range(<<>>) = {}
  BY DEF Range
<1>8. ASSUME NEW h \in Gens
      PROVE  Session(h)' /\ (Mute(h) => Mute(h)') /\ Range(sock'[h]) \subseteq Range(sock[h])
  <2>1. CASE h # g
    BY ZenonT(60), <1>4, <2>1 DEF Core, Session, Mute
  <2>2. CASE h = g
    <3>1. Session(g)'
      BY Zenon, <1>0, <1>2, <1>3, <1>4, <1>5, <1>7 DEF Session
    <3> QED
      BY ZenonT(60), <1>2, <1>4, <2>2, <3>1 DEF Mute
  <2> QED
    BY ZenonT(60), <2>1, <2>2
<1>9. Processes
  <2>1. ExitsReal'
    BY ZenonT(60) DEF Core, ExitsReal
  <2>2. proc' \in [Gens -> Process] /\ exits' \subseteq [gen : Gens, status : Statuses]
    BY ZenonT(60), <1>0 DEF Types
  <2>3. \A h \in Gens : sock[h] = <<>> => sock'[h] = <<>>
    BY ZenonT(60), <1>4
  <2> QED
    BY ZenonT(60), <1>4, <1>8, <2>1, <2>2, <2>3 DEF Processes, Alive
<1>10. Head(sock[g]) = "eof" => Mute(g)'
  BY Zenon, <1>0, <1>2, <1>3, <1>4, <1>7 DEF Session, Mute
<1>11. Head(sock[g]) \in {"done", "close"} => Mute(g)' /\ g \in bound
  BY ZenonT(60), <1>0, <1>2, <1>3, <1>4, <1>5 DEF Session, Mute
<1> QED
  BY ZenonT(60), <1>2, <1>3, <1>4, <1>6, <1>9, <1>10, <1>11

(* Processes left alone, but for reports of their exits that are taken.         *)
LEMMA ProcessesAlone ==
    ASSUME Core, proc' = proc, sock' = sock, exits' \subseteq exits, bound' = bound
    PROVE  Processes
  BY ZenonT(60) DEF Core, Types, Processes, ExitsReal, Session, Mute, Alive

(* What after_exit makes of the node, the deadlines and the consumer.           *)
LEMMA AfterExitEffect ==
    ASSUME NEW n \in NodeRecord, NEW p, "said" \in DOMAIN p, NEW a, NEW d, NEW g, NEW cause,
           AfterExit(n, p, a, d, g, cause)
    PROVE  /\ node' \in NodeRecord /\ node'.gen = n.gen /\ node'.handle = n.handle
           /\ node'.intent = n.intent
           /\ \/ node'.state = n.state /\ node'.history = n.history
              \/ /\ node'.state = "restarting" /\ node'.history = n.history + 1
                 /\ n.intent = "running" /\ n.history < world.max_restarts
           /\ armed' \subseteq a /\ deferred' = deferred \ {g} /\ over' = over \cup {g}
           /\ Adds(p, peer', Ev(IF IsFailure(cause) THEN "crashed" ELSE "finished", g))
<1> DEFINE kind == IF IsFailure(cause) THEN "crashed" ELSE "finished"
           closed == ClosedOutputs(p, kind, g)
           failed == IF IsFailure(cause) THEN SentTo(closed, Ev("failed", g)) ELSE closed
<1>1. Adds(p, closed, Ev(kind, g))
  BY Zenon, ClosingAdds
<1>2. Keeps(closed, failed)
  <2> HIDE DEF closed
  <2>1. "said" \in DOMAIN closed
    BY ZenonT(60), <1>1 DEF Adds
  <2>2. Keeps(closed, SentTo(closed, Ev("failed", g)))
    BY ZenonT(60), <2>1, ServingKeeps
  <2> QED
    BY ZenonT(60), <2>1, <2>2 DEF Keeps
<1>3. peer' = Flushed(failed)
  BY ZenonT(60) DEF AfterExit
<1>4. Keeps(failed, peer')
  <2> HIDE DEF failed
  <2> QED
    BY ZenonT(60), <1>2, <1>3, ServingKeeps DEF Keeps
<1>5. Adds(p, peer', Ev(kind, g))
  <2> HIDE DEF failed, closed, kind
  <2> QED
    BY ZenonT(60), <1>1, <1>2, <1>4 DEF Adds, Keeps
<1>6. armed' \subseteq a /\ deferred' = deferred \ {g} /\ over' = over \cup {g} /\ node' = Decided(n, cause)
  BY ZenonT(60) DEF AfterExit, Disarm
<1>7. /\ n.gen \in Gens /\ n.state \in States /\ n.handle \in BOOLEAN /\ n.intent \in Intents
      /\ n.open \in BOOLEAN /\ n.history \in Nat
  BY ZenonT(60) DEF NodeRecord
<1>8. CASE Restarts(n, cause)
  <2>1. node' = [n EXCEPT !.state = "restarting", !.history = @ + 1]
    BY ZenonT(60), <1>6, <1>8 DEF Decided
  <2>a. n.history + 1 \in Nat
    BY <1>7
  <2>2. /\ node' \in NodeRecord /\ node'.gen = n.gen /\ node'.handle = n.handle
        /\ node'.intent = n.intent /\ node'.state = "restarting" /\ node'.history = n.history + 1
    <3> DEFINE k == n.history + 1
    <3>1. node' = [n EXCEPT !.state = "restarting", !.history = k] /\ k \in Nat
      BY ZenonT(60), <2>1, <2>a
    <3> HIDE DEF k
    <3>2. /\ node' \in NodeRecord /\ node'.gen = n.gen /\ node'.handle = n.handle
          /\ node'.intent = n.intent /\ node'.state = "restarting" /\ node'.history = k
      BY ZenonT(60), <3>1 DEF NodeRecord, States
    <3> QED
      BY ZenonT(60), <3>2 DEF k
  <2>3. n.intent = "running" /\ n.history < world.max_restarts
    BY ZenonT(60), <1>8 DEF Restarts
  <2> QED
    BY ZenonT(60), <1>5, <1>6, <2>2, <2>3
<1>9. CASE ~ Restarts(n, cause)
  <2>1. node' = n
    BY ZenonT(60), <1>6, <1>9 DEF Decided
  <2> QED
    BY ZenonT(60), <1>5, <1>6, <2>1
<1> QED
  BY ZenonT(60), <1>8, <1>9

(* after_exit keeps Core and Words for an incarnation g whose process is no     *)
(* more, if it was cut short or has nothing more to say and cause is why.       *)
LEMMA AfterExitStep ==
    ASSUME Core, Processes, world' = world, bound' \subseteq bound, draining' = {},
           NEW n \in NodeRecord, NEW p, "said" \in DOMAIN p, NEW a, a \subseteq armed, NEW d,
           NEW g \in Gens, NEW cause, AfterExit(n, p, a, d, g, cause),
           n.gen = g, ~ n.handle, n.state \in {"finished", "failed"},
           g <= n.history, n.history <= world.max_restarts,
           \A h \in Gens : h > g => Unstarted(h) /\ h # node.gen,
           n.intent # "running" => node.intent # "running",
           node.intent # "running" => n.intent # "running" /\ node.gen = g,
           \A h \in Gens : ~ Alive(h)',
           cut \subseteq cut', waited \subseteq waited', g \in over => g \in cut',
           \/ g \in cut'
           \/ /\ Mute(g)' /\ proc'[g].at \in {"none", "gone"}
              /\ \A f \in {"done", "close"} : f \notin Range(sock'[g])
              /\ \A x \in exits' : x.gen # g
              /\ IsFailure(cause) => CrashTrue(g)'
              /\ ~ IsFailure(cause) => proc'[g].status = "ok" \/ n.intent # "running",
           NEW s \in Seq(Routed), p.said = s, NEW o, o = over,
           Onward /\ ~ Unstarted(g)' => WordsOf(s, o)'
    PROVE  Core' /\ Words'
<1> DEFINE kind == IF IsFailure(cause) THEN "crashed" ELSE "finished"
<1>0. Types
  BY ZenonT(60) DEF Core
<1>1. /\ node' \in NodeRecord /\ node'.gen = n.gen /\ node'.handle = n.handle
      /\ node'.intent = n.intent
      /\ \/ node'.state = n.state /\ node'.history = n.history
         \/ /\ node'.state = "restarting" /\ node'.history = n.history + 1
            /\ n.intent = "running" /\ n.history < world.max_restarts
      /\ armed' \subseteq a /\ deferred' = deferred \ {g} /\ over' = over \cup {g}
      /\ Adds(p, peer', Ev(kind, g))
  BY ZenonT(60), SMTT(60), AfterExitEffect
<1>2. Types'
  BY ZenonT(60), <1>0, <1>1 DEF Types, Processes
<1>3. g \in Nat /\ n.history \in Nat /\ world.max_restarts \in Nat
  <2>1. world \in World
    BY Zenon, <1>0 DEF Types
  <2> QED
    BY ZenonT(60), SMTT(60), <2>1, NodeLifeAssumption DEF NodeRecord, Gens, World
<1>4. Budget'
  BY ZenonT(60), SMTT(60), <1>1, <1>3 DEF Budget
<1>5. Handled'
  BY ZenonT(60), <1>1 DEF Handled
<1>6. Watched'
  BY ZenonT(60), <1>1 DEF Watched, Core
<1>7. NoOrphan' /\ DrainingReal'
  BY ZenonT(60) DEF NoOrphan, DrainingReal
<1>8. \A h \in Gens : Unstarted(h)' => Unstarted(h) /\ h > g
  BY ZenonT(60), <1>1 DEF Unstarted
<1>12. ~(g > g)
  BY SMTT(60), <1>3
<1>9. Core'
  <2>1. \A h \in Gens : Unstarted(h)' => h \notin bound' /\ h \notin over' /\ h \notin deferred'
    <3>1. \A h \in Gens : Unstarted(h)' => h # g
      BY ZenonT(60), <1>8, <1>12
    <3> QED
      BY ZenonT(60), <1>1, <1>8, <3>1 DEF Core, Fresh
  <2>2. \A h \in over' \ cut' :
              \/ h \in over \ cut /\ (h \in deferred' => h \in deferred)
              \/ /\ proc'[h].at \in {"none", "gone"} /\ h \notin deferred'
                 /\ \A f \in {"msg", "done", "close"} : f \notin Range(sock'[h])
                 /\ \A x \in exits' : x.gen # h
    BY ZenonT(60), <1>1 DEF Mute
  <2>3. \A h \in deferred' : h \in deferred \/ Mute(h)'
    BY ZenonT(60), <1>1
  <2> QED
    BY ZenonT(60), <1>2, <1>4, <1>5, <1>6, <1>7, <1>8, <2>1, <2>2, <2>3, CoreKept
<1>10. Words'
  <2>1. kind \in {"finished", "crashed"} /\ Ev(kind, g) \in Routed
    BY ZenonT(60) DEF Ev, Routed
  <2>2. kind = "crashed" <=> IsFailure(cause)
    BY ZenonT(60)
  <2> HIDE DEF kind
  <2>3. Ev(kind, g).kind = kind /\ Ev(kind, g).gen = g
    BY ZenonT(60) DEF Ev
  <2>4. node'.gen = g /\ (n.intent # "running" => Asked(g)')
    BY ZenonT(60), <1>1 DEF Asked
  <2>5. ~ Unstarted(g)'
    BY ZenonT(60), <1>8, <1>12
  <2>a. Onward
    BY ZenonT(60), <1>1, <1>8, GoesOnward
  <2>b. WordsOf(s, o)'
    BY ZenonT(60), <2>5, <2>a
  <2>6. MayTell(s, o, Ev(kind, g))
    BY ZenonT(60), <2>1, <2>2, <2>3, <2>4, <2>5 DEF MayTell, IsClosure, FinishTrue
  <2>7. WordsOf(Append(s, Ev(kind, g)), o)'
    BY ZenonT(60), <2>1, <2>6, <2>b, TellingKeeps
  <2>8. kind = "finished" => g \in cut' \/ proc'[g].status = "ok" \/ Asked(g)'
    BY ZenonT(60), <2>2, <2>4
  <2>9. WordsOf(Append(s, Ev(kind, g)), o \cup {g})'
    BY ZenonT(60), <2>1, <2>7, <2>8, EndTold
  <2>10. peer'.said = Append(s, Ev(kind, g)) /\ over' = o \cup {g} /\ "said" \in DOMAIN peer'
    BY ZenonT(60), <1>1 DEF Adds
  <2>11. Append(s, Ev(kind, g)) \in Seq(Routed)
    BY ZenonT(60), <2>1, RangeAppend
  <2> QED
    BY ZenonT(60), <2>9, <2>10, <2>11 DEF Words
<1> QED
  BY ZenonT(60), <1>9, <1>10

(* An incarnation that is node.gen or past it, if it has begun.                 *)
LEMMA Begun ==
    ASSUME Core, NEW g \in Gens, ~ Unstarted(g)
    PROVE  /\ g <= node.gen /\ node.state # "pending" /\ ~ Unstarted(node.gen)
           /\ \A h \in Gens : h > node.gen => Unstarted(h) /\ h # node.gen
<1>0. Types
  BY ZenonT(60) DEF Core
<1>1. node.gen \in Gens /\ Gens \subseteq Nat
  BY ZenonT(60), <1>0, Fields
<1>2. g \in Nat /\ node.gen \in Nat /\ \A h \in Gens : h \in Nat
  BY ZenonT(60), <1>1
<1> QED
  BY <1>2 DEF Unstarted

(* A handler that changes nothing but what it serves the consumer.              *)
LEMMA KeepQuiet ==
    ASSUME "said" \in DOMAIN peer, Keep(peer), UNCHANGED <<world, draining, cut, waited>>
    PROVE  UNCHANGED daemon /\ Keeps(peer, peer')
<1>1. peer' = Flushed(peer) /\ UNCHANGED <<node, armed, deferred, dues, over>>
  BY ZenonT(60) DEF Keep
<1>2. Keeps(peer, peer')
  BY ZenonT(60), <1>1, ServingKeeps
<1> QED
  BY ZenonT(60), <1>1, <1>2 DEF daemon

(* apply_register.                                                              *)
LEMMA RegisterStep ==
    ASSUME Core, Words, NEW g \in Gens, HandleFrame(g), Head(sock[g]) = "register"
    PROVE  Core' /\ Words'
<1>0. Types
  BY ZenonT(60) DEF Core
<1>1. /\ sock[g] # <<>> /\ sock' = [sock EXCEPT ![g] = Tail(@)] /\ Register(g)
      /\ UNCHANGED <<world, proc, exits, cut, waited>>
  BY Zenon DEF HandleFrame
<1>2. CASE g # node.gen
  <2>1. Keep(peer) /\ UNCHANGED <<bound, draining>>
    BY ZenonT(60), <1>1, <1>2 DEF Register
  <2>2. Processes
    BY Zenon, <1>1, <2>1, FrameTaken
  <2>3. UNCHANGED daemon /\ Keeps(peer, peer')
    BY ZenonT(60), <1>1, <2>1, KeepQuiet DEF Words
  <2> QED
    BY ZenonT(60), <2>1, <2>2, <2>3, QuietDaemon
<1>3. CASE g = node.gen
  <2>1. /\ node' = [node EXCEPT !.state = IF Terminal(node) THEN @ ELSE "running"]
        /\ bound' = bound \cup {g}
        /\ armed' = Arm(Disarm(armed, {"spawn"}, g), "health", g)
        /\ peer' = Flushed(ToldRestarted(peer, g))
        /\ UNCHANGED <<draining, deferred, dues, over>>
    BY ZenonT(60), <1>1, <1>3 DEF Register
  <2>2. Processes /\ ~ Unstarted(g)
    BY Zenon, <1>1, <2>1, FrameTaken
  <2>3. /\ node' \in NodeRecord /\ node'.gen = node.gen /\ node'.handle = node.handle
        /\ node'.intent = node.intent /\ node'.history = node.history
        /\ node'.state = IF Terminal(node) THEN node.state ELSE "running"
    BY Zenon, <1>0, <2>1 DEF Types, NodeRecord, States
  <2>4. armed' \subseteq [table : Deadlines, gen : Gens] /\ \A x \in armed' : x \in armed \/ x.table = "health"
    BY <1>0, <2>1 DEF Types, Arm, Disarm, Deadlines
  <2>5. Types'
    BY ZenonT(60), <1>0, <1>1, <2>1, <2>2, <2>3, <2>4 DEF Types, Processes
  <2>6. node.state # "pending" /\ node'.state # "pending" /\ node'.state # "restarting"
    BY ZenonT(60), <2>2, <2>3 DEF Unstarted, Terminal
  <2>7. Budget'
    <3>1. node.gen \in Nat /\ node.history \in Nat
      BY ZenonT(60), <1>0, Fields
    <3> QED
      BY SMTT(60), <1>1, <2>3, <2>6, <3>1 DEF Core, Budget
  <2>8. Handled'
    BY SMTT(60), <2>1, <2>3, <2>6 DEF Core, Handled, Terminal
  <2>9. Watched'
    BY ZenonT(60), <2>3, <2>4, <2>6 DEF Core, Watched
  <2>10. NoOrphan' /\ \A h \in Gens : Unstarted(h)' <=> Unstarted(h)
    BY ZenonT(60), <2>2, <2>3, <2>6, SameIncarnation
  <2>11. DrainingReal'
    <3>1. draining # {} => node'.state = node.state
      BY ZenonT(60), <2>3 DEF Core, DrainingReal
    <3> QED
      BY ZenonT(60), <1>1, <2>1, <2>2, <2>3, <3>1, DrainingKept
  <2>12. \A h \in Gens : Unstarted(h)' => h \notin bound' /\ h \notin over' /\ h \notin deferred'
    BY ZenonT(60), <2>1, <2>2, <2>10 DEF Core, Fresh
  <2>13. Core'
    BY ZenonT(60), <1>1, <2>1, <2>2, <2>5, <2>7, <2>8, <2>9, <2>10, <2>11, <2>12, CoreKept
  <2>14. Onward
    BY ZenonT(60), <1>1, <2>2, <2>3, <2>10, GoesOnward
  <2>15. Words'
    <3>1. "said" \in DOMAIN peer /\ peer.said \in Seq(Routed)
      BY ZenonT(60) DEF Words
    <3>2. CASE g = 0
      <4>1. Keeps(peer, ToldRestarted(peer, g))
        BY ZenonT(60), <3>1, <3>2, ClosingAdds
      <4>2. Keeps(peer, peer')
        BY ZenonT(60), <2>1, <4>1, ServingKeeps DEF Keeps
      <4> QED
        BY ZenonT(60), <2>1, <2>14, <4>2, NothingTold
    <3>3. CASE g # 0
      <4>1. Adds(peer, ToldRestarted(peer, g), Ev("recovered", g))
        BY ZenonT(60), <3>1, <3>3, ClosingAdds
      <4>2. Adds(peer, peer', Ev("recovered", g))
        <5>1. Keeps(ToldRestarted(peer, g), peer')
          BY ZenonT(60), <2>1, <4>1, ServingKeeps DEF Adds
        <5> QED
          BY ZenonT(60), <4>1, <5>1 DEF Adds, Keeps
      <4>3. ~ Unstarted(g)'
        BY ZenonT(60), <2>2, <2>10
      <4>4. Ev("recovered", g) \in Routed /\ MayTell(peer.said, over, Ev("recovered", g))
        BY ZenonT(60), <4>3 DEF Ev, Routed, MayTell, IsClosure
      <4> QED
        BY ZenonT(60), <2>1, <2>14, <4>2, <4>4, EventTold
    <3> QED
      BY ZenonT(60), <3>2, <3>3
  <2> QED
    BY ZenonT(60), <2>13, <2>15
<1> QED
  BY ZenonT(60), <1>2, <1>3

(* A message is routed.                                                         *)
LEMMA MessageStep ==
    ASSUME Core, Words, NEW g \in Gens, HandleFrame(g), Head(sock[g]) = "msg"
    PROVE  Core' /\ Words'
<1>1. /\ sock[g] # <<>> /\ sock' = [sock EXCEPT ![g] = Tail(@)]
      /\ Keep(Published(peer, g)) /\ UNCHANGED <<bound, draining>>
      /\ UNCHANGED <<world, proc, exits, cut, waited>>
  BY Zenon DEF HandleFrame
<1>2. Processes /\ ~ Unstarted(g) /\ "msg" \in Range(sock[g])
  BY Zenon, <1>1, FrameTaken
<1>3. g \in bound /\ ~ Mute(g)
  BY ZenonT(60), <1>2 DEF Core, Session, Mute
<1>4. UNCHANGED daemon /\ peer' = Flushed(Routing(peer, Ev("msg", g)))
  BY ZenonT(60), <1>1, <1>3 DEF Keep, daemon, Published
<1>5. Core' /\ Onward /\ \A h \in Gens : Unstarted(h)' <=> Unstarted(h)
  BY ZenonT(60), <1>1, <1>2, <1>4, DaemonAsleep
<1>6. Adds(peer, peer', Ev("msg", g))
  <2>1. Adds(peer, Routing(peer, Ev("msg", g)), Ev("msg", g))
    BY ZenonT(60), RoutingAdds DEF Words
  <2>2. Keeps(Routing(peer, Ev("msg", g)), peer')
    BY ZenonT(60), <1>4, <2>1, ServingKeeps DEF Adds
  <2> QED
    BY ZenonT(60), <2>1, <2>2 DEF Adds, Keeps
<1>7. ToldIn(peer.said, "finished", g) \/ ToldIn(peer.said, "crashed", g) => g \in cut'
  BY ZenonT(60), <1>1, <1>3 DEF Words, WordsOf, ClosedMute
<1>8. Ev("msg", g) \in Routed /\ Ev("msg", g).kind = "msg" /\ Ev("msg", g).gen = g
  BY ZenonT(60) DEF Ev, Routed
<1>9. MayTell(peer.said, over, Ev("msg", g))
  BY ZenonT(60), <1>2, <1>5, <1>7, <1>8 DEF MayTell, IsClosure
<1>10. Words'
  BY ZenonT(60), <1>4, <1>5, <1>6, <1>8, <1>9, EventTold DEF daemon
<1> QED
  BY ZenonT(60), <1>5, <1>10

(* A step that leaves the node the incarnation it is, with its process, keeps   *)
(* Core and goes onward.                                                        *)
LEMMA NodeAlike ==
    ASSUME Core, Processes, world' = world, draining' = draining, over' = over, cut' = cut,
           waited \subseteq waited', bound' \subseteq bound,
           node' \in NodeRecord, node'.gen = node.gen, node'.handle = node.handle,
           node'.history = node.history,
           \/ node'.state = node.state
           \/ node'.state = "stopping" /\ node.state \in {"spawning", "running", "restarting"},
           \/ node'.intent = node.intent /\ node'.state = node.state
           \/ node'.intent # "running" /\ node'.state \notin {"pending", "restarting"},
           armed' \subseteq [table : Deadlines, gen : Gens],
           \A x \in armed' : x.table \in {"term", "kill"} => node'.intent # "running",
           deferred' \subseteq Gens,
           \A h \in deferred' :
              h \in deferred \/ (Mute(h)' /\ ~ Unstarted(h) /\ h \notin over \ cut)
    PROVE  Core' /\ Onward /\ \A h \in Gens : Unstarted(h)' <=> Unstarted(h)
<1>0. Types
  BY ZenonT(60) DEF Core
<1>1. Types'
  BY ZenonT(60), <1>0 DEF Types, Processes
<1>2. Budget'
  <2>1. node.gen \in Nat /\ node.history \in Nat
    BY ZenonT(60), <1>0, Fields
  <2> QED
    BY SMTT(60), <2>1 DEF Core, Budget
<1>3. Handled'
  BY ZenonT(60) DEF Core, Handled
<1>4. Watched'
  BY ZenonT(60) DEF Core, Watched
<1>5. NoOrphan' /\ \A h \in Gens : Unstarted(h)' <=> Unstarted(h)
  <2>1. node'.state = "pending" <=> node.state = "pending"
    BY ZenonT(60)
  <2> QED
    BY ZenonT(60), <2>1, SameIncarnation
<1>6. DrainingReal'
  <2>1. draining # {} => Terminal(node)
    BY ZenonT(60) DEF Core, DrainingReal
  <2>2. draining # {} => node'.state = node.state
    BY ZenonT(60), <2>1 DEF Terminal
  <2>3. node.intent # "running" => node'.intent # "running"
    BY ZenonT(60)
  <2> QED
    BY ZenonT(60), <2>2, <2>3, DrainingKept
<1>7. \A h \in Gens : Unstarted(h)' => h \notin bound' /\ h \notin over' /\ h \notin deferred'
  BY ZenonT(60), <1>5 DEF Core, Fresh
<1>8. \A h \in deferred' : h \in deferred \/ Mute(h)'
  BY ZenonT(60)
<1>9. Core'
  BY ZenonT(60), <1>1, <1>2, <1>3, <1>4, <1>5, <1>6, <1>7, <1>8, CoreKept
<1>10. Onward
  BY ZenonT(60), <1>5, GoesOnward
<1> QED
  BY ZenonT(60), <1>5, <1>9, <1>10

(* A closure that comes with a frame of g is true, or g was cut short.          *)
LEMMA ClosureTrue ==
    ASSUME Core, Processes, NEW g \in Gens, g = node.gen, ~ Unstarted(g)',
           NEW origin \in {"done", "close"}, origin \in Range(sock[g]), cut' = cut,
           Release(g, origin) = "now", Mute(g)'
    PROVE  MayTell(peer.said, over, Ev("finished", g))
<1>1. Ev("finished", g).kind = "finished" /\ Ev("finished", g).gen = g
  BY ZenonT(60) DEF Ev
<1>2. g \in over => g \in cut
  BY ZenonT(60) DEF Core, Accounted
<1>3. CASE origin = "done"
  <2>1. proc[g].done
    BY ZenonT(60), <1>3 DEF Core, Session
  <2>2. proc'[g].done
    BY ZenonT(60), <2>1 DEF Processes
  <2> QED
    BY ZenonT(60), <1>1, <1>2, <2>2 DEF MayTell, IsClosure, FinishTrue
<1>4. CASE origin = "close"
  <2>1. ~ node.handle /\ ~ Terminal(node)
    BY ZenonT(60), <1>4 DEF Release
  <2>2. node.state # "pending"
    BY SMTT(60) DEF Core, Fresh, Unstarted, Range
  <2>3. draining = {}
    BY ZenonT(60), <2>1 DEF Core, DrainingReal
  <2>4. g \in cut'
    BY ZenonT(60), <1>2, <2>1, <2>2, <2>3 DEF Core, Handled
  <2> QED
    BY ZenonT(60), <1>1, <2>4 DEF MayTell, IsClosure
<1> QED
  BY ZenonT(60), <1>3, <1>4

(* apply_close_outputs.                                                         *)
LEMMA CloseOutputsStep ==
    ASSUME Core, Words, NEW g \in Gens, HandleFrame(g), Head(sock[g]) \in {"done", "close"}
    PROVE  Core' /\ Words'
<1> DEFINE origin == Head(sock[g])
<1>0. Types /\ "said" \in DOMAIN peer
  BY ZenonT(60) DEF Core, Words
<1>1. /\ sock[g] # <<>> /\ sock' = [sock EXCEPT ![g] = Tail(@)] /\ CloseOutputs(g, origin)
      /\ UNCHANGED <<world, proc, exits, cut, waited>>
  BY Zenon DEF HandleFrame
<1>2. UNCHANGED <<bound, draining>>
  BY ZenonT(60), <1>1 DEF CloseOutputs
<1>3. Processes /\ ~ Unstarted(g) /\ origin \in Range(sock[g]) /\ Mute(g)' /\ g \in bound
  BY Zenon, <1>1, <1>2, FrameTaken
<1>d. origin \in {"done", "close"}
  BY ZenonT(60)
<1> HIDE DEF origin
<1>4. CASE g \notin bound \/ g < node.gen \/ ~ node.open
  <2>1. Keep(peer)
    BY ZenonT(60), <1>1, <1>4 DEF CloseOutputs
  <2>2. UNCHANGED daemon /\ Keeps(peer, peer')
    BY ZenonT(60), <1>0, <1>1, <1>2, <2>1, KeepQuiet
  <2> QED
    BY ZenonT(60), <1>2, <1>3, <2>2, QuietDaemon
<1>5. CASE ~(g \notin bound \/ g < node.gen \/ ~ node.open)
  <2>1. /\ node' = [node EXCEPT !.open = FALSE]
        /\ peer' = Flushed(IF Release(g, origin) = "now" THEN ClosedSource(peer, g) ELSE peer)
        /\ IF Release(g, origin) = "await_exit"
           THEN deferred' = {g} /\ armed' = Arm(armed, "closure", g)
           ELSE UNCHANGED <<deferred, armed>>
        /\ UNCHANGED <<dues, over>>
    BY ZenonT(60), <1>1, <1>5 DEF CloseOutputs
  <2>2. g = node.gen
    <3>1. g <= node.gen
      BY ZenonT(60), <1>3, Begun
    <3>2. g \in Nat /\ node.gen \in Nat
      BY ZenonT(60), <1>0, Fields
    <3> QED
      BY <1>5, <3>1, <3>2
  <2>3. /\ node' \in NodeRecord /\ node'.gen = node.gen /\ node'.handle = node.handle
        /\ node'.history = node.history /\ node'.state = node.state /\ node'.intent = node.intent
    BY ZenonT(60), <1>0, <2>1 DEF Types, NodeRecord
  <2>4. /\ armed' \subseteq [table : Deadlines, gen : Gens]
        /\ \A x \in armed' : x \in armed \/ x.table = "closure"
    BY <1>0, <2>1 DEF Types, Arm, Deadlines
  <2>5. \A x \in armed' : x.table \in {"term", "kill"} => node'.intent # "running"
    BY ZenonT(60), <2>3, <2>4 DEF Core, Watched
  <2>6. /\ deferred' \subseteq Gens
        /\ \A h \in deferred' : h \in deferred \/ (Mute(h)' /\ ~ Unstarted(h) /\ h \notin over \ cut)
    <3>1. g \notin over \ cut
      BY ZenonT(60), <1>3, <1>d DEF Core, Accounted
    <3> QED
      BY ZenonT(60), <1>0, <1>3, <2>1, <3>1 DEF Types
  <2>7. Core' /\ Onward /\ \A h \in Gens : Unstarted(h)' <=> Unstarted(h)
    BY ZenonT(60), <1>1, <1>2, <1>3, <2>1, <2>3, <2>4, <2>5, <2>6, NodeAlike
  <2>8. Words'
    <3>1. CASE Release(g, origin) = "now"
      <4>1. Adds(peer, ClosedSource(peer, g), Ev("finished", g))
        BY ZenonT(60), <1>0, ClosingAdds
      <4>2. peer' = Flushed(ClosedSource(peer, g))
        BY ZenonT(60), <2>1, <3>1
      <4>3. Keeps(ClosedSource(peer, g), peer')
        BY ZenonT(60), <4>1, <4>2, ServingKeeps DEF Adds
      <4>4. Adds(peer, peer', Ev("finished", g))
        BY ZenonT(60), <4>1, <4>3 DEF Adds, Keeps
      <4>5. MayTell(peer.said, over, Ev("finished", g))
        BY ZenonT(60), <1>1, <1>3, <1>d, <2>2, <2>7, <3>1, ClosureTrue
      <4>6. Ev("finished", g) \in Routed
        BY ZenonT(60) DEF Ev, Routed
      <4> QED
        BY ZenonT(60), <2>1, <2>7, <4>4, <4>5, <4>6, EventTold
    <3>2. CASE Release(g, origin) # "now"
      <4>1. peer' = Flushed(peer)
        BY ZenonT(60), <2>1, <3>2
      <4>2. Keeps(peer, peer')
        BY ZenonT(60), <1>0, <4>1, ServingKeeps
      <4> QED
        BY ZenonT(60), <2>1, <2>7, <4>2, NothingTold
    <3> QED
      BY ZenonT(60), <3>1, <3>2
  <2> QED
    BY ZenonT(60), <2>7, <2>8
<1> QED
  BY ZenonT(60), <1>4, <1>5

(* The end of the node's current incarnation is accounted for.                  *)
LEMMA EndStep ==
    ASSUME Core, Words, Processes, world' = world, bound' \subseteq bound, draining' = {},
           NEW n \in NodeRecord, NEW p, Keeps(peer, p), NEW a, a \subseteq armed, NEW d,
           NEW g \in Gens, g = node.gen, NEW cause, AfterExit(n, p, a, d, g, cause),
           n.gen = g, ~ n.handle, n.state \in {"finished", "failed"},
           n.history = node.history, n.intent = node.intent,
           \A h \in Gens : ~ Alive(h)',
           cut \subseteq cut', waited \subseteq waited', g \in over => g \in cut',
           \/ g \in cut'
           \/ /\ Mute(g)' /\ proc'[g].at \in {"none", "gone"}
              /\ \A f \in {"done", "close"} : f \notin Range(sock'[g])
              /\ \A x \in exits' : x.gen # g
              /\ IsFailure(cause) => CrashTrue(g)'
              /\ ~ IsFailure(cause) => proc'[g].status = "ok" \/ n.intent # "running"
    PROVE  Core' /\ Words'
<1>0. Types
  BY ZenonT(60) DEF Core
<1>1. g \in Nat /\ node.history \in Nat /\ \A h \in Gens : h \in Nat
  BY ZenonT(60), <1>0, Fields
<1>2. g <= n.history /\ n.history <= world.max_restarts
  <2>1. node.gen <= node.history /\ node.history <= world.max_restarts
    BY ZenonT(60), SMTT(60), <1>1 DEF Core, Budget
  <2> QED
    BY ZenonT(60), <2>1
<1>3. \A h \in Gens : h > g => Unstarted(h) /\ h # node.gen
  <2>1. \A h \in Gens : h > node.gen => h # node.gen
    BY ZenonT(60), SMTT(60), <1>1
  <2> QED
    BY ZenonT(60), <2>1 DEF Unstarted
<1>4. "said" \in DOMAIN p /\ p.said = peer.said /\ peer.said \in Seq(Routed)
  BY ZenonT(60) DEF Keeps, Words
<1>5. ASSUME NEW s \in Seq(Routed), s = peer.said, NEW o, o = over
      PROVE  Core' /\ Words'
  <2>1. p.said = s
    BY ZenonT(60), <1>4, <1>5
  <2>2. Onward => WordsOf(s, o)'
    BY ZenonT(60), <1>5, StaysTrue DEF Words
  <2>3. node.intent # "running" => n.intent # "running" /\ node.gen = g
    BY ZenonT(60)
  <2>4. n.intent # "running" => node.intent # "running"
    BY Zenon
  <2> QED
    BY ZenonT(60), <1>2, <1>3, <1>4, <1>5, <2>1, <2>2, <2>3, <2>4, AfterExitStep
<1> QED
  BY ZenonT(60), <1>4, <1>5

(* mark_exited.                                                                 *)
LEMMA ExitedFields ==
    ASSUME NEW n \in NodeRecord, NEW cause
    PROVE  /\ Exited(n, cause) \in NodeRecord /\ Exited(n, cause).gen = n.gen
           /\ ~ Exited(n, cause).handle /\ Exited(n, cause).state \in {"finished", "failed"}
           /\ Exited(n, cause).history = n.history /\ Exited(n, cause).intent = n.intent
  BY Zenon DEF Exited, NodeRecord, States

(* classify_with_intent calls a failure what was one, and an end nobody asked   *)
(* for a success only if it was.                                                *)
LEMMA ClassifyTrue ==
    ASSUME NEW status \in Statuses, NEW intent \in Intents
    PROVE  /\ IsFailure(Classify(status, intent)) => status \in {"fail", "signal"}
           /\ ~ IsFailure(Classify(status, intent)) => status = "ok" \/ intent # "running"
           /\ Classify(status, intent) \in Causes
<1> DEFINE told == CASE intent \in {"stop", "term"} -> "cancelled"
                    [] intent = "kill" -> "killed"
                    [] intent = "shutdown" -> "daemon_shutdown"
                    [] intent = "running" -> "signal"
<1>1. Classify("ok", intent) = "success"
  BY ZenonT(60) DEF Classify
<1>2. Classify("fail", intent) = IF intent = "shutdown" THEN "daemon_shutdown" ELSE "exit_code"
  BY ZenonT(60) DEF Classify
<1>3. Classify("signal", intent) = told
  BY Zenon DEF Classify
<1>4. told \in {"cancelled", "killed", "daemon_shutdown", "signal"} /\ (intent = "running" => told = "signal")
  BY ZenonT(60) DEF Intents
<1> HIDE DEF told
<1>5. ASSUME NEW c, c = Classify(status, intent)
      PROVE  /\ IsFailure(c) => status \in {"fail", "signal"}
             /\ ~ IsFailure(c) => status = "ok" \/ intent # "running"
             /\ c \in Causes
  <2>1. CASE status = "ok"
    <3>1. c = "success"
      BY ZenonT(60), <1>1, <1>5, <2>1
    <3> QED
      BY ZenonT(60), <2>1, <3>1 DEF IsFailure, Causes
  <2>2. CASE status = "fail"
    <3>1. c = IF intent = "shutdown" THEN "daemon_shutdown" ELSE "exit_code"
      BY ZenonT(60), <1>2, <1>5, <2>2
    <3> QED
      BY ZenonT(60), <2>2, <3>1 DEF IsFailure, Causes
  <2>3. CASE status = "signal"
    <3>1. c = told
      BY ZenonT(60), <1>3, <1>5, <2>3
    <3> QED
      BY ZenonT(60), <1>4, <2>3, <3>1 DEF IsFailure, Causes
  <2> QED
    BY ZenonT(60), <2>1, <2>2, <2>3 DEF Statuses
<1> QED
  BY ZenonT(60), <1>5

(* The daemon that has no handle has no process.                                *)
LEMMA NoneAlive ==
    ASSUME Core, Processes, ~ node.handle
    PROVE  \A h \in Gens : ~ Alive(h)'
  BY ZenonT(60) DEF Core, NoOrphan, Processes

(* discharge_pending_exit, for an exit whose session has ended or is cut short. *)
LEMMA DischargeStep ==
    ASSUME Core, Words, Processes, world' = world, bound' \subseteq bound,
           NEW p, Keeps(peer, p), NEW a, a \subseteq armed, Discharge(p, a),
           cut \subseteq cut', waited \subseteq waited', draining = {} => cut' = cut,
           NEW g \in Gens, g = node.gen, g \in cut' \/ sock'[g] = <<>>
    PROVE  Core' /\ Words'
<1>0. Types /\ "said" \in DOMAIN peer /\ draining' = {}
  BY ZenonT(60) DEF Core, Words, Discharge
<1>1. CASE draining = {}
  <2>1. /\ armed' = a /\ peer' = Flushed(p) /\ UNCHANGED <<node, deferred, dues, over>>
        /\ draining' = draining
    BY ZenonT(60), <1>1 DEF Discharge
  <2>2. Keeps(peer, peer')
    BY ZenonT(60), <2>1, ServingKeeps DEF Keeps
  <2>3. armed' \subseteq armed
    BY ZenonT(60), <2>1
  <2>4. Core' /\ Onward
    BY ZenonT(60), <1>0, <1>1, <2>1, <2>3, NodeAlike DEF Core, Types, Watched
  <2> QED
    BY ZenonT(60), <2>1, <2>2, <2>4, NothingTold
<1>2. CASE draining # {}
  <2>1. PICK x \in draining : AfterExit(node, p, Disarm(a, {"drain"}, x.gen), dues, x.gen, x.cause)
    BY ZenonT(60), <1>2 DEF Discharge
  <2>2. /\ x.gen = g /\ Terminal(node)
        /\ proc[x.gen].at = "gone" /\ \A e \in exits : e.gen # x.gen
        /\ IsFailure(x.cause) => proc[x.gen].status \in {"fail", "signal"}
        /\ ~ IsFailure(x.cause) => proc[x.gen].status = "ok" \/ node.intent # "running"
        /\ x.gen \in over => x.gen \in cut
    BY ZenonT(60) DEF Core, DrainingReal
  <2>3. ~ node.handle /\ node.state \in {"finished", "failed"}
    BY ZenonT(60), <2>2 DEF Core, Handled, Terminal
  <2>4. \A h \in Gens : ~ Alive(h)'
    BY ZenonT(60), <2>3, NoneAlive
  <2>5. node \in NodeRecord
    BY ZenonT(60), <1>0, Fields DEF Types
  <2>6. proc'[g] = proc[g] /\ ~ Alive(g)
    BY ZenonT(60), <2>2, <2>5 DEF Processes, Alive
  <2>7. \A e \in exits' : e.gen # g
    BY ZenonT(60), <2>2, <2>6 DEF Processes
  <2>8. ASSUME g \notin cut'
        PROVE  /\ Mute(g)' /\ proc'[g].at \in {"none", "gone"}
               /\ \A f \in {"done", "close"} : f \notin Range(sock'[g])
               /\ IsFailure(x.cause) => CrashTrue(g)'
               /\ ~ IsFailure(x.cause) => proc'[g].status = "ok" \/ node.intent # "running"
    <3>1. Range(sock'[g]) = {}
      BY SMTT(60), <2>8 DEF Range
    <3> QED
      BY ZenonT(60), <2>2, <2>6, <3>1 DEF Mute, CrashTrue
  <2>9. Disarm(a, {"drain"}, x.gen) \subseteq armed
    BY ZenonT(60) DEF Disarm
  <2>10. AfterExit(node, p, Disarm(a, {"drain"}, x.gen), dues, g, x.cause)
    BY ZenonT(60), <2>1, <2>2
  <2>11. g \in over => g \in cut'
    BY ZenonT(60), <2>2
  <2> QED
    BY ZenonT(60), <1>0, <2>3, <2>4, <2>5, <2>7, <2>8, <2>9, <2>10, <2>11, EndStep
<1> QED
  BY ZenonT(60), <1>1, <1>2

(* handle_session_closed.                                                       *)
LEMMA SessionClosedStep ==
    ASSUME Core, Words, NEW g \in Gens, HandleFrame(g), Head(sock[g]) = "eof"
    PROVE  Core' /\ Words'
<1>0. Types /\ "said" \in DOMAIN peer
  BY ZenonT(60) DEF Core, Words
<1>1. /\ sock[g] # <<>> /\ sock' = [sock EXCEPT ![g] = Tail(@)] /\ SessionClosed(g)
      /\ UNCHANGED <<world, proc, exits, cut, waited>>
  BY Zenon DEF HandleFrame
<1>2. bound' = bound \ {g}
  BY ZenonT(60), <1>1 DEF SessionClosed
<1>3. Processes /\ ~ Unstarted(g) /\ sock'[g] = <<>>
  BY ZenonT(60), <1>1, <1>2, FrameTaken
<1>4. CASE g \in bound /\ g = node.gen
  <2>1. Discharge(peer, armed)
    BY ZenonT(60), <1>1, <1>4 DEF SessionClosed
  <2>2. Keeps(peer, peer)
    BY ZenonT(60), <1>0 DEF Keeps
  <2> QED
    BY ZenonT(60), <1>1, <1>2, <1>3, <1>4, <2>1, <2>2, DischargeStep
<1>5. CASE ~(g \in bound /\ g = node.gen)
  <2>1. Keep(peer) /\ UNCHANGED draining
    BY ZenonT(60), <1>1, <1>5 DEF SessionClosed
  <2>2. UNCHANGED daemon /\ Keeps(peer, peer')
    BY ZenonT(60), <1>0, <1>1, <2>1, KeepQuiet
  <2> QED
    BY ZenonT(60), <1>2, <1>3, <2>2, QuietDaemon
<1> QED
  BY ZenonT(60), <1>4, <1>5

(* handle_request, whatever the frame.                                          *)
LEMMA FrameStep ==
    ASSUME Core, Words, NEW g \in Gens, HandleFrame(g)
    PROVE  Core' /\ Words'
<1>1. sock[g] # <<>> /\ sock[g] \in Seq(Frames)
  BY ZenonT(60), Fields DEF HandleFrame, Core
<1>2. Head(sock[g]) \in Frames
  BY SMTT(60), <1>1
<1> QED
  BY ZenonT(60), <1>2, RegisterStep, MessageStep, CloseOutputsStep, SessionClosedStep DEF Frames

(* An exit whose session still runs is recorded and waits for it.               *)
LEMMA ExitWaits ==
    ASSUME Core, Words, NEW x \in exits, x.gen = node.gen, exits' = exits \ {x},
           NEW cause, cause = Classify(x.status, node.intent),
           node' = Exited(node, cause), draining' = {[gen |-> x.gen, cause |-> cause]},
           armed' = Arm(armed, "drain", x.gen), peer' = Flushed(peer),
           UNCHANGED <<world, bound, proc, sock, cut, waited, deferred, over>>
    PROVE  Core' /\ Words'
<1> DEFINE y == [gen |-> x.gen, cause |-> cause]
<1>0. Types /\ "said" \in DOMAIN peer
  BY ZenonT(60) DEF Core, Words
<1>1. Processes
  BY ZenonT(60), ProcessesAlone
<1>2. /\ x.gen \in Gens /\ x.status \in Statuses /\ node.intent \in Intents /\ node.gen \in Nat
      /\ node.history \in Nat /\ \A e \in exits : e.gen \in Gens /\ e.status \in Statuses
  BY ZenonT(60), <1>0, Fields
<1>3. proc[x.gen].at = "gone" /\ proc[x.gen].status = x.status /\ ~ Alive(x.gen)
  BY ZenonT(60) DEF Core, ExitsReal, Alive
<1>4. node.state # "pending"
  BY ZenonT(60), SMTT(60), <1>2, <1>3 DEF Core, Fresh, Unstarted, NoProcess
<1>5. /\ node' \in NodeRecord /\ node'.gen = node.gen /\ ~ node'.handle
      /\ node'.state \in {"finished", "failed"} /\ node'.history = node.history
      /\ node'.intent = node.intent
  BY ZenonT(60), <1>0, ExitedFields DEF Types
<1>6. /\ IsFailure(cause) => x.status \in {"fail", "signal"}
      /\ ~ IsFailure(cause) => x.status = "ok" \/ node.intent # "running"
      /\ cause \in Causes
  BY ZenonT(60), <1>2, ClassifyTrue
<1>7. /\ armed' \subseteq [table : Deadlines, gen : Gens]
      /\ \A z \in armed' : z \in armed \/ z.table = "drain"
  BY ZenonT(60), SMTT(60), <1>0, <1>2 DEF Types, Arm, Deadlines
<1>8. y.gen = x.gen /\ y.cause = cause /\ draining' = {y} /\ y \in [gen : Gens, cause : Causes]
  BY Zenon, <1>2, <1>6
<1> HIDE DEF y
<1>9. Types'
  BY ZenonT(60), <1>0, <1>1, <1>5, <1>7, <1>8 DEF Types, Processes
<1>10. Budget'
  <2>1. node.gen <= node.history /\ node.history <= world.max_restarts
    BY SMTT(60), <1>2 DEF Core, Budget
  <2> QED
    BY ZenonT(60), SMTT(60), <1>2, <1>5, <2>1 DEF Budget
<1>11. Handled'
  BY ZenonT(60), <1>5, <1>8 DEF Handled
<1>12. Watched'
  BY ZenonT(60), <1>5, <1>7 DEF Core, Watched
<1>13. NoOrphan' /\ \A h \in Gens : Unstarted(h)' <=> Unstarted(h)
  <2>1. ~ Alive(node.gen)'
    BY ZenonT(60), <1>3, <1>5 DEF Alive
  <2> QED
    BY ZenonT(60), <1>1, <1>4, <1>5, <2>1, SameIncarnation
<1>14. DrainingReal'
  <2>1. ASSUME NEW e \in exits', e.gen = x.gen
        PROVE  FALSE
    <3>1. e \in [gen : Gens, status : Statuses] /\ x \in [gen : Gens, status : Statuses]
      BY ZenonT(60), <1>0 DEF Types
    <3>2. e.status = x.status
      BY ZenonT(60), <1>3, <2>1 DEF Core, ExitsReal
    <3> QED
      BY SMTT(60), <2>1, <3>1, <3>2
  <2>2. x.gen \in over => x.gen \in cut
    BY ZenonT(60) DEF Core, Accounted
  <2>3. /\ y.gen = node'.gen /\ Terminal(node')
        /\ proc'[y.gen].at = "gone" /\ \A e \in exits' : e.gen # y.gen
    BY ZenonT(60), <1>3, <1>5, <1>8, <2>1 DEF Terminal
  <2>4. /\ IsFailure(y.cause) => proc'[y.gen].status \in {"fail", "signal"}
        /\ ~ IsFailure(y.cause) => proc'[y.gen].status = "ok" \/ node'.intent # "running"
        /\ y.gen \in over' => y.gen \in cut'
    BY ZenonT(60), <1>3, <1>5, <1>6, <1>8, <2>2
  <2> QED
    BY ZenonT(60), <1>8, <2>3, <2>4 DEF DrainingReal
<1>15. \A h \in Gens : Unstarted(h)' => h \notin bound' /\ h \notin over' /\ h \notin deferred'
  BY ZenonT(60), <1>13 DEF Core, Fresh
<1>16. Core'
  BY ZenonT(60), <1>1, <1>9, <1>10, <1>11, <1>12, <1>13, <1>14, <1>15, CoreKept
<1>17. Onward
  BY ZenonT(60), <1>1, <1>5, <1>13, GoesOnward
<1>18. Keeps(peer, peer')
  BY ZenonT(60), <1>0, ServingKeeps
<1> QED
  BY ZenonT(60), <1>16, <1>17, <1>18, NothingTold

(* handle_process_exit.                                                         *)
LEMMA ProcessExitStep ==
    ASSUME Core, Words, HandleProcessExit
    PROVE  Core' /\ Words'
<1>0. Types /\ "said" \in DOMAIN peer
  BY ZenonT(60) DEF Core, Words
<1>1. PICK x \in exits :
         /\ exits' = exits \ {x}
         /\ LET cause == Classify(x.status, node.intent)
            IN  IF x.gen # node.gen THEN Keep(peer) /\ UNCHANGED draining
                ELSE IF bound # {}
                THEN /\ node' = Exited(node, cause)
                     /\ draining' = {[gen |-> x.gen, cause |-> cause]}
                     /\ armed' = Arm(armed, "drain", x.gen)
                     /\ peer' = Flushed(peer)
                     /\ UNCHANGED <<deferred, dues, over>>
                ELSE /\ AfterExit(Exited(node, cause), peer, armed, dues, x.gen, cause)
                     /\ UNCHANGED draining
         /\ UNCHANGED <<world, bound, proc, sock, cut, waited>>
  BY ZenonT(60) DEF HandleProcessExit
<1>2. Processes
  BY ZenonT(60), <1>1, ProcessesAlone
<1>3. ASSUME NEW cause, cause = Classify(x.status, node.intent)
      PROVE  Core' /\ Words'
  <2>1. CASE x.gen # node.gen
    <3>1. Keep(peer) /\ UNCHANGED draining
      BY ZenonT(60), <1>1, <2>1
    <3>2. UNCHANGED daemon /\ Keeps(peer, peer')
      BY ZenonT(60), <1>0, <1>1, <3>1, KeepQuiet
    <3> QED
      BY ZenonT(60), <1>1, <1>2, <3>2, QuietDaemon
  <2>2. CASE x.gen = node.gen /\ bound # {}
    <3>1. /\ node' = Exited(node, cause) /\ draining' = {[gen |-> x.gen, cause |-> cause]}
          /\ armed' = Arm(armed, "drain", x.gen) /\ peer' = Flushed(peer)
          /\ UNCHANGED <<deferred, dues, over>>
      BY ZenonT(60), <1>1, <1>3, <2>2
    <3> QED
      BY ZenonT(60), <1>1, <1>3, <2>2, <3>1, ExitWaits
  <2>3. CASE x.gen = node.gen /\ bound = {}
    <3> DEFINE n == Exited(node, cause)
               g == x.gen
    <3>1. AfterExit(n, peer, armed, dues, g, cause) /\ UNCHANGED draining
      BY ZenonT(60), <1>1, <1>3, <2>3
    <3>2. /\ n \in NodeRecord /\ n.gen = node.gen /\ ~ n.handle
          /\ n.state \in {"finished", "failed"} /\ n.history = node.history
          /\ n.intent = node.intent
      BY ZenonT(60), <1>0, ExitedFields DEF Types
    <3> HIDE DEF n
    <3>3. /\ g \in Gens /\ x.status \in Statuses /\ node.intent \in Intents
      BY ZenonT(60), <1>0, Fields
    <3>4. proc[g].at = "gone" /\ proc[g].status = x.status
      BY ZenonT(60) DEF Core, ExitsReal
    <3>5. draining = {}
      BY ZenonT(60), <2>3 DEF Core, DrainingReal
    <3>6. \A h \in Gens : ~ Alive(h)'
      <4>1. ASSUME NEW h \in Gens, Alive(h)'
            PROVE  FALSE
        <5>1. Alive(h)
          BY ZenonT(60), <1>2, <4>1 DEF Processes
        <5>2. h = g
          BY ZenonT(60), <2>3, <5>1 DEF Core, NoOrphan
        <5> QED
          BY ZenonT(60), <3>4, <5>1, <5>2 DEF Alive
      <4> QED
        BY ZenonT(60), <4>1
    <3>7. g \in over => g \in cut
      BY ZenonT(60) DEF Core, Accounted
    <3>8. \A e \in exits' : e.gen # g
      <4>1. \A e \in exits : e \in [gen : Gens, status : Statuses] /\ (e.gen = g => e.status = x.status)
        BY ZenonT(60), <1>0, <3>4 DEF Types, Core, ExitsReal
      <4>2. \A e \in exits : e.gen = g => e = x
        BY SMTT(60), <4>1
      <4> QED
        BY ZenonT(60), <1>1, <4>2
    <3>9. /\ Mute(g)' /\ proc'[g].at \in {"none", "gone"}
          /\ \A f \in {"done", "close"} : f \notin Range(sock'[g])
      BY ZenonT(60), <1>1, <2>3, <3>3, <3>4 DEF Core, Session, Mute
    <3>10. /\ IsFailure(cause) => x.status \in {"fail", "signal"}
           /\ ~ IsFailure(cause) => x.status = "ok" \/ node.intent # "running"
      BY ZenonT(60), <1>3, <3>3, ClassifyTrue
    <3>11. /\ IsFailure(cause) => CrashTrue(g)'
           /\ ~ IsFailure(cause) => proc'[g].status = "ok" \/ n.intent # "running"
      BY ZenonT(60), <1>1, <3>2, <3>4, <3>10 DEF CrashTrue
    <3>12. Keeps(peer, peer)
      BY ZenonT(60), <1>0 DEF Keeps
    <3> QED
      BY ZenonT(60), <1>1, <1>2, <2>3, <3>1, <3>2, <3>3, <3>5, <3>6, <3>7, <3>8, <3>9, <3>11, <3>12, EndStep
  <2> QED
    BY ZenonT(60), <2>1, <2>2, <2>3
<1> QED
  BY ZenonT(60), <1>3

(* A process is started for the incarnation g = n.gen, the node's first or the  *)
(* one after that which ended.                                                  *)
LEMMA SpawnedStep ==
    ASSUME Core, Words, NEW n \in NodeRecord, NEW p, NEW g \in Gens, g = n.gen,
           node' = [n EXCEPT !.state = "spawning", !.handle = TRUE, !.open = TRUE, !.intent = "running"],
           proc' = [proc EXCEPT ![g] = Booting], armed' = Arm(armed, "spawn", g),
           peer' = Flushed(p), "said" \in DOMAIN p,
           UNCHANGED <<world, bound, draining, sock, exits, cut, waited, deferred, over>>,
           Unstarted(g), \A h \in Gens : h > g => Unstarted(h), g <= n.history,
           n.history <= world.max_restarts, node.state \in {"pending", "restarting"},
           Keeps(peer, p) \/ Adds(peer, p, Ev("recovered", g))
    PROVE  Core' /\ Words'
<1>0. Types /\ "said" \in DOMAIN peer /\ peer.said \in Seq(Routed)
  BY ZenonT(60) DEF Core, Words
<1>1. /\ node' \in NodeRecord /\ node'.gen = g /\ node'.handle /\ node'.state = "spawning"
      /\ node'.history = n.history /\ node'.intent = "running"
  BY Zenon DEF NodeRecord, States, Intents
<1>2. /\ n.history \in Nat /\ g \in Nat /\ \A h \in Gens : h \in Nat
      /\ \A x \in exits : x.gen \in Gens
  BY ZenonT(60), <1>0, Fields DEF NodeRecord
<1>3. ~ node.handle /\ node.intent = "running" /\ draining = {}
  <2>1. ~ Terminal(node)
    BY ZenonT(60) DEF Terminal
  <2> QED
    BY ZenonT(60), <2>1 DEF Core, Handled, Watched, DrainingReal
<1>4. proc[g] = NoProcess /\ sock[g] = <<>> /\ g \notin bound /\ g \notin over /\ g \notin deferred
  BY ZenonT(60) DEF Core, Fresh
<1>5. /\ Booting \in Process /\ Booting.at = "boot" /\ Booting.status = "none" /\ ~ Booting.done
  BY Zenon, <1>0 DEF Booting, NoProcess, Types, World, Process, Places
<1> DEFINE q == Booting
<1>6. /\ q \in Process /\ q.at = "boot" /\ q.status = "none" /\ proc' = [proc EXCEPT ![g] = q]
  BY ZenonT(60), <1>5
<1> HIDE DEF q
<1>7. /\ proc' \in [Gens -> Process] /\ proc'[g] = q
      /\ \A h \in Gens : h # g => proc'[h] = proc[h]
  BY <1>0, <1>6 DEF Types
<1>8. \A h \in Gens : ~ Alive(h)
  BY ZenonT(60), <1>3 DEF Core, NoOrphan
<1>9. \A h \in Gens : Unstarted(h)' => Unstarted(h) /\ h # g
  <2>1. \A h \in Gens : Unstarted(h)' => h > g
    BY ZenonT(60), <1>1 DEF Unstarted
  <2>2. \A h \in Gens : h > g => h # g
    BY <1>2
  <2> QED
    BY ZenonT(60), <2>1, <2>2
<1>10. Types'
  <2>1. armed' \subseteq [table : Deadlines, gen : Gens]
    BY <1>0 DEF Types, Arm, Deadlines
  <2> QED
    BY ZenonT(60), <1>0, <1>1, <1>7, <2>1 DEF Types
<1>11. Budget' /\ Handled'
  BY <1>1, <1>2 DEF Budget, Handled
<1>12. Watched'
  <2>1. \A x \in armed' : x \in armed \/ x.table = "spawn"
    BY DEF Arm
  <2>2. \A x \in armed : x.table \notin {"term", "kill"}
    BY ZenonT(60), <1>3 DEF Core, Watched
  <2> QED
    BY ZenonT(60), <1>1, <2>1, <2>2 DEF Watched
<1>13. NoOrphan'
  BY ZenonT(60), <1>1, <1>7, <1>8 DEF NoOrphan, Alive
<1>14. Fresh'
  BY ZenonT(60), <1>7, <1>9 DEF Core, Fresh
<1>15. ExitsReal' /\ \A x \in exits : x.gen # g
  <2>1. \A x \in exits : x.gen # g
    BY <1>4 DEF Core, ExitsReal, NoProcess
  <2> QED
    BY ZenonT(60), <1>2, <1>7, <2>1 DEF Core, ExitsReal
<1>16. DrainingReal'
  BY ZenonT(60), <1>3 DEF DrainingReal
<1>17. Accounted' /\ DeferredMute'
  BY <1>0, <1>4, <1>7 DEF Core, Types, Accounted, DeferredMute, Mute
<1>18. ASSUME NEW h \in Gens
       PROVE  Session(h)'
  <2>1. CASE h = g
    BY <1>4, <1>6, <1>7, <2>1 DEF Session, Ordered, Range
  <2>2. CASE h # g
    BY <1>7, <2>2 DEF Core, Session
  <2> QED
    BY ZenonT(60), <2>1, <2>2
<1>19. Core'
  BY ZenonT(60), <1>10, <1>11, <1>12, <1>13, <1>14, <1>15, <1>16, <1>17, <1>18 DEF Core
<1>20. Onward
  <2>1. ASSUME NEW h \in Gens
        PROVE  /\ ~ Unstarted(h) /\ Mute(h) => Mute(h)'
               /\ proc[h].status \in Statuses => proc'[h].status = proc[h].status
               /\ proc[h].done => proc'[h].done
               /\ h \in over \ cut => proc'[h] = proc[h]
    <3>1. CASE h = g
      BY <1>4, <3>1 DEF NoProcess, Statuses
    <3>2. CASE h # g
      BY ZenonT(60), <1>7, <3>2 DEF Mute
    <3> QED
      BY ZenonT(60), <3>1, <3>2
  <2>2. \A h \in Gens : ~ Asked(h)
    BY ZenonT(60), <1>3 DEF Asked
  <2> QED
    BY ZenonT(60), <1>9, <2>1, <2>2 DEF Onward
<1>21. Keeps(p, peer')
  BY ZenonT(60), ServingKeeps
<1>22. CASE Keeps(peer, p)
  <2>1. Keeps(peer, peer')
    BY ZenonT(60), <1>21, <1>22 DEF Keeps
  <2> QED
    BY ZenonT(60), <1>19, <1>20, <2>1, NothingTold
<1>23. CASE Adds(peer, p, Ev("recovered", g))
  <2>1. Adds(peer, peer', Ev("recovered", g))
    BY ZenonT(60), <1>21, <1>23 DEF Keeps, Adds
  <2>2. Ev("recovered", g) \in Routed /\ Ev("recovered", g).kind = "recovered" /\ Ev("recovered", g).gen = g
    BY ZenonT(60) DEF Ev, Routed
  <2>3. MayTell(peer.said, over, Ev("recovered", g))
    BY ZenonT(60), <1>9, <2>2 DEF MayTell, IsClosure
  <2> QED
    BY ZenonT(60), <1>19, <1>20, <2>1, <2>2, <2>3, EventTold
<1> QED
  BY ZenonT(60), <1>22, <1>23

(* fail_spawn: the incarnation g = n.gen is accounted for without a process.    *)
LEMMA SpawnFailedStep ==
    ASSUME Core, Words, NEW n \in NodeRecord, NEW p, NEW d, NEW g \in Gens, g = n.gen,
           g \in world.spoilt,
           AfterExit(Exited(n, "spawn_failed"), p, armed, d, g, "spawn_failed"),
           "said" \in DOMAIN p,
           UNCHANGED <<world, bound, draining, proc, sock, exits, cut, waited>>,
           Unstarted(g), \A h \in Gens : h > g => Unstarted(h) /\ h # node.gen, g <= n.history,
           n.history <= world.max_restarts, node.state \in {"pending", "restarting"},
           n.intent = "running",
           Keeps(peer, p) \/ Adds(peer, p, Ev("recovered", g))
    PROVE  Core' /\ Words'
<1> DEFINE m == Exited(n, "spawn_failed")
<1>0. Types /\ peer.said \in Seq(Routed)
  BY ZenonT(60) DEF Core, Words
<1>1. /\ m \in NodeRecord /\ m.gen = n.gen /\ ~ m.handle /\ m.state \in {"finished", "failed"}
      /\ m.history = n.history /\ m.intent = n.intent
  BY ZenonT(60), ExitedFields
<1>2. AfterExit(m, p, armed, d, g, "spawn_failed")
  BY ZenonT(60)
<1> HIDE DEF m
<1>3. ~ node.handle /\ node.intent = "running" /\ draining' = {}
  <2>1. ~ Terminal(node)
    BY ZenonT(60) DEF Terminal
  <2> QED
    BY ZenonT(60), <2>1 DEF Core, Handled, Watched, DrainingReal
<1>4. proc[g] = NoProcess /\ sock[g] = <<>> /\ g \notin over
  BY ZenonT(60) DEF Core, Fresh
<1>5. Processes
  BY ZenonT(60), ProcessesAlone
<1>6. \A h \in Gens : ~ Alive(h)'
  BY ZenonT(60), <1>3, <1>5, NoneAlive
<1>7. /\ Mute(g)' /\ proc'[g].at \in {"none", "gone"}
      /\ \A f \in {"done", "close"} : f \notin Range(sock'[g])
  BY ZenonT(60), SMTT(60), <1>4 DEF Mute, NoProcess, Range
<1>8. \A x \in exits' : x.gen # g
  BY ZenonT(60), SMTT(60), <1>4 DEF Core, ExitsReal, NoProcess
<1>9. CrashTrue(g)' /\ IsFailure("spawn_failed")
  BY Zenon DEF CrashTrue, IsFailure
<1>10. ASSUME NEW s \in Seq(Routed), s = p.said, NEW o, o = over
       PROVE  Core' /\ Words'
  <2>1. Onward /\ ~ Unstarted(g)' => WordsOf(s, o)'
    <3>1. ASSUME NEW t \in Seq(Routed), t = peer.said, Onward, ~ Unstarted(g)'
          PROVE  WordsOf(s, o)'
      <4>1. WordsOf(t, o)'
        BY ZenonT(60), <1>10, <3>1, StaysTrue DEF Words
      <4>2. CASE Keeps(peer, p)
        <5>1. s = t
          BY ZenonT(60), <1>10, <3>1, <4>2 DEF Keeps
        <5> QED
          BY ZenonT(60), <4>1, <5>1
      <4>3. CASE Adds(peer, p, Ev("recovered", g))
        <5>1. s = Append(t, Ev("recovered", g))
          BY ZenonT(60), <1>10, <3>1, <4>3 DEF Adds
        <5>2. /\ Ev("recovered", g) \in Routed /\ Ev("recovered", g).kind = "recovered"
              /\ Ev("recovered", g).gen = g
          BY ZenonT(60) DEF Ev, Routed
        <5>3. MayTell(t, o, Ev("recovered", g))
          BY ZenonT(60), <3>1, <5>2 DEF MayTell, IsClosure
        <5>4. WordsOf(Append(t, Ev("recovered", g)), o)'
          BY ZenonT(60), <4>1, <5>2, <5>3, TellingKeeps
        <5> QED
          BY ZenonT(60), <5>1, <5>4
      <4> QED
        BY ZenonT(60), <4>2, <4>3
    <3> QED
      BY ZenonT(60), <1>0, <3>1
  <2>2. p.said = s
    BY ZenonT(60), <1>10
  <2>3. m.gen = g /\ g <= m.history /\ m.history <= world.max_restarts
    BY ZenonT(60), <1>1
  <2>4. /\ m.intent # "running" => node.intent # "running"
        /\ node.intent # "running" => m.intent # "running" /\ node.gen = g
    BY ZenonT(60), <1>1, <1>3
  <2>5. /\ Mute(g)' /\ proc'[g].at \in {"none", "gone"}
        /\ \A f \in {"done", "close"} : f \notin Range(sock'[g])
        /\ \A x \in exits' : x.gen # g
        /\ IsFailure("spawn_failed") => CrashTrue(g)'
        /\ ~ IsFailure("spawn_failed") => proc'[g].status = "ok" \/ m.intent # "running"
    BY ZenonT(60), <1>7, <1>8, <1>9
  <2>6. g \in over => g \in cut'
    BY ZenonT(60), <1>4
  <2> QED
    BY ZenonT(60), <1>1, <1>2, <1>3, <1>5, <1>6, <1>10, <2>1, <2>2, <2>3, <2>4, <2>5, <2>6, AfterExitStep
<1>11. p.said \in Seq(Routed)
  <2>1. Ev("recovered", g) \in Routed
    BY ZenonT(60) DEF Ev, Routed
  <2>2. Append(peer.said, Ev("recovered", g)) \in Seq(Routed)
    BY ZenonT(60), SMTT(60), <1>0, <2>1
  <2> QED
    BY ZenonT(60), <1>0, <2>2 DEF Keeps, Adds
<1> QED
  BY ZenonT(60), <1>10, <1>11

(* spawn_node of the first incarnation.                                         *)
LEMMA StartStep ==
    ASSUME Core, Words, Start
    PROVE  Core' /\ Words'
<1>0. Types /\ "said" \in DOMAIN peer /\ node \in NodeRecord
  BY ZenonT(60) DEF Core, Words, Types
<1>1. /\ node.state = "pending" /\ SpawnNode(node, peer, dues)
      /\ UNCHANGED <<world, bound, draining, sock, exits, cut, waited>>
  BY ZenonT(60) DEF Start
<1>2. node.gen \in Gens /\ node.gen \in Nat /\ node.history \in Nat /\ \A h \in Gens : h \in Nat
  BY ZenonT(60), <1>0, Fields
<1>3. node.gen <= node.history /\ node.history <= world.max_restarts
  BY <1>2 DEF Core, Budget
<1>4. node.intent = "running" /\ node.state \in {"pending", "restarting"}
  BY ZenonT(60), <1>1 DEF Core, Watched
<1>5. ASSUME NEW g \in Gens, g = node.gen
      PROVE  Core' /\ Words'
  <2>1. Unstarted(g) /\ \A h \in Gens : h > g => Unstarted(h) /\ h # node.gen
    BY SMTT(60), <1>1, <1>2, <1>5 DEF Unstarted
  <2>2. Keeps(peer, peer) /\ g <= node.history
    BY ZenonT(60), <1>0, <1>3, <1>5 DEF Keeps
  <2>3. CASE g \in world.spoilt
    <3>1. /\ AfterExit(Exited(node, "spawn_failed"), peer, armed, dues, g, "spawn_failed")
          /\ UNCHANGED proc
      BY ZenonT(60), <1>1, <1>5, <2>3 DEF SpawnNode
    <3> QED
      BY ZenonT(60), <1>0, <1>1, <1>3, <1>4, <1>5, <2>1, <2>2, <2>3, <3>1, SpawnFailedStep
  <2>4. CASE g \notin world.spoilt
    <3>1. /\ node' = [node EXCEPT !.state = "spawning", !.handle = TRUE, !.open = TRUE, !.intent = "running"]
          /\ proc' = [proc EXCEPT ![g] = Booting] /\ armed' = Arm(armed, "spawn", g)
          /\ peer' = Flushed(peer) /\ UNCHANGED <<deferred, over>>
      BY ZenonT(60), <1>1, <1>5, <2>4 DEF SpawnNode
    <3> QED
      BY ZenonT(60), <1>0, <1>1, <1>3, <1>4, <1>5, <2>1, <2>2, <3>1, SpawnedStep
  <2> QED
    BY ZenonT(60), <2>3, <2>4
<1> QED
  BY ZenonT(60), <1>2, <1>5

(* handle_restart_due.                                                          *)
LEMMA RestartStep ==
    ASSUME Core, Words, HandleRestartDue
    PROVE  Core' /\ Words'
<1> DEFINE next == [node EXCEPT !.gen = @ + 1, !.handle = FALSE, !.intent = "running",
                                !.open = FALSE, !.state = "pending"]
<1>0. Types /\ "said" \in DOMAIN peer /\ node \in NodeRecord
  BY ZenonT(60) DEF Core, Words, Types
<1>1. PICK e \in Gens :
         /\ LET d == [dues EXCEPT ![e] = @ - 1]
            IN  IF e = node.gen /\ node.state = "restarting"
                THEN SpawnNode(next, ToldRestarted(peer, next.gen), d)
                ELSE /\ dues' = d
                     /\ peer' = Flushed(peer)
                     /\ UNCHANGED <<node, armed, deferred, over, proc>>
         /\ UNCHANGED <<world, bound, draining, sock, exits, cut, waited>>
  BY ZenonT(60) DEF HandleRestartDue
<1>2. /\ node.gen \in Gens /\ node.gen \in Nat /\ node.history \in Nat
      /\ \A h \in Gens : h \in Nat
  BY ZenonT(60), <1>0, Fields
<1>3. CASE e = node.gen /\ node.state = "restarting"
  <2>1. PICK d : SpawnNode(next, ToldRestarted(peer, next.gen), d)
    BY ZenonT(60), <1>1, <1>3
  <2>2. node.gen + 1 <= node.history /\ node.history <= world.max_restarts
    BY ZenonT(60), <1>3 DEF Core, Budget
  <2>3. node.gen + 1 \in Gens
    <3>1. world.max_restarts \in 0..MaxGen /\ MaxGen \in Nat
      BY ZenonT(60), <1>0, NodeLifeAssumption DEF Types, World
    <3> QED
      BY SMTT(60), <1>2, <2>2, <3>1 DEF Gens
  <2>4. /\ next \in NodeRecord /\ next.gen = node.gen + 1 /\ next.history = node.history
        /\ next.intent = "running"
    BY ZenonT(60), <1>0, <2>3 DEF NodeRecord, States, Intents
  <2> HIDE DEF next
  <2>5. ASSUME NEW g \in Gens, g = next.gen, NEW p, p = ToldRestarted(peer, g)
        PROVE  Core' /\ Words'
    <3>1. g = node.gen + 1 /\ g # 0 /\ g <= next.history /\ next.history <= world.max_restarts
      BY SMTT(60), <1>2, <2>2, <2>4, <2>5
    <3>2. Unstarted(g) /\ \A h \in Gens : h > g => Unstarted(h) /\ h # node.gen
      BY SMTT(60), <1>2, <3>1 DEF Unstarted
    <3>3. "said" \in DOMAIN p /\ Adds(peer, p, Ev("recovered", g))
      BY ZenonT(60), <1>0, <2>5, <3>1, ClosingAdds DEF Adds
    <3>4. SpawnNode(next, p, d)
      BY ZenonT(60), <2>1, <2>5
    <3>5. CASE g \in world.spoilt
      <4>1. /\ AfterExit(Exited(next, "spawn_failed"), p, armed, d, g, "spawn_failed")
            /\ UNCHANGED proc
        BY ZenonT(60), <2>5, <3>4, <3>5 DEF SpawnNode
      <4> QED
        BY Zenon, <1>1, <1>3, <2>4, <2>5, <3>1, <3>2, <3>3, <3>5, <4>1, SpawnFailedStep
    <3>6. CASE g \notin world.spoilt
      <4>1. /\ node' = [next EXCEPT !.state = "spawning", !.handle = TRUE, !.open = TRUE, !.intent = "running"]
            /\ proc' = [proc EXCEPT ![g] = Booting] /\ armed' = Arm(armed, "spawn", g)
            /\ peer' = Flushed(p) /\ UNCHANGED <<deferred, over>>
        BY ZenonT(60), <2>5, <3>4, <3>6 DEF SpawnNode
      <4> QED
        BY ZenonT(60), <1>1, <1>3, <2>4, <2>5, <3>1, <3>2, <3>3, <4>1, SpawnedStep
    <3> QED
      BY Zenon, <3>5, <3>6
  <2> QED
    BY Zenon, <2>3, <2>4, <2>5
<1>4. CASE ~(e = node.gen /\ node.state = "restarting")
  <2>1. peer' = Flushed(peer) /\ UNCHANGED <<node, armed, deferred, over, proc>>
    BY ZenonT(60), <1>1, <1>4
  <2>2. UNCHANGED daemon /\ Keeps(peer, peer')
    BY ZenonT(60), <1>0, <1>1, <2>1, ServingKeeps DEF daemon
  <2>3. Processes
    BY ZenonT(60), <1>1, <2>1, ProcessesAlone
  <2> QED
    BY ZenonT(60), <1>1, <2>2, <2>3, QuietDaemon
<1> QED
  BY ZenonT(60), <1>3, <1>4

(* stop_node_at.                                                                *)
LEMMA StopStep ==
    ASSUME Core, Words, Stop
    PROVE  Core' /\ Words'
<1>0. Types /\ "said" \in DOMAIN peer /\ node \in NodeRecord /\ node.gen \in Gens
  BY ZenonT(60), Fields DEF Core, Words, Types
<1>1. PICK intent \in world.stops : node' = [node EXCEPT !.state = "stopping", !.intent = intent]
  BY Zenon DEF Stop
<1>2. /\ node.state \in world.stoppable /\ armed' = ArmWatchdog(armed, node.gen)
      /\ peer' = Flushed(peer)
      /\ UNCHANGED <<world, bound, draining, deferred, events, dues, over, cut, waited>>
  BY ZenonT(60) DEF Stop
<1>3. intent \in {"stop", "shutdown"} /\ node.state \in {"spawning", "running", "restarting"}
  BY ZenonT(60), <1>0, <1>2 DEF Types, World
<1>4. /\ node' \in NodeRecord /\ node'.gen = node.gen /\ node'.handle = node.handle
      /\ node'.history = node.history /\ node'.state = "stopping" /\ node'.intent # "running"
  BY Zenon, <1>0, <1>1, <1>3 DEF NodeRecord, States, Intents
<1>5. armed' \subseteq [table : Deadlines, gen : Gens]
  BY ZenonT(60), SMTT(60), <1>0, <1>2 DEF Types, ArmWatchdog, Arm, Deadlines
<1>6. Processes
  BY Zenon, <1>2, ProcessesAlone DEF events
<1>7. deferred' \subseteq Gens
  BY ZenonT(60), <1>0, <1>2 DEF Types
<1>8. Core' /\ Onward
  BY ZenonT(60), <1>2, <1>3, <1>4, <1>5, <1>6, <1>7, NodeAlike
<1>9. Keeps(peer, peer')
  BY ZenonT(60), <1>0, <1>2, ServingKeeps
<1> QED
  BY ZenonT(60), <1>2, <1>8, <1>9, NothingTold

(* The consumer is served by a tick, reads, or asks for more.                   *)
LEMMA ServedStep ==
    ASSUME Core, Words, Sweep \/ Consumes
    PROVE  Core' /\ Words'
<1>0. "said" \in DOMAIN peer
  BY ZenonT(60) DEF Words
<1>1. UNCHANGED <<world, node, bound, draining, deferred, armed, events, dues, over, cut, waited>>
  BY ZenonT(60) DEF Sweep, Consumes
<1>2. Keeps(peer, Delivered(peer))
  BY ZenonT(60), <1>0, ServingKeeps
<1>3. Keeps(peer, peer')
  <2>1. CASE Sweep
    <3>1. Keeps(Delivered(peer), Flushed(Delivered(peer)))
      BY ZenonT(60), <1>2, ServingKeeps DEF Keeps
    <3> QED
      BY ZenonT(60), <1>2, <2>1, <3>1 DEF Sweep, Keeps
  <2>2. CASE ReadEvent
    BY ZenonT(60), <1>0, <2>2 DEF ReadEvent, Keeps
  <2>3. CASE NextEvent
    <3> DEFINE q == Delivered(peer)
    <3>1. peer' = [q EXCEPT !.parked = Served(peer) = 0] /\ Keeps(peer, q)
      BY ZenonT(60), <1>2, <2>3 DEF NextEvent
    <3> HIDE DEF q
    <3> QED
      BY ZenonT(60), <3>1 DEF Keeps
  <2> QED
    BY ZenonT(60), <2>1, <2>2, <2>3 DEF Consumes
<1>4. UNCHANGED daemon
  BY ZenonT(60), <1>1 DEF daemon
<1>5. Processes
  BY ZenonT(60), <1>1, ProcessesAlone DEF events
<1> QED
  BY ZenonT(60), <1>1, <1>3, <1>4, <1>5, QuietDaemon

(* A signal to the node's process group leaves none of its processes.           *)
LEMMA SignalledStep ==
    ASSUME Core, NEW g \in Gens, Signalled(g), bound' = bound
    PROVE  Processes /\ (g = node.gen => \A h \in Gens : ~ Alive(h)')
<1>1. CASE node.handle /\ node.gen = g /\ Alive(g)
  <2>1. Dies(g, "signal")
    BY ZenonT(60), <1>1 DEF Signalled
  <2>2. PICK q, t : Legal(g, q, t) /\ Moves(g, q, t) /\ q.at = "gone"
    BY ZenonT(60), <1>1, <2>1, DyingIsLegal DEF Statuses
  <2>3. Processes
    BY ZenonT(60), <2>2, MovesProcesses
  <2>4. proc'[g].at = "gone"
    BY Zenon, <2>2 DEF Moves, Core, Types
  <2>5. ASSUME NEW h \in Gens, Alive(h)'
        PROVE  FALSE
    <3>1. Alive(h)
      BY ZenonT(60), <2>3, <2>5 DEF Processes
    <3>2. h = g
      BY ZenonT(60), <1>1, <3>1 DEF Core, NoOrphan
    <3> QED
      BY ZenonT(60), <2>4, <2>5, <3>2 DEF Alive
  <2> QED
    BY ZenonT(60), <2>3, <2>5
<1>2. CASE ~(node.handle /\ node.gen = g /\ Alive(g))
  <2>1. UNCHANGED events
    BY ZenonT(60), <1>2 DEF Signalled
  <2>2. Processes
    BY ZenonT(60), <2>1, ProcessesAlone DEF events
  <2>3. g = node.gen => \A h \in Gens : ~ Alive(h)'
    BY ZenonT(60), <1>2, <2>2 DEF Core, NoOrphan, Processes
  <2> QED
    BY ZenonT(60), <2>2, <2>3
<1> QED
  BY ZenonT(60), <1>1, <1>2

(* A deadline that says nothing of the node any more.                           *)
LEMMA StaleDeadline ==
    ASSUME Core, Words, NEW p, Keeps(peer, p), armed' \subseteq armed, peer' = Flushed(p),
           UNCHANGED <<world, node, bound, draining, deferred, over, cut, events>>,
           waited \subseteq waited'
    PROVE  Core' /\ Words'
<1>0. Types
  BY ZenonT(60) DEF Core
<1>1. Processes
  BY ZenonT(60), ProcessesAlone DEF events
<1>2. /\ node' \in NodeRecord /\ armed' \subseteq [table : Deadlines, gen : Gens]
      /\ deferred' \subseteq Gens
  BY ZenonT(60), <1>0 DEF Types
<1>3. \A x \in armed' : x.table \in {"term", "kill"} => node'.intent # "running"
  BY ZenonT(60) DEF Core, Watched
<1>4. Core' /\ Onward
  BY ZenonT(60), <1>1, <1>2, <1>3, NodeAlike
<1>5. Keeps(peer, peer')
  BY ZenonT(60), ServingKeeps DEF Keeps
<1> QED
  BY ZenonT(60), <1>4, <1>5, NothingTold

(* fail_node.                                                                   *)
LEMMA FailNodeStep ==
    ASSUME Core, Words, NEW g \in Gens, NEW p, Keeps(peer, p), NEW a, a \subseteq armed,
           FailNode(g, p, a), UNCHANGED <<world, bound, draining, waited>>
    PROVE  Core' /\ Words'
<1>1. CASE g # node.gen \/ Terminal(node)
  <2>1. armed' = a /\ peer' = Flushed(p) /\ UNCHANGED <<node, deferred, over, cut, events>>
    BY ZenonT(60), <1>1 DEF FailNode
  <2> QED
    BY ZenonT(60), <2>1, StaleDeadline
<1>2. CASE g = node.gen /\ ~ Terminal(node)
  <2> DEFINE n == Exited(node, "deadline")
  <2>1. Signalled(g) /\ AfterExit(n, p, a, dues, g, "deadline") /\ cut' = cut \cup {g}
    BY ZenonT(60), <1>2 DEF FailNode
  <2>2. /\ n \in NodeRecord /\ n.gen = node.gen /\ ~ n.handle
        /\ n.state \in {"finished", "failed"} /\ n.history = node.history
        /\ n.intent = node.intent
    BY ZenonT(60), ExitedFields DEF Core, Types
  <2> HIDE DEF n
  <2>3. Processes /\ \A h \in Gens : ~ Alive(h)'
    BY ZenonT(60), <1>2, <2>1, SignalledStep
  <2>4. draining' = {}
    BY ZenonT(60), <1>2 DEF Core, DrainingReal
  <2>5. n.gen = g /\ g \in cut' /\ cut \subseteq cut'
    BY ZenonT(60), <1>2, <2>1, <2>2
  <2> QED
    BY ZenonT(60), <1>2, <2>1, <2>2, <2>3, <2>4, <2>5, EndStep
<1> QED
  BY ZenonT(60), <1>1, <1>2

(* fire_drain_deadlines.                                                        *)
LEMMA DrainOverStep ==
    ASSUME Core, Words, NEW g \in Gens, NEW p, Keeps(peer, p), NEW a, a \subseteq armed,
           DrainOver(g, p, a), UNCHANGED <<world, bound>>
    PROVE  Core' /\ Words'
<1>1. CASE \E x \in draining : x.gen = g
  <2>1. Discharge(p, a) /\ cut' = cut \cup {g} /\ UNCHANGED <<events, waited>>
    BY ZenonT(60), <1>1 DEF DrainOver
  <2>2. g = node.gen /\ draining # {}
    BY ZenonT(60), <1>1 DEF Core, DrainingReal
  <2>3. Processes
    BY ZenonT(60), <2>1, ProcessesAlone DEF events
  <2> QED
    BY ZenonT(60), <2>1, <2>2, <2>3, DischargeStep
<1>2. CASE ~ \E x \in draining : x.gen = g
  <2>1. /\ armed' = a /\ peer' = Flushed(p)
        /\ UNCHANGED <<node, draining, deferred, over, cut, events, waited>>
    BY ZenonT(60), <1>2 DEF DrainOver
  <2> QED
    BY ZenonT(60), <2>1, StaleDeadline
<1> QED
  BY ZenonT(60), <1>1, <1>2

(* fire_closure_deadlines: the closure that waited too long is told.            *)
LEMMA ClosureOverStep ==
    ASSUME Core, Words, NEW g \in Gens, NEW p, Keeps(peer, p), NEW a, a \subseteq armed,
           ClosureOver(g, p, a), UNCHANGED <<world, bound>>
    PROVE  Core' /\ Words'
<1>0. Types
  BY ZenonT(60) DEF Core
<1>1. armed' = a /\ UNCHANGED <<node, draining, over, cut, events>>
  BY ZenonT(60) DEF ClosureOver
<1>2. CASE g \notin deferred
  <2>1. peer' = Flushed(p) /\ UNCHANGED <<deferred, waited>>
    BY ZenonT(60), <1>2 DEF ClosureOver
  <2> QED
    BY ZenonT(60), <1>1, <2>1, StaleDeadline
<1>3. CASE g \in deferred
  <2>1. deferred' = {} /\ peer' = Flushed(ClosedSource(p, g)) /\ waited' = waited \cup {g}
    BY ZenonT(60), <1>3 DEF ClosureOver
  <2>2. Processes
    BY ZenonT(60), <1>1, ProcessesAlone DEF events
  <2>3. node' \in NodeRecord /\ armed' \subseteq [table : Deadlines, gen : Gens]
    BY ZenonT(60), <1>0, <1>1 DEF Types
  <2>4. \A x \in armed' : x.table \in {"term", "kill"} => node'.intent # "running"
    BY ZenonT(60), <1>1 DEF Core, Watched
  <2>5. Core' /\ Onward /\ \A h \in Gens : Unstarted(h)' <=> Unstarted(h)
    BY ZenonT(60), <1>1, <2>1, <2>2, <2>3, <2>4, NodeAlike
  <2>6. Adds(p, ClosedSource(p, g), Ev("finished", g))
    BY ZenonT(60), ClosingAdds DEF Keeps
  <2>7. Keeps(ClosedSource(p, g), peer')
    BY ZenonT(60), <2>1, <2>6, ServingKeeps DEF Adds
  <2>8. Adds(peer, peer', Ev("finished", g))
    BY ZenonT(60), <2>6, <2>7 DEF Adds, Keeps
  <2>9. /\ Ev("finished", g) \in Routed /\ Ev("finished", g).kind = "finished"
        /\ Ev("finished", g).gen = g
    BY ZenonT(60) DEF Ev, Routed
  <2>10. Mute(g)' /\ ~ Unstarted(g)' /\ (g \in over => g \in cut')
    <3>1. Mute(g) /\ ~ Unstarted(g)
      BY ZenonT(60), <1>3 DEF Core, DeferredMute, Fresh
    <3>2. g \in over => g \in cut
      BY ZenonT(60), <1>3 DEF Core, Accounted
    <3> QED
      BY ZenonT(60), <1>1, <2>2, <2>5, <3>1, <3>2 DEF Processes
  <2>11. FinishTrue(g)'
    BY ZenonT(60), <2>1 DEF FinishTrue
  <2>12. MayTell(peer.said, over, Ev("finished", g))
    BY ZenonT(60), <2>9, <2>10, <2>11 DEF MayTell, IsClosure
  <2> QED
    BY ZenonT(60), <1>1, <2>5, <2>8, <2>9, <2>12, EventTold
<1> QED
  BY ZenonT(60), <1>2, <1>3

(* fire_watchdogs.                                                              *)
LEMMA EscalatedStep ==
    ASSUME Core, Words, NEW g \in Gens, NEW step \in {"term", "kill"},
           NEW p, Keeps(peer, p), NEW a, a \subseteq armed,
           node.intent # "running", Escalated(g, step, p, a), UNCHANGED <<world, bound>>
    PROVE  Core' /\ Words'
<1>0. Types
  BY ZenonT(60) DEF Core
<1>1. /\ node' = [node EXCEPT !.intent = step] /\ peer' = Flushed(p)
      /\ armed' = IF step = "term" THEN Arm(a, "kill", g) ELSE a
      /\ Signalled(g) \/ UNCHANGED events
      /\ UNCHANGED <<draining, deferred, over, cut, waited>>
  BY ZenonT(60) DEF Escalated
<1>2. Processes
  BY ZenonT(60), <1>1, SignalledStep, ProcessesAlone DEF events
<1>3. /\ node' \in NodeRecord /\ node'.gen = node.gen /\ node'.handle = node.handle
      /\ node'.history = node.history /\ node'.state = node.state /\ node'.intent # "running"
  BY Zenon, <1>0, <1>1 DEF Types, NodeRecord, Intents
<1>4. node'.state \notin {"pending", "restarting"}
  BY Zenon, <1>3 DEF Core, Watched
<1>5. armed' \subseteq [table : Deadlines, gen : Gens] /\ deferred' \subseteq Gens
  BY <1>0, <1>1 DEF Types, Arm, Deadlines
<1>6. Core' /\ Onward
  BY ZenonT(60), <1>1, <1>2, <1>3, <1>4, <1>5, NodeAlike
<1>7. Keeps(peer, peer')
  BY ZenonT(60), <1>1, ServingKeeps DEF Keeps
<1> QED
  BY ZenonT(60), <1>1, <1>6, <1>7, NothingTold

(* A deadline that runs out.                                                    *)
LEMMA ExpireStep ==
    ASSUME Core, Words, NEW table \in Deadlines, Expire(table)
    PROVE  Core' /\ Words'
<1>1. PICK x \in armed :
         /\ x.table = table
         /\ LET p == Delivered(peer)
                a == armed \ {x}
            IN  CASE table \in {"spawn", "health"} ->
                       FailNode(x.gen, p, a) /\ UNCHANGED <<draining, waited>>
                  [] table = "drain" -> DrainOver(x.gen, p, a)
                  [] table = "closure" -> ClosureOver(x.gen, p, a)
                  [] table \in {"term", "kill"} -> Escalated(x.gen, table, p, a)
         /\ UNCHANGED <<world, bound>>
  BY Zenon DEF Expire
<1>2. x.gen \in Gens /\ "said" \in DOMAIN peer
  BY Zenon, Fields DEF Core, Words
<1>3. ASSUME NEW p, p = Delivered(peer), NEW a, a = armed \ {x}
      PROVE  Core' /\ Words'
  <2>1. Keeps(peer, p) /\ a \subseteq armed
    BY ZenonT(60), <1>2, <1>3, ServingKeeps
  <2>2. CASE table \in {"spawn", "health"}
    <3>1. FailNode(x.gen, p, a) /\ UNCHANGED <<draining, waited>>
      BY Zenon, <1>1, <1>3, <2>2
    <3> QED
      BY ZenonT(60), <1>1, <1>2, <2>1, <3>1, FailNodeStep
  <2>3. CASE table = "drain"
    <3>1. DrainOver(x.gen, p, a)
      BY ZenonT(60), <1>1, <1>3, <2>3
    <3> QED
      BY ZenonT(60), <1>1, <1>2, <2>1, <3>1, DrainOverStep
  <2>4. CASE table = "closure"
    <3>1. ClosureOver(x.gen, p, a)
      BY ZenonT(60), <1>1, <1>3, <2>4
    <3> QED
      BY ZenonT(60), <1>1, <1>2, <2>1, <3>1, ClosureOverStep
  <2>5. CASE table \in {"term", "kill"}
    <3>1. Escalated(x.gen, table, p, a)
      BY ZenonT(60), <1>1, <1>3, <2>5
    <3>2. node.intent # "running"
      BY ZenonT(60), <1>1, <2>5 DEF Core, Watched
    <3> QED
      BY ZenonT(60), <1>1, <1>2, <2>1, <2>5, <3>1, <3>2, EscalatedStep
  <2> QED
    BY ZenonT(60), <2>2, <2>3, <2>4, <2>5 DEF Deadlines
<1> QED
  BY Zenon, <1>3

(* -------------------------------- results --------------------------------- *)

(* The first state.                                                             *)
LEMMA FirstState ==
    ASSUME Init
    PROVE  Core /\ Words
<1>1. /\ world \in World /\ MaxGen \in Nat
      /\ bound = {} /\ draining = {} /\ deferred = {} /\ armed = {} /\ exits = {}
      /\ over = {} /\ cut = {} /\ waited = {}
      /\ proc = [g \in Gens |-> NoProcess] /\ sock = [g \in Gens |-> <<>>]
  BY ZenonT(60), NodeLifeAssumption DEF Init
<1>2. /\ node \in NodeRecord /\ node.gen = 0 /\ node.state = "pending" /\ ~ node.handle
      /\ node.intent = "running" /\ node.history = 0
  BY ZenonT(60), SMTT(60), <1>1 DEF Init, NodeRecord, Gens, States, Intents
<1>3. "said" \in DOMAIN peer /\ peer.said = <<>>
  BY Zenon DEF Init
<1>4. NoProcess \in Process /\ NoProcess.at = "none" /\ NoProcess.status = "none"
  BY ZenonT(60) DEF NoProcess, Process, Places
<1>5. \A g \in Gens : proc[g] = NoProcess /\ sock[g] = <<>> /\ Range(sock[g]) = {}
  BY SMTT(60), <1>1 DEF Range
<1>6. Types
  <2>1. <<>> \in Seq(Frames)
    BY SMTT(60)
  <2> QED
    BY ZenonT(60), <1>1, <1>2, <1>4, <2>1 DEF Types
<1>7. Budget /\ Handled /\ Watched
  <2>1. world.max_restarts \in Nat
    BY SMTT(60), <1>1 DEF World
  <2> QED
    BY SMTT(60), <1>1, <1>2, <2>1 DEF Budget, Handled, Watched
<1>8. NoOrphan /\ Fresh /\ ExitsReal /\ DrainingReal /\ Accounted /\ DeferredMute
  BY ZenonT(60), <1>1, <1>4, <1>5 DEF NoOrphan, Alive, Fresh, ExitsReal, DrainingReal, Accounted, DeferredMute
<1>9. \A g \in Gens : Session(g)
  BY SMTT(60), <1>1, <1>4, <1>5 DEF Session, Ordered
<1>10. Words
  <2>1. <<>> \in Seq(Routed) /\ Range(<<>>) = {} /\ DOMAIN <<>> = {}
    BY SMTT(60) DEF Range
  <2>2. \A s : Range(s) = {} /\ DOMAIN s = {} => WordsOf(s, {})
    BY Zenon DEF WordsOf, UnstartedUnheard, ClosedMute, TailKeptIn, TruthfulIn, ToldIn
  <2> QED
    BY Zenon, <1>1, <1>3, <2>1, <2>2 DEF Words
<1> QED
  BY ZenonT(60), <1>6, <1>7, <1>8, <1>9, <1>10 DEF Core

(* Whatever happens next.                                                       *)
LEMMA EveryStep ==
    ASSUME Core /\ Words, [Next]_vars
    PROVE  (Core /\ Words)'
<1>1. ASSUME UNCHANGED vars
      PROVE  Core' /\ Words'
  <2>1. "said" \in DOMAIN peer
    BY ZenonT(60) DEF Words
  <2>2. Keeps(peer, peer') /\ UNCHANGED daemon /\ bound' = bound
    BY ZenonT(60), <1>1, <2>1 DEF vars, daemon, Keeps
  <2>3. Processes
    BY ZenonT(60), <1>1, ProcessesAlone DEF vars
  <2> QED
    BY ZenonT(60), <2>2, <2>3, QuietDaemon
<1>2. ASSUME Next
      PROVE  Core' /\ Words'
  BY ZenonT(60), <1>2, StartStep, ProcessExitStep, RestartStep, FrameStep, StopStep, ServedStep, LivesStep,
     ExpireStep DEF Next, HandleEvent
<1> QED
  BY ZenonT(60), <1>1, <1>2

(* The daemon's record of the node agrees with its processes, their sessions    *)
(* and the exits and deadlines under way, and what the consumer was told is     *)
(* true, in every state.                                                        *)
THEOREM NodeInductive == Spec => [](Core /\ Words)
  BY FirstState, EveryStep, PTL DEF Spec

(* No restart, deadline, stop or stale report leaves a process behind that the  *)
(* daemon does not hold the handle of.                                          *)
THEOREM NoOrphanEver == Spec => []NoOrphan
<1>1. Core /\ Words => NoOrphan
  BY ZenonT(60) DEF Core
<1> QED
  BY <1>1, NodeInductive, PTL

(* No message is routed behind the closure of its incarnation's output, unless  *)
(* the daemon gave up on it.                                                    *)
THEOREM TailAlwaysKept == Spec => []TailKept
<1>1. Core /\ Words => TailKept
  BY ZenonT(60) DEF Words, WordsOf, TailKeptIn, TailKept
<1> QED
  BY <1>1, NodeInductive, PTL

(* What the consumer is told of the end of its producer is true.                *)
THEOREM ClosuresAlwaysTruthful == Spec => []ClosuresAreTruthful
<1>1. Core /\ Words => ClosuresAreTruthful
  BY Zenon DEF Words, WordsOf, TruthfulIn, ClosuresAreTruthful, ToldIn, Told, CrashTrue, FinishTrue,
         LastIn, LastToldCrashed
<1> QED
  BY <1>1, NodeInductive, PTL
=============================================================================
