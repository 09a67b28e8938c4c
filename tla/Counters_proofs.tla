--------------------------- MODULE Counters_proofs ---------------------------
(***************************************************************************)
(* Proofs about the two components whose state is nothing but numbers that *)
(* are added to and taken from: the hybrid logical clock, for every set of *)
(* clocks and callers and every width of the two components of a stamp,    *)
(* and, in the second part, the credit of a route, for every window and    *)
(* every grant threshold that MuxConfig admits.                            *)
(***************************************************************************)
EXTENDS HLC, TLAPS

\* What the drift bound needs to be inductive: a pending call remembers a wall
\* reading below the horizon, and a remote it accepted was within the drift
\* bound of that reading.
PendingWithinHorizon ==
    \A c \in Caller :
        call[c].op # "idle" =>
            /\ call[c].wall <= horizon[ClockOf[c]]
            /\ call[c].op = "update" => WithinDrift(call[c].remote, call[c].wall)

IInv == TypeOK /\ PendingWithinHorizon /\ DriftContained

USE DEF Stamp, Pending

\* The wall clock's and the counters' ranges are naturals.
LEMMA Ranges == Physical \subseteq Nat /\ Logical \subseteq Nat /\ MAX \in HlcTimestamp /\ EPOCH \in HlcTimestamp
  BY WidthAssumption DEF Physical, Logical, MAX, EPOCH, HlcTimestamp

\* A finished call is a call.
LEMMA IdleTyped == Idle \in Calls /\ Idle.op = "idle"
  BY Ranges, WidthAssumption DEF Idle, Calls, Physical

\* Successor stays within the type, moves forward except at MAX, and adds to
\* the physical component only when it borrows, and then exactly one.
LEMMA SuccessorFacts ==
    ASSUME NEW p \in Physical, NEW l \in Logical
    PROVE  /\ Successor(p, l) \in HlcTimestamp
           /\ Lt(Stamp(p, l), Successor(p, l)) \/ (Stamp(p, l) = MAX /\ Successor(p, l) = MAX)
           /\ Successor(p, l).physical = IF Borrows(p, l) THEN p + 1 ELSE p
  BY WidthAssumption DEF Successor, HlcTimestamp, Physical, Logical, Lt, MAX, Borrows

\* The send rule moves a clock forward, to the wall reading or one borrowed
\* nanosecond at most.
LEMMA SendFacts ==
    ASSUME NEW s \in HlcTimestamp, NEW w \in Physical
    PROVE  /\ SendRule(s, w) \in HlcTimestamp
           /\ Lt(s, SendRule(s, w)) \/ (s = MAX /\ SendRule(s, w) = MAX)
           /\ SendRule(s, w).physical =
                 IF w > s.physical THEN w
                 ELSE IF Borrows(s.physical, s.logical) THEN s.physical + 1 ELSE s.physical
  <1>1. s.physical \in Physical /\ s.logical \in Logical /\ s = Stamp(s.physical, s.logical)
    BY DEF HlcTimestamp
  <1>2. CASE w > s.physical
    <2>1. SendRule(s, w) = Stamp(w, 0)
      BY <1>2 DEF SendRule
    <2>2. Stamp(w, 0) \in HlcTimestamp
      BY WidthAssumption DEF HlcTimestamp, Logical
    <2> QED BY <1>1, <1>2, <2>1, <2>2, Ranges DEF Lt
  <1>3. CASE ~ (w > s.physical)
    BY <1>1, <1>3, SuccessorFacts DEF SendRule
  <1> QED BY <1>2, <1>3

\* The receive rule moves a clock forward and past the remote stamp, to the
\* largest of the three physical times or one borrowed nanosecond past it.
LEMMA ReceiveFacts ==
    ASSUME NEW s \in HlcTimestamp, NEW w \in Physical, NEW r \in HlcTimestamp
    PROVE  LET m == Larger(Larger(w, s.physical), r.physical)
               l == ReceiveCounter(s, w, r)
               new == ReceiveRule(s, w, r)
           IN  /\ new \in HlcTimestamp
               /\ Lt(s, new) \/ (s = MAX /\ new = MAX)
               /\ Lt(r, new) \/ new = MAX
               /\ new.physical = IF Borrows(m, l) THEN m + 1 ELSE m
  <1> DEFINE m == Larger(Larger(w, s.physical), r.physical)
             l == ReceiveCounter(s, w, r)
             new == ReceiveRule(s, w, r)
  <1>1. /\ s.physical \in Physical /\ s.logical \in Logical
        /\ r.physical \in Physical /\ r.logical \in Logical
        /\ s = Stamp(s.physical, s.logical)
    BY DEF HlcTimestamp
  <1>2. m \in Physical /\ w <= m /\ s.physical <= m /\ r.physical <= m
    BY <1>1, Ranges DEF Larger
  <1>3. CASE l = -1
    <2>1. m # s.physical /\ m # r.physical
      BY <1>1, <1>3, Ranges DEF ReceiveCounter, Larger
    <2>2. new = Stamp(m, 0) /\ new \in HlcTimestamp
      BY <1>2, <1>3, WidthAssumption DEF ReceiveRule, HlcTimestamp, Logical
    <2>3. ~ Borrows(m, l)
      BY <1>3, WidthAssumption DEF Borrows
    <2> QED BY <1>1, <1>2, <2>1, <2>2, <2>3, Ranges DEF Lt
  <1>4. CASE l # -1
    <2>1. /\ l \in Logical
          /\ m = s.physical \/ m = r.physical
          /\ m = s.physical => s.logical <= l
          /\ m = r.physical => r.logical <= l
      BY <1>1, <1>4, Ranges DEF ReceiveCounter, Larger
    <2>2. new = Successor(m, l)
      BY <1>4 DEF ReceiveRule
    <2>3. /\ new \in HlcTimestamp
          /\ Lt(Stamp(m, l), new) \/ (Stamp(m, l) = MAX /\ new = MAX)
          /\ new.physical = IF Borrows(m, l) THEN m + 1 ELSE m
      BY <1>2, <2>1, <2>2, SuccessorFacts
    <2> HIDE DEF m, l, new
    <2>4. m \in Nat /\ l \in Nat /\ new.physical \in Nat /\ new.logical \in Nat
          /\ s.physical \in Nat /\ s.logical \in Nat /\ r.physical \in Nat /\ r.logical \in Nat
      BY Zenon, <1>1, <1>2, <2>1, <2>3, Ranges DEF HlcTimestamp
    <2>5. CASE Lt(Stamp(m, l), new)
      <3>1. m < new.physical \/ (m = new.physical /\ l < new.logical)
        BY <2>5 DEF Lt
      <3>2. Lt(r, new) /\ Lt(s, new)
        BY <1>2, <2>1, <2>4, <3>1 DEF Lt
      <3> QED BY <3>2, <2>3 DEF m, l, new
    <2>6. CASE Stamp(m, l) = MAX /\ new = MAX
      <3>1. new.physical = m /\ new.logical = l
        BY <2>6
      <3>2. s.physical < m \/ (s.physical = m /\ s.logical <= l)
        BY <1>2, <2>1, <2>4
      <3>3. Lt(s, new) \/ (s.physical = m /\ s.logical = l)
        BY <2>4, <3>1, <3>2 DEF Lt
      <3>4. Lt(s, new) \/ s = MAX
        BY <1>1, <2>6, <3>3
      <3> QED BY <2>3, <2>6, <3>4 DEF m, l, new
    <2> QED BY <2>3, <2>5, <2>6
  <1> QED BY <1>3, <1>4

\* The inductive invariant holds initially.
LEMMA InitIInv == Init => IInv
  BY Ranges, WidthAssumption, DriftAssumption
  DEF Init, IInv, TypeOK, PendingWithinHorizon, DriftContained, Calls, Idle, EPOCH, Physical

\* Reading the wall clock preserves the inductive invariant: the horizon only
\* grows.
LEMMA ReadPreserves ==
    ASSUME IInv, NEW c \in Caller, NEW w \in Physical, NEW p \in Calls,
           p.wall = w, p.op = "update" => WithinDrift(p.remote, w), ReadWall(c, w, p)
    PROVE  IInv'
  <1> USE Ranges
  <1>1. ASSUME NEW k \in Clock
        PROVE  /\ horizon[k] \in Nat /\ horizon'[k] \in Physical
               /\ horizon[k] <= horizon'[k]
               /\ k = ClockOf[c] => w <= horizon'[k]
    <2>1. horizon[k] \in Physical /\ horizon \in [Clock -> Physical] /\ ClockOf[c] \in Clock
      BY ClockOfAssumption DEF IInv, TypeOK
    <2>2. horizon' = [horizon EXCEPT ![ClockOf[c]] = Larger(@, w)]
      BY DEF ReadWall
    <2>3. horizon[k] \in Nat /\ w \in Nat
      BY Zenon, <2>1
    <2>4. CASE k = ClockOf[c]
      <3>1. horizon'[k] = Larger(horizon[k], w)
        BY <2>1, <2>2, <2>4
      <3> QED BY <2>1, <2>3, <3>1 DEF Larger
    <2>5. CASE k # ClockOf[c]
      <3>1. horizon'[k] = horizon[k]
        BY <2>1, <2>2, <2>5
      <3> QED BY <2>1, <2>3, <2>5, <3>1
    <2> QED BY <2>4, <2>5
  <1>2. /\ call' = [call EXCEPT ![c] = p]
        /\ UNCHANGED <<state, wire, borrowed>>
        /\ horizon' = [horizon EXCEPT ![ClockOf[c]] = Larger(@, w)]
    BY DEF ReadWall
  <1>3. horizon' \in [Clock -> Physical]
    BY Zenon, <1>1, <1>2 DEF IInv, TypeOK
  <1>4. TypeOK'
    BY <1>2, <1>3 DEF IInv, TypeOK
  <1>5. ASSUME NEW d \in Caller, call'[d].op # "idle"
        PROVE  /\ call'[d].wall <= horizon'[ClockOf[d]]
               /\ call'[d].op = "update" => WithinDrift(call'[d].remote, call'[d].wall)
    <2>0. ClockOf[d] \in Clock
      BY ClockOfAssumption
    <2>1. CASE d = c
      BY <1>1, <1>2, <2>0, <2>1 DEF IInv, TypeOK
    <2>2. CASE d # c
      <3>1. call'[d] = call[d] /\ call[d].wall \in Nat
        BY Zenon, <1>2, <2>2 DEF IInv, TypeOK, Calls
      <3>2. /\ call[d].wall <= horizon[ClockOf[d]]
            /\ call[d].op = "update" => WithinDrift(call[d].remote, call[d].wall)
        BY <1>5, <3>1 DEF IInv, PendingWithinHorizon
      <3> DEFINE a == horizon[ClockOf[d]]
                 b == horizon'[ClockOf[d]]
                 x == call[d].wall
      <3>3. a \in Nat /\ b \in Nat /\ a <= b
        BY Zenon, <1>1, <2>0
      <3>4. x \in Nat /\ x <= a
        BY Zenon, <3>1, <3>2
      <3> HIDE DEF a, b, x
      <3>5. x <= b
        BY <3>3, <3>4
      <3> QED BY Zenon, <3>1, <3>2, <3>5 DEF b, x
    <2> QED BY <2>1, <2>2
  <1>6. PendingWithinHorizon'
    BY <1>5 DEF PendingWithinHorizon
  <1>7. ASSUME NEW k \in Clock PROVE state'[k].physical <= horizon'[k] + MaxDrift + borrowed'[k]
    <2>1. /\ state'[k] = state[k] /\ borrowed'[k] = borrowed[k]
          /\ state[k].physical \in Nat /\ borrowed[k] \in Nat
      BY Zenon, <1>2 DEF IInv, TypeOK, HlcTimestamp
    <2>2. state[k].physical <= horizon[k] + MaxDrift + borrowed[k]
      BY DEF IInv, DriftContained
    <2>3. horizon[k] \in Nat /\ horizon'[k] \in Nat /\ horizon[k] <= horizon'[k]
      BY <1>1
    <2> QED BY <2>1, <2>2, <2>3, DriftAssumption
  <1>8. DriftContained'
    BY <1>7 DEF DriftContained
  <1> QED BY <1>4, <1>6, <1>8 DEF IInv

\* A critical section that leaves its clock at `new' preserves the inductive
\* invariant when `new' is bounded by that clock's own horizon.
LEMMA CriticalSectionPreserves ==
    ASSUME IInv, NEW c \in Caller, NEW new \in HlcTimestamp, NEW b \in Nat,
           state' = [state EXCEPT ![ClockOf[c]] = new],
           borrowed' = [borrowed EXCEPT ![ClockOf[c]] = b],
           call' = [call EXCEPT ![c] = Idle],
           wire' \in {wire, wire \cup {new}},
           horizon' = horizon,
           new.physical <= horizon[ClockOf[c]] + MaxDrift + b
    PROVE  IInv'
  <1>1. TypeOK'
    BY Zenon, IdleTyped DEF IInv, TypeOK
  <1>2. PendingWithinHorizon'
    BY IdleTyped DEF IInv, TypeOK, PendingWithinHorizon
  <1>3. DriftContained'
    BY ClockOfAssumption DEF IInv, TypeOK, DriftContained
  <1> QED BY <1>1, <1>2, <1>3 DEF IInv

\* Every step of a caller preserves the inductive invariant.
LEMMA NextIInv == IInv /\ [Next]_vars => IInv'
  <1> SUFFICES ASSUME IInv, [Next]_vars PROVE IInv'
    OBVIOUS
  <1> USE Ranges
  <1>0. CASE UNCHANGED vars
    BY <1>0 DEF IInv, TypeOK, PendingWithinHorizon, DriftContained, vars
  <1>1. ASSUME NEW c \in Caller, NowReads(c) PROVE IInv'
    <2>1. PICK w \in Physical : ReadWall(c, w, Pending("now", w, EPOCH))
      BY <1>1 DEF NowReads
    <2>2. Pending("now", w, EPOCH) \in Calls
      BY <2>1 DEF Calls
    <2> QED BY <2>1, <2>2, ReadPreserves
  <1>2. ASSUME NEW c \in Caller, UpdateReads(c) PROVE IInv'
    <2>1. PICK w \in Physical, r \in wire :
              WithinDrift(r, w) /\ ReadWall(c, w, Pending("update", w, r))
      BY <1>2 DEF UpdateReads
    <2>2. Pending("update", w, r) \in Calls
      BY <2>1 DEF Calls, IInv, TypeOK
    <2> QED BY <2>1, <2>2, ReadPreserves
  <1>3. ASSUME NEW c \in Caller, NowIssues(c) PROVE IInv'
    <2> DEFINE k == ClockOf[c]
               w == call[c].wall
               new == SendRule(state[k], w)
               borrow == w <= state[k].physical /\ Borrows(state[k].physical, state[k].logical)
               b == IF borrow THEN borrowed[k] + 1 ELSE borrowed[k]
    <2>1. /\ k \in Clock /\ state[k] \in HlcTimestamp /\ w \in Physical /\ w <= horizon[k]
          /\ state[k].physical \in Nat /\ horizon[k] \in Nat /\ borrowed[k] \in Nat
      BY Zenon, <1>3, ClockOfAssumption
      DEF NowIssues, IInv, TypeOK, Calls, PendingWithinHorizon, HlcTimestamp
    <2>2. /\ state' = [state EXCEPT ![k] = new]
          /\ wire' \in {wire, wire \cup {new}}
          /\ borrowed' = [borrowed EXCEPT ![k] = b]
          /\ call' = [call EXCEPT ![c] = Idle]
          /\ horizon' = horizon
      BY <1>3 DEF NowIssues
    <2>3. /\ new \in HlcTimestamp
          /\ new.physical = IF w > state[k].physical THEN w
                            ELSE IF Borrows(state[k].physical, state[k].logical)
                                 THEN state[k].physical + 1 ELSE state[k].physical
      BY <2>1, SendFacts
    <2>4. state[k].physical <= horizon[k] + MaxDrift + borrowed[k]
      BY <2>1 DEF IInv, DriftContained
    <2>5. b \in Nat /\ new.physical <= horizon[k] + MaxDrift + b
      <3>1. w \in Nat
        BY Zenon, <2>1
      <3>2. CASE w > state[k].physical
        BY <2>1, <2>3, <3>1, <3>2, DriftAssumption
      <3>3. CASE w <= state[k].physical
        BY <2>1, <2>3, <2>4, <3>1, <3>3, DriftAssumption
      <3> QED BY <2>1, <3>1, <3>2, <3>3
    <2> QED BY Zenon, <2>2, <2>3, <2>5, CriticalSectionPreserves
  <1>4. ASSUME NEW c \in Caller, UpdateMerges(c) PROVE IInv'
    <2> DEFINE k == ClockOf[c]
               w == call[c].wall
               r == call[c].remote
               new == ReceiveRule(state[k], w, r)
               m == Larger(Larger(w, state[k].physical), r.physical)
               borrow == Borrows(m, ReceiveCounter(state[k], w, r))
               b == IF borrow THEN borrowed[k] + 1 ELSE borrowed[k]
    <2>1. /\ k \in Clock /\ state[k] \in HlcTimestamp /\ w \in Physical /\ w <= horizon[k]
          /\ r \in HlcTimestamp /\ WithinDrift(r, w)
          /\ horizon[k] \in Nat /\ borrowed[k] \in Nat
      BY Zenon, <1>4, ClockOfAssumption DEF UpdateMerges, IInv, TypeOK, Calls, PendingWithinHorizon
    <2>2. /\ state' = [state EXCEPT ![k] = new]
          /\ borrowed' = [borrowed EXCEPT ![k] = b]
          /\ call' = [call EXCEPT ![c] = Idle]
          /\ UNCHANGED <<wire, horizon>>
      BY <1>4 DEF UpdateMerges
    <2>3. /\ new \in HlcTimestamp
          /\ new.physical = IF borrow THEN m + 1 ELSE m
      BY ZenonT(60), <2>1, ReceiveFacts
    <2>4. m <= horizon[k] + MaxDrift + borrowed[k] /\ m \in Nat
      <3>1. state[k].physical \in Nat /\ r.physical \in Nat /\ w \in Nat
        BY Zenon, <2>1 DEF HlcTimestamp
      <3>2. r.physical <= w + MaxDrift
        BY <2>1, <3>1, DriftAssumption DEF WithinDrift
      <3>3. state[k].physical <= horizon[k] + MaxDrift + borrowed[k]
        BY <2>1 DEF IInv, DriftContained
      <3> QED BY <2>1, <3>1, <3>2, <3>3, DriftAssumption DEF Larger
    <2> HIDE DEF m, borrow
    <2>5. b \in Nat /\ new.physical <= horizon[k] + MaxDrift + b
      BY <2>1, <2>3, <2>4, DriftAssumption
    <2> QED BY Zenon, <2>2, <2>3, <2>5, CriticalSectionPreserves
  <1> QED BY <1>0, <1>1, <1>2, <1>3, <1>4 DEF Next

\* The inductive invariant holds in every reachable state.
THEOREM Inductive == Spec => []IInv
  BY InitIInv, NextIInv, PTL DEF Spec

\* A clock is never more than max_drift ahead of the largest reading of its own
\* wall clock (plus what its overflows borrowed), for any number of peers
\* relaying each other's stamps through update_with().
THEOREM DriftIsContained == Spec => []DriftContained
  <1>1. IInv => DriftContained
    BY DEF IInv
  <1> QED BY Inductive, <1>1, PTL

\* Only the critical section of its own caller returns a call, and it leaves
\* the clock strictly later (or pinned at MAX) and past the remote it merged.
LEMMA ReturnFacts ==
    ASSUME IInv, [Next]_vars, NEW c \in Caller, call[c] # Idle, call'[c] = Idle
    PROVE  LET k == ClockOf[c]
           IN  /\ Lt(state[k], state'[k]) \/ (state[k] = MAX /\ state'[k] = MAX)
               /\ call[c].op = "update" => Lt(call[c].remote, state'[k]) \/ state'[k] = MAX
  <1> DEFINE k == ClockOf[c]
  <1>0. k \in Clock /\ state[k] \in HlcTimestamp /\ call[c] \in Calls
    BY ClockOfAssumption DEF IInv, TypeOK
  <1>1. PICK d \in Caller : NowReads(d) \/ UpdateReads(d) \/ NowIssues(d) \/ UpdateMerges(d)
    BY DEF Next, vars
  <1>2. ~ NowReads(d) /\ ~ UpdateReads(d)
    <2>1. ASSUME NEW w, NEW p, ReadWall(d, w, p) PROVE p = Idle
      BY <2>1 DEF ReadWall, IInv, TypeOK
    <2> QED BY Zenon, <2>1 DEF NowReads, UpdateReads, Idle
  <1>3. d = c
    BY <1>1, <1>2 DEF NowIssues, UpdateMerges, IInv, TypeOK
  <1>4. CASE NowIssues(c)
    <2>1. state'[k] = SendRule(state[k], call[c].wall) /\ call[c].op = "now"
      BY <1>0, <1>4 DEF NowIssues, IInv, TypeOK
    <2>2. call[c].wall \in Physical
      BY <1>0 DEF Calls
    <2> QED BY <1>0, <2>1, <2>2, SendFacts
  <1>5. CASE UpdateMerges(c)
    <2>1. state'[k] = ReceiveRule(state[k], call[c].wall, call[c].remote)
      BY <1>0, <1>5 DEF UpdateMerges, IInv, TypeOK
    <2>2. call[c].wall \in Physical /\ call[c].remote \in HlcTimestamp
      BY <1>0 DEF Calls
    <2> QED BY <1>0, <2>1, <2>2, ReceiveFacts
  <1> QED BY <1>1, <1>2, <1>3, <1>4, <1>5

\* A clock only ever moves forward, by every call of every thread, whatever the
\* wall clock read (hlc.rs, now(): "regardless of how the underlying wall clock
\* behaves").
THEOREM ClockOnlyAdvances == Spec => StrictlyIncreasing
  <1> DEFINE A == \A c \in Caller :
                     call[c] # Idle /\ call'[c] = Idle
                     => LET k == ClockOf[c] IN \/ Lt(state[k], state'[k])
                                               \/ state[k] = MAX /\ state'[k] = MAX
  <1>1. IInv /\ [Next]_vars => [A]_vars
    BY ReturnFacts
  <1>2. Spec => [][A]_vars
    BY <1>1, Inductive, PTL DEF Spec
  <1> QED BY <1>2 DEF StrictlyIncreasing

\* A merged stamp orders after the stamp it merged (update_with: "strictly
\* greater than both the local clock's previous state and remote").
THEOREM MergeIsCausal == Spec => MergeExceedsRemote
  <1> DEFINE A == \A c \in Caller :
                     call[c].op = "update" /\ call'[c] = Idle
                     => LET k == ClockOf[c] IN \/ Lt(call[c].remote, state'[k])
                                               \/ state'[k] = MAX
  <1>1. IInv /\ [Next]_vars => [A]_vars
    BY ReturnFacts, IdleTyped
  <1>2. Spec => [][A]_vars
    BY <1>1, Inductive, PTL DEF Spec
  <1> QED BY <1>2 DEF MergeExceedsRemote

-----------------------------------------------------------------------------
(***************************************************************************)
(* The credit of one direction of one route.                               *)
(***************************************************************************)
CONSTANTS Window, Threshold
VARIABLES phase, credit, flying, missed, buffered, taken, since, granted

Credit == INSTANCE CreditWindow

\* What validate() of MuxConfig guarantees.
ValidConfig == Window \in Nat \ {0} /\ Threshold \in 1..Window

\* The inductive invariant: nothing is under way before the route opens, the window
\* is conserved, and the receiver holds back less than one grant.
CreditInductive ==
    /\ Credit!TypeOK /\ Credit!Conserved
    /\ phase = "unopened" => flying + missed + buffered + taken + since + granted = 0
    /\ phase = "open" => since < Threshold

\* The invariant holds before the route is opened.
LEMMA CreditInit == ASSUME ValidConfig PROVE Credit!Init => CreditInductive
    BY SMTT(60) DEF ValidConfig, Credit!Init, CreditInductive, Credit!TypeOK, Credit!Conserved

\* Every step of the protocol keeps the invariant.
LEMMA CreditNext ==
    ASSUME ValidConfig
    PROVE  CreditInductive /\ [Credit!Next]_Credit!cvars => CreditInductive'
<1> SUFFICES ASSUME CreditInductive, [Credit!Next]_Credit!cvars PROVE CreditInductive'
    OBVIOUS
<1> USE DEF ValidConfig, CreditInductive, Credit!TypeOK, Credit!Conserved
<1>1. CASE Credit!Open
    BY <1>1 DEF Credit!Open
<1>2. CASE Credit!Write
    BY <1>2 DEF Credit!Write
<1>3. CASE Credit!Arrive
    BY <1>3 DEF Credit!Arrive
<1>4. CASE Credit!Miss
    BY <1>4 DEF Credit!Miss
<1>5. CASE Credit!Take
    BY <1>5 DEF Credit!Take
<1>6. CASE Credit!Note
    BY <1>6 DEF Credit!Note
<1>7. CASE Credit!AddCredit
    BY <1>7 DEF Credit!AddCredit
<1>8. CASE Credit!Close
    BY <1>8 DEF Credit!Close
<1>9. CASE UNCHANGED Credit!cvars
    BY <1>9 DEF Credit!cvars
<1> QED
    BY <1>1, <1>2, <1>3, <1>4, <1>5, <1>6, <1>7, <1>8, <1>9 DEF Credit!Next

\* The window of an open route is conserved: note_consumed and add_credit return
\* exactly what the writer spent.
THEOREM CreditConserved == ASSUME ValidConfig PROVE Credit!Spec => []Credit!Conserved
<1>1. CreditInductive => Credit!Conserved
    BY DEF CreditInductive
<1> QED
    BY CreditInit, CreditNext, <1>1, PTL DEF Credit!Spec

\* What is on its way to an application and what waits there fit the channel that
\* insert_route sized to the window, so try_send in dispatch_route_data does not
\* fail for a peer that respects its credit.
THEOREM NoFlowControlViolation ==
    ASSUME ValidConfig PROVE Credit!Spec => []Credit!RoomForArrivals
<1>1. CreditInductive => Credit!RoomForArrivals
    BY DEF ValidConfig, CreditInductive, Credit!TypeOK, Credit!Conserved, Credit!RoomForArrivals
<1> QED
    BY CreditInit, CreditNext, <1>1, PTL DEF Credit!Spec

\* A threshold of at most the window cannot strand the sender: while it has no
\* credit there is a frame or a grant on its way, unless frames were missed.
THEOREM BatchedGrantsSuffice ==
    ASSUME ValidConfig PROVE Credit!Spec => []Credit!NeverStuck
<1>1. CreditInductive => Credit!NeverStuck
    BY DEF ValidConfig, CreditInductive, Credit!TypeOK, Credit!Conserved, Credit!NeverStuck
<1> QED
    BY CreditInit, CreditNext, <1>1, PTL DEF Credit!Spec
=============================================================================
