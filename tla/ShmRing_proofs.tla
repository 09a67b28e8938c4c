--------------------------- MODULE ShmRing_proofs ---------------------------
(***************************************************************************)
(* For every ring size, policy, number of consumers and number of messages:  *)
(* no slot is reclaimed or rewritten while a reader has it pinned, every     *)
(* message of the resident window is readable, a lapped reader learns of it, *)
(* and a Block producer overtakes nobody who does not seek back.             *)
(*                                                                           *)
(* PinnedIsIntact is not inductive by itself.  What carries it is Owned: the *)
(* refcount of a READY slot counts its pins, any other slot has none and has *)
(* its gate closed, and the producer's place in try_allocate says in which   *)
(* state the slot it works on is.  The second half adds the watermarks       *)
(* (WInv) and what a Block producer knows of its consumers (BInv).           *)
(***************************************************************************)
EXTENDS ShmRing, FiniteSetTheorems, TLAPS

ConsRec == [pc: ConsPc, cursor: 1 .. MaxSeq + 1, entry: Entries, view: 0 .. MaxSeq,
            out: {"none", "sample", "empty", "lagged", "closed", "gone"}]
SlotRec == [state: {"free", "writing", "ready"}, seq: 0 .. MaxSeq,
            refcount: {SENTINEL} \cup Nat, mark: 0 .. MaxSeq]
HdrRec == [write_seq: 0 .. MaxSeq, reclaimed_seq: 0 .. MaxSeq,
           mark: 0 .. MaxSeq, closed: BOOLEAN, epoch: Nat]
EntryRec == [state: {"empty", "claiming", "active"},
             cursor: 0 .. MaxSeq + 1, owner: Consumer \cup {Nobody}]
ProdRec == [pc: {"idle", "scan", "check", "evict", "reclaim", "writing", "publish"},
            next_seq: 1 .. MaxSeq + 1, active: SUBSET Entries, todo: SUBSET Entries,
            epoch: Nat, valid: BOOLEAN, retried: BOOLEAN, owed: SUBSET Consumer,
            may_overwrite: BOOLEAN]
ProcType == [Consumer \cup {"producer"} -> {"alive", "dead", "stale"}]

(* A slot's state, its gate, its pins and its bytes agree.                  *)
SlotOwned(i) ==
    /\ slot[i].state # "ready" => pins[i] = {} /\ slot[i].refcount = SENTINEL
    /\ slot[i].state = "ready" => /\ bytes[i] = slot[i].seq
                                  /\ slot[i].refcount = Cardinality(pins[i])

(* The producer's place in try_allocate and the slot it works on agree.     *)
ProducerPlaced ==
    /\ prod.pc = "writing" => slot[Mine].state = "writing"
    /\ prod.pc = "reclaim" => slot[Mine].state = "free"
    /\ prod.pc # "idle" => prod.next_seq <= MaxSeq

(* A reader between its pin and its cursor store has what it wants pinned.  *)
ReaderPlaced(c) ==
    cons[c].pc = "pinned" => /\ slot[Wanted(c)].seq = cons[c].cursor
                             /\ \E h \in Handle : <<c, h>> \in pins[Wanted(c)]

Owned == /\ \A i \in Slots : SlotOwned(i)
         /\ ProducerPlaced
         /\ \A c \in Consumer : ReaderPlaced(c)

IInv == TypeOK /\ Owned

-----------------------------------------------------------------------------

(* slot_index_for_seq always lands in the ring.                             *)
LEMMA IndexInRing ==
    ASSUME NEW s \in Nat \ {0}
    PROVE  slot_index_for_seq(s) \in Slots
BY RingAssumption DEF slot_index_for_seq, Slots

(* The pins of a slot are finitely many, so a refcount can count them.      *)
LEMMA PinsFinite ==
    ASSUME TypeOK, NEW i \in Slots
    PROVE  IsFiniteSet(pins[i])
<1>1. IsFiniteSet(Consumer \X Handle)
  BY ZenonT(60), FS_Product, RingAssumption
<1>2. pins[i] \subseteq Consumer \X Handle
  BY ZenonT(60) DEF TypeOK
<1> QED BY ZenonT(60), <1>1, <1>2, FS_Subset

(* TypeOK, variable by variable.                                            *)
LEMMA TypeSplit ==
    TypeOK <=> /\ slot \in [Slots -> SlotRec]
               /\ bytes \in [Slots -> 0 .. MaxSeq]
               /\ hdr \in HdrRec
               /\ entry \in [Entries -> EntryRec]
               /\ prod \in ProdRec
               /\ cons \in [Consumer -> ConsRec]
               /\ pins \in [Slots -> SUBSET (Consumer \X Handle)]
               /\ proc \in ProcType
BY ZenonT(60) DEF TypeOK, SlotRec, HdrRec, EntryRec, ProdRec, ConsRec, ProcType

(* The same after a step.                                                   *)
LEMMA TypeSplitPrimed ==
    TypeOK' <=> /\ slot' \in [Slots -> SlotRec]
                /\ bytes' \in [Slots -> 0 .. MaxSeq]
                /\ hdr' \in HdrRec
                /\ entry' \in [Entries -> EntryRec]
                /\ prod' \in ProdRec
                /\ cons' \in [Consumer -> ConsRec]
                /\ pins' \in [Slots -> SUBSET (Consumer \X Handle)]
                /\ proc' \in ProcType
BY ZenonT(60) DEF TypeOK, SlotRec, HdrRec, EntryRec, ProdRec, ConsRec, ProcType

(* The slot the producer works on is one of the ring.                       *)
LEMMA MineInRing == TypeOK => Mine \in Slots
<1> SUFFICES ASSUME TypeOK PROVE Mine \in Slots
  BY ZenonT(60)
<1>1. prod.next_seq \in Nat \ {0}
  BY RingAssumption DEF TypeOK
<1> QED BY ZenonT(60), <1>1, IndexInRing DEF Mine

(* So is the slot a consumer wants next.                                    *)
LEMMA WantedInRing ==
    ASSUME TypeOK, NEW c \in Consumer
    PROVE  Wanted(c) \in Slots
<1>1. cons[c].cursor \in Nat \ {0}
  BY RingAssumption DEF TypeOK
<1> QED BY ZenonT(60), <1>1, IndexInRing DEF Wanted

(* The producer starts idle, whatever the policy of its segment.            *)
LEMMA InitialProducer ==
    ASSUME Init
    PROVE  /\ prod.pc = "idle" /\ prod.next_seq = 1 /\ prod.epoch = 0 /\ prod.owed = {}
           /\ ~prod.valid
<1>1. PICK policy \in Policies :
        prod = [pc |-> "idle", next_seq |-> 1, active |-> {}, todo |-> {}, epoch |-> 0,
                valid |-> FALSE, retried |-> FALSE, owed |-> {}, may_overwrite |-> policy]
  BY ZenonT(60) DEF Init
<1> QED BY ZenonT(60), SMTT(60), <1>1

(* The invariant holds initially.                                           *)
LEMMA InitIInv == Init => IInv
<1> SUFFICES ASSUME Init PROVE IInv
  BY ZenonT(60)
<1> USE RingAssumption DEF Init
<1>1. slot \in [Slots -> SlotRec] /\ bytes \in [Slots -> 0 .. MaxSeq]
  BY DEF SlotRec, SENTINEL
<1>2. hdr \in HdrRec /\ proc \in ProcType
  BY DEF HdrRec, ProcType
<1>3. entry \in [Entries -> EntryRec]
  BY DEF EntryRec, Nobody
<1>4. prod \in ProdRec
  BY DEF ProdRec
<1>5. NotAttached \in ConsRec
  BY DEF NotAttached, ConsRec, ConsPc, AttachPc, Entries
<1>6. cons \in [Consumer -> ConsRec] /\ pins \in [Slots -> SUBSET (Consumer \X Handle)]
  BY ZenonT(60), <1>5
<1>7. TypeOK
  BY ZenonT(60), <1>1, <1>2, <1>3, <1>4, <1>6, TypeSplit
<1>8. \A i \in Slots : SlotOwned(i)
  BY ZenonT(60) DEF SlotOwned
<1>9. ProducerPlaced
  BY ZenonT(60), InitialProducer DEF ProducerPlaced
<1>10. \A c \in Consumer : ReaderPlaced(c)
  BY ZenonT(60) DEF ReaderPlaced, NotAttached
<1> QED BY ZenonT(60), <1>7, <1>8, <1>9, <1>10 DEF IInv, Owned

-----------------------------------------------------------------------------
(* A consumer's step that leaves the slots and the pins alone, and does not *)
(* put a reader between pin and cursor store who was not there before.      *)
LEMMA LocalStep ==
    ASSUME IInv, NEW c \in Consumer, NEW r \in ConsRec,
           r.pc = "pinned" => cons[c].pc = "pinned" /\ r.cursor = cons[c].cursor,
           cons' = [cons EXCEPT ![c] = r],
           UNCHANGED <<slot, bytes, pins, proc>>,
           prod' \in ProdRec, prod'.pc = prod.pc, prod'.next_seq = prod.next_seq,
           hdr' \in HdrRec, entry' \in [Entries -> EntryRec]
    PROVE  IInv'
<1> USE DEF IInv, Owned
<1>1. TypeOK'
  <2>1. cons' \in [Consumer -> ConsRec]
    BY ZenonT(60), TypeSplit
  <2> QED BY ZenonT(60), <2>1, TypeSplit, TypeSplitPrimed
<1>2. \A i \in Slots : SlotOwned(i)'
  BY ZenonT(60) DEF SlotOwned
<1>3. ProducerPlaced'
  BY ZenonT(60) DEF ProducerPlaced, Mine, slot_index_for_seq
<1>4. ASSUME NEW d \in Consumer PROVE ReaderPlaced(d)'
  <2>1. CASE d = c
    <3>1. cons'[c] = r
      BY ZenonT(60), TypeSplit
    <3> QED BY ZenonT(60), <2>1, <3>1 DEF ReaderPlaced, Wanted, slot_index_for_seq
  <2>2. CASE d # c
    <3>1. cons'[d] = cons[d]
      BY ZenonT(60), <2>2, TypeSplit
    <3> QED BY ZenonT(60), <3>1 DEF ReaderPlaced, Wanted, slot_index_for_seq
  <2> QED BY ZenonT(60), <2>1, <2>2
<1> QED BY ZenonT(60), <1>1, <1>2, <1>3, <1>4

(* What a consumer may read as the watermark is a watermark.                *)
LEMMA ReadsTyped ==
    ASSUME TypeOK, NEW c \in Consumer, NEW x \in ReclaimedReads(c)
    PROVE  x \in 0 .. MaxSeq /\ x + 1 \in 1 .. MaxSeq + 1
<1>1. hdr.reclaimed_seq \in 0 .. MaxSeq /\ cons[c].view \in 0 .. MaxSeq
  BY ZenonT(60) DEF TypeOK
<1> QED BY <1>1, RingAssumption DEF ReclaimedReads

(* A start position resolves to a cursor in range.                          *)
LEMMA ResolveTyped ==
    ASSUME NEW s \in 1 .. MaxSeq + 1, NEW x \in 0 .. MaxSeq, NEW w \in 0 .. MaxSeq
    PROVE  Resolve(s, x, w) \in 1 .. MaxSeq + 1
BY RingAssumption DEF Resolve, Later

(* What an acquire load raises a view to is in range.                       *)
LEMMA AcquiredTyped ==
    ASSUME TypeOK, NEW c \in Consumer, NEW m \in 0 .. MaxSeq
    PROVE  Acquired(c, m) \in 0 .. MaxSeq
<1>1. cons[c].view \in 0 .. MaxSeq
  BY ZenonT(60) DEF TypeOK
<1> QED BY ZenonT(60), <1>1 DEF Acquired, Later

(* The header has the type of its fields.                                   *)
LEMMA HdrTyped ==
    ASSUME TypeOK
    PROVE  /\ hdr.write_seq \in 0 .. MaxSeq /\ hdr.mark \in 0 .. MaxSeq
           /\ hdr.reclaimed_seq \in 0 .. MaxSeq /\ hdr.epoch \in Nat /\ hdr.closed \in BOOLEAN
BY ZenonT(60) DEF TypeOK

(* A consumer has the type of its fields.                                   *)
LEMMA ConsTyped ==
    ASSUME TypeOK, NEW c \in Consumer
    PROVE  /\ cons[c] \in ConsRec /\ cons[c].cursor \in 1 .. MaxSeq + 1
           /\ cons[c].entry \in Entries
BY ZenonT(60) DEF TypeOK, ConsRec

(* The steps of attach.                                                     *)
LEMMA AttachPreserves ==
    ASSUME IInv, NEW c \in Consumer, AttachBegins(c) \/ AttachStep(c)
    PROVE  IInv'
<1> USE DEF IInv
<1>t. cons[c] \in ConsRec /\ cons[c].cursor \in 1 .. MaxSeq + 1 /\ cons[c].entry \in Entries
  BY ZenonT(60), ConsTyped
<1>0. prod \in ProdRec /\ hdr \in HdrRec /\ entry \in [Entries -> EntryRec]
  BY ZenonT(60), TypeSplit
<1>n. NotAttached \in ConsRec /\ NotAttached.pc = "detached"
  BY SMTT(60), RingAssumption DEF NotAttached, ConsRec, ConsPc, AttachPc, Entries
<1>1. CASE AttachBegins(c)
  <2>1. PICK x \in ReclaimedReads(c), start \in {1, MaxSeq + 1} :
           cons' = [cons EXCEPT ![c] = [Go(c, "claim") EXCEPT
                       !.cursor = Resolve(start, x, hdr.write_seq),
                       !.view = Later(x, Acquired(c, hdr.mark)), !.out = "none"]]
    BY Zenon, <1>1 DEF AttachBegins
  <2> DEFINE r == [Go(c, "claim") EXCEPT !.cursor = Resolve(start, x, hdr.write_seq),
                       !.view = Later(x, Acquired(c, hdr.mark)), !.out = "none"]
  <2>2. x \in 0 .. MaxSeq /\ start \in 1 .. MaxSeq + 1
    BY ReadsTyped, RingAssumption
  <2>3. Resolve(start, x, hdr.write_seq) \in 1 .. MaxSeq + 1
    BY Zenon, <2>2, ResolveTyped, HdrTyped
  <2>4. Later(x, Acquired(c, hdr.mark)) \in 0 .. MaxSeq
    BY ZenonT(60), <2>2, AcquiredTyped, HdrTyped DEF Later
  <2>5. r \in ConsRec /\ r.pc = "claim"
    BY Zenon, <1>t, <2>3, <2>4 DEF Go, ConsRec, ConsPc, AttachPc
  <2> QED BY ZenonT(60), <1>0, <1>1, <2>1, <2>5, LocalStep DEF AttachBegins
<1>2. CASE ClaimEntry(c)
  <2>1. CASE \E e \in Entries :
             /\ entry[e].state = "empty"
             /\ entry' = [entry EXCEPT ![e] = [state |-> "claiming", cursor |-> 0, owner |-> c]]
             /\ cons' = [cons EXCEPT ![c] = [Go(c, "activate") EXCEPT !.entry = e]]
    <3>1. PICK e \in Entries :
             /\ entry' = [entry EXCEPT ![e] = [state |-> "claiming", cursor |-> 0, owner |-> c]]
             /\ cons' = [cons EXCEPT ![c] = [Go(c, "activate") EXCEPT !.entry = e]]
      BY Zenon, <2>1
    <3> DEFINE r == [Go(c, "activate") EXCEPT !.entry = e]
    <3>2. r \in ConsRec /\ r.pc = "activate"
      BY Zenon, <1>t DEF Go, ConsRec, ConsPc, AttachPc
    <3>3. entry' \in [Entries -> EntryRec]
      BY <1>0, <3>1, RingAssumption DEF EntryRec
    <3> QED BY Zenon, <1>0, <1>2, <3>1, <3>2, <3>3, LocalStep DEF ClaimEntry
  <2>2. CASE cons' = [cons EXCEPT ![c] = NotAttached] /\ entry' = entry
    BY Zenon, <1>0, <1>n, <1>2, <2>2, LocalStep DEF ClaimEntry
  <2> QED BY ZenonT(60), <1>2, <2>1, <2>2 DEF ClaimEntry
<1>3. CASE Activate(c)
  <2> DEFINE r == Go(c, "announce")
  <2>1. r \in ConsRec /\ r.pc = "announce"
    BY ZenonT(60), <1>t DEF Go, ConsRec, ConsPc, AttachPc
  <2>2. entry' \in [Entries -> EntryRec]
    BY <1>0, <1>t, <1>3 DEF Activate, EntryRec
  <2> QED BY Zenon, <1>0, <1>3, <2>1, <2>2, LocalStep DEF Activate
<1>4. CASE Announce(c)
  <2> DEFINE r == Go(c, "clamp")
  <2>1. r \in ConsRec /\ r.pc = "clamp"
    BY ZenonT(60), <1>t DEF Go, ConsRec, ConsPc
  <2>2. hdr' \in HdrRec
    BY <1>0, <1>4 DEF Announce, HdrRec
  <2> QED BY Zenon, <1>0, <1>4, <2>1, <2>2, LocalStep DEF Announce
<1>5. CASE ClampToOldest(c)
  <2>1. PICK x \in ReclaimedReads(c) :
           SetCursor(c, [Go(c, "idle") EXCEPT !.view = x], Later(cons[c].cursor, x + 1))
    BY ZenonT(60), <1>5 DEF ClampToOldest
  <2> DEFINE s == Later(cons[c].cursor, x + 1)
             r == [[Go(c, "idle") EXCEPT !.view = x] EXCEPT !.cursor = s]
  <2>2. s \in 1 .. MaxSeq + 1
    BY ZenonT(60), <1>t, ReadsTyped DEF Later
  <2>3. r \in ConsRec /\ r.pc = "idle"
    BY Zenon, <1>t, <2>2, ReadsTyped DEF Go, ConsRec, ConsPc
  <2>4. entry' = [entry EXCEPT ![cons[c].entry].cursor = s] /\ cons' = [cons EXCEPT ![c] = r]
    BY ZenonT(60), <2>1 DEF SetCursor
  <2>5. entry' \in [Entries -> EntryRec]
    BY <1>0, <1>t, <2>2, <2>4 DEF EntryRec
  <2> QED BY Zenon, <1>0, <1>5, <2>3, <2>4, <2>5, LocalStep DEF ClampToOldest
<1> QED BY ZenonT(60), <1>1, <1>2, <1>3, <1>4, <1>5 DEF AttachStep

(* A consumer's step that publishes a cursor.                               *)
LEMMA CursorStored ==
    ASSUME IInv, NEW c \in Consumer, NEW r \in ConsRec, r.pc # "pinned",
           NEW s \in 1 .. MaxSeq + 1, SetCursor(c, r, s),
           prod' \in ProdRec, prod'.pc = prod.pc, prod'.next_seq = prod.next_seq,
           UNCHANGED <<slot, bytes, hdr, pins, proc>>
    PROVE  IInv'
<1> DEFINE q == [r EXCEPT !.cursor = s]
<1>0. hdr \in HdrRec /\ entry \in [Entries -> EntryRec]
  BY ZenonT(60), TypeSplit DEF IInv
<1>1. q \in ConsRec /\ q.pc # "pinned"
  BY ZenonT(60) DEF ConsRec
<1>2. cons[c].entry \in Entries
  BY ZenonT(60), ConsTyped DEF IInv
<1>3. entry' \in [Entries -> EntryRec]
  BY <1>0, <1>2 DEF SetCursor, EntryRec
<1>4. cons' = [cons EXCEPT ![c] = q]
  BY ZenonT(60) DEF SetCursor
<1> HIDE DEF q
<1> QED BY Zenon, <1>0, <1>1, <1>3, <1>4, LocalStep

(* The ones that concern the consumer alone: TryNextBegins on a lag, and     *)
(* Advance.                                                                  *)
LEMMA SetCursorPreserves ==
    ASSUME IInv, NEW c \in Consumer, NEW r \in ConsRec, r.pc # "pinned",
           NEW s \in 1 .. MaxSeq + 1, SetCursor(c, r, s),
           UNCHANGED <<slot, bytes, hdr, prod, pins, proc>>
    PROVE  IInv'
<1>1. prod' \in ProdRec /\ prod'.pc = prod.pc /\ prod'.next_seq = prod.next_seq
  BY ZenonT(60), TypeSplit DEF IInv
<1> QED BY ZenonT(60), <1>1, CursorStored

(* The steps of try_next and of the liveness check that pin nothing.        *)
LEMMA LookPreserves ==
    ASSUME IInv, NEW c \in Consumer,
           \/ TryNextBegins(c) \/ ReadWriteSeq(c) \/ ReadClosed(c) \/ Advance(c)
           \/ FindQuiet(c) \/ CheckPid(c) \/ Seek(c) \/ Detached(c) \/ WatermarkVisible(c)
    PROVE  IInv'
<1> USE DEF IInv
<1>t. cons[c] \in ConsRec /\ cons[c].cursor \in 1 .. MaxSeq + 1 /\ cons[c].entry \in Entries
  BY ZenonT(60), ConsTyped
<1>0. prod \in ProdRec /\ hdr \in HdrRec /\ entry \in [Entries -> EntryRec]
  BY ZenonT(60), TypeSplit
<1>a. Acquired(c, hdr.mark) \in 0 .. MaxSeq
  BY ZenonT(60), AcquiredTyped, HdrTyped
<1>1. CASE TryNextBegins(c)
  <2>1. PICK x \in ReclaimedReads(c) :
          \/ /\ cons[c].cursor <= x
             /\ SetCursor(c, [[cons[c] EXCEPT !.view = x] EXCEPT !.out = "lagged"], x + 1)
          \/ /\ cons[c].cursor > x
             /\ cons' = [cons EXCEPT ![c] =
                           [[cons[c] EXCEPT !.view = x] EXCEPT !.pc = "seq", !.out = "none"]]
             /\ UNCHANGED entry
    BY ZenonT(60), <1>1 DEF TryNextBegins
  <2> DEFINE lagged == [[cons[c] EXCEPT !.view = x] EXCEPT !.out = "lagged"]
             going  == [[cons[c] EXCEPT !.view = x] EXCEPT !.pc = "seq", !.out = "none"]
  <2>2. cons[c].pc = "idle" /\ UNCHANGED <<slot, bytes, hdr, prod, pins, proc>>
    BY Zenon, <1>1 DEF TryNextBegins
  <2>3. lagged \in ConsRec /\ lagged.pc = "idle"
    BY Zenon, <1>t, <2>2, ReadsTyped DEF ConsRec, ConsPc
  <2>4. going \in ConsRec /\ going.pc = "seq"
    BY Zenon, <1>t, ReadsTyped DEF ConsRec, ConsPc, RecvPc
  <2>5. x + 1 \in 1 .. MaxSeq + 1
    BY ZenonT(60), ReadsTyped
  <2> HIDE DEF lagged, going
  <2>6. CASE SetCursor(c, lagged, x + 1)
    BY ZenonT(60), <2>2, <2>3, <2>5, <2>6, SetCursorPreserves
  <2>7. CASE cons' = [cons EXCEPT ![c] = going] /\ UNCHANGED entry
    BY Zenon, <1>0, <2>2, <2>4, <2>7, LocalStep
  <2> QED BY ZenonT(60), <2>1, <2>6, <2>7 DEF lagged, going
<1>2. CASE ReadWriteSeq(c)
  <2> DEFINE p == IF cons[c].cursor > hdr.write_seq THEN "closed" ELSE "pin"
             r == [Go(c, p) EXCEPT !.view = Acquired(c, hdr.mark)]
  <2>1. p \in {"closed", "pin"}
    BY ZenonT(60)
  <2>2. cons' = [cons EXCEPT ![c] = r] /\ UNCHANGED <<slot, bytes, hdr, entry, prod, pins, proc>>
    BY ZenonT(60), <1>2 DEF ReadWriteSeq
  <2> HIDE DEF p
  <2>3. r \in ConsRec /\ r.pc # "pinned"
    BY Zenon, <1>t, <1>a, <2>1 DEF Go, ConsRec, ConsPc, RecvPc
  <2> QED BY Zenon, <1>0, <2>2, <2>3, LocalStep
<1>3. CASE ReadClosed(c)
  <2> DEFINE o == IF hdr.closed THEN "closed" ELSE "empty"
             r == [Go(c, "idle") EXCEPT !.out = o]
  <2>1. o \in {"closed", "empty"}
    BY ZenonT(60)
  <2>2. cons' = [cons EXCEPT ![c] = r] /\ UNCHANGED <<slot, bytes, hdr, entry, prod, pins, proc>>
    BY ZenonT(60), <1>3 DEF ReadClosed
  <2> HIDE DEF o
  <2>3. r \in ConsRec /\ r.pc # "pinned"
    BY Zenon, <1>t, <2>1 DEF Go, ConsRec, ConsPc
  <2> QED BY Zenon, <1>0, <2>2, <2>3, LocalStep
<1>4. CASE Advance(c)
  <2> DEFINE r == [Go(c, "idle") EXCEPT !.out = "sample"]
  <2>1. cons[c].pc = "pinned" /\ SetCursor(c, r, cons[c].cursor + 1)
        /\ UNCHANGED <<slot, bytes, hdr, prod, pins, proc>>
    BY ZenonT(60), <1>4 DEF Advance
  <2>2. slot[Wanted(c)].seq = cons[c].cursor
    BY ZenonT(60), <2>1 DEF Owned, ReaderPlaced
  <2>3. cons[c].cursor <= MaxSeq
    <3>1. Wanted(c) \in Slots
      BY ZenonT(60), WantedInRing
    <3>2. slot[Wanted(c)].seq \in 0 .. MaxSeq
      BY ZenonT(60), <3>1 DEF TypeOK
    <3> QED BY <2>2, <3>2, RingAssumption
  <2>4. cons[c].cursor + 1 \in 1 .. MaxSeq + 1
    BY <1>t, <2>3, RingAssumption
  <2>5. r \in ConsRec /\ r.pc # "pinned"
    BY Zenon, <1>t DEF Go, ConsRec, ConsPc
  <2> HIDE DEF r
  <2> QED BY ZenonT(60), <2>1, <2>4, <2>5, SetCursorPreserves
<1>5. CASE FindQuiet(c)
  <2> DEFINE r == [Go(c, "quiet") EXCEPT !.view = Acquired(c, hdr.mark)]
  <2>1. r \in ConsRec /\ r.pc # "pinned"
    BY Zenon, <1>t, <1>a DEF Go, ConsRec, ConsPc
  <2>2. cons' = [cons EXCEPT ![c] = r] /\ UNCHANGED <<slot, bytes, hdr, entry, prod, pins, proc>>
    BY ZenonT(60), <1>5 DEF FindQuiet
  <2> QED BY Zenon, <1>0, <2>1, <2>2, LocalStep
<1>6. CASE CheckPid(c)
  <2> DEFINE back == Go(c, "idle")
             gone == [Go(c, "idle") EXCEPT !.out = "gone"]
  <2>1. back \in ConsRec /\ back.pc # "pinned" /\ gone \in ConsRec /\ gone.pc # "pinned"
    BY Zenon, <1>t DEF Go, ConsRec, ConsPc
  <2>2. UNCHANGED <<slot, bytes, entry, prod, pins, proc>>
        /\ \/ cons' = [cons EXCEPT ![c] = back] /\ UNCHANGED hdr
           \/ cons' = [cons EXCEPT ![c] = gone] /\ hdr' = [hdr EXCEPT !.closed = TRUE]
    BY ZenonT(60), <1>6 DEF CheckPid
  <2>3. hdr' \in HdrRec
    BY Zenon, <1>0, <2>2 DEF HdrRec
  <2> HIDE DEF back, gone
  <2> QED BY ZenonT(60), <1>0, <2>1, <2>2, <2>3, LocalStep
<1>7. CASE Seek(c)
  <2>1. PICK x \in ReclaimedReads(c), s \in 1 .. MaxSeq + 1 :
          SetCursor(c, [cons[c] EXCEPT !.view = Later(x, Acquired(c, hdr.mark))],
                    Resolve(s, x, hdr.write_seq))
    BY ZenonT(60), <1>7 DEF Seek
  <2> DEFINE r == [cons[c] EXCEPT !.view = Later(x, Acquired(c, hdr.mark))]
             t == Resolve(s, x, hdr.write_seq)
  <2>2. t \in 1 .. MaxSeq + 1
    BY ZenonT(60), ReadsTyped, ResolveTyped, HdrTyped
  <2>3. /\ cons[c].pc = "idle" /\ UNCHANGED <<slot, bytes, hdr, pins, proc>>
        /\ prod' = [prod EXCEPT !.owed = prod.owed \ {c}]
    BY ZenonT(60), <1>7 DEF Seek
  <2>7. prod' \in ProdRec /\ prod'.pc = prod.pc /\ prod'.next_seq = prod.next_seq
    BY ZenonT(60), <1>0, <2>3 DEF ProdRec
  <2>4. Later(x, Acquired(c, hdr.mark)) \in 0 .. MaxSeq
    BY ZenonT(60), <1>a, ReadsTyped DEF Later
  <2>5. r \in ConsRec /\ r.pc # "pinned"
    BY ZenonT(60), <1>t, <2>3, <2>4 DEF ConsRec
  <2> HIDE DEF r, t
  <2>6. SetCursor(c, r, t)
    BY ZenonT(60), <2>1 DEF r, t
  <2> QED BY ZenonT(60), <2>2, <2>3, <2>5, <2>6, <2>7, CursorStored
<1>8. CASE Detached(c)
  <2>1. NotAttached \in ConsRec /\ NotAttached.pc = "detached"
    BY RingAssumption DEF NotAttached, ConsRec, ConsPc, AttachPc, Entries
  <2>2. hdr' \in HdrRec
    BY <1>0, <1>8 DEF Detached, HdrRec
  <2> QED BY Zenon, <1>0, <1>8, <2>1, <2>2, LocalStep DEF Detached
<1>9. CASE WatermarkVisible(c)
  <2> DEFINE r == [cons[c] EXCEPT !.view = hdr.reclaimed_seq]
  <2>1. r \in ConsRec /\ r.pc = cons[c].pc /\ r.cursor = cons[c].cursor
    BY ZenonT(60), <1>t, HdrTyped DEF ConsRec
  <2>2. cons' = [cons EXCEPT ![c] = r] /\ UNCHANGED <<slot, bytes, hdr, entry, prod, pins, proc>>
    BY ZenonT(60), <1>9 DEF WatermarkVisible
  <2> HIDE DEF r
  <2> QED BY Zenon, <1>0, <2>1, <2>2, LocalStep
<1> QED BY ZenonT(60), <1>1, <1>2, <1>3, <1>4, <1>5, <1>6, <1>7, <1>8, <1>9

-----------------------------------------------------------------------------
(* Counting one more reader in, or one out, keeps the refcount exact.       *)
LEMMA PinPreserves ==
    ASSUME IInv, NEW c \in Consumer, Pin(c)
    PROVE  IInv'
<1> USE DEF IInv
<1> DEFINE i == Wanted(c)
<1>t. cons[c] \in ConsRec /\ cons[c].cursor \in 1 .. MaxSeq + 1
  BY ZenonT(60), ConsTyped
<1>0. /\ prod \in ProdRec /\ hdr \in HdrRec /\ entry \in [Entries -> EntryRec]
      /\ slot \in [Slots -> SlotRec] /\ cons \in [Consumer -> ConsRec]
      /\ pins \in [Slots -> SUBSET (Consumer \X Handle)]
  BY ZenonT(60), TypeSplit
<1>i. i \in Slots
  BY ZenonT(60), WantedInRing
<1>u. UNCHANGED <<bytes, hdr, entry, prod, proc>>
  BY ZenonT(60) DEF Pin
<1>1. CASE slot[i].refcount = SENTINEL
  <2>1. PICK o \in {"none", "empty"} : cons' = [cons EXCEPT ![c] = [Go(c, "idle") EXCEPT !.out = o]]
    BY ZenonT(60), <1>1 DEF Pin
  <2> DEFINE r == [Go(c, "idle") EXCEPT !.out = o]
  <2>2. UNCHANGED <<slot, pins>>
    BY ZenonT(60), <1>1 DEF Pin
  <2>3. r \in ConsRec /\ r.pc # "pinned"
    BY Zenon, <1>t DEF Go, ConsRec, ConsPc
  <2> QED BY Zenon, <1>0, <1>u, <2>1, <2>2, <2>3, LocalStep
<1>2. CASE slot[i].refcount # SENTINEL
  <2> DEFINE p == IF slot[i].seq = cons[c].cursor THEN "pinned" ELSE "mispinned"
             r == [Go(c, p) EXCEPT !.view = Acquired(c, slot[i].mark)]
  <2>1. /\ slot' = [slot EXCEPT ![i].refcount = slot[i].refcount + 1]
        /\ cons' = [cons EXCEPT ![c] = r]
    BY ZenonT(60), <1>2 DEF Pin
  <2>2. PICK h \in Handle : /\ <<c, h>> \notin pins[i]
                            /\ pins' = [pins EXCEPT ![i] = pins[i] \cup {<<c, h>>}]
    BY ZenonT(60), <1>2 DEF Pin
  <2>3. SlotOwned(i)
    BY ZenonT(60), <1>i DEF Owned
  <2>4. slot[i].state = "ready"
    BY ZenonT(60), <1>2, <2>3, <1>0, <1>i DEF SlotOwned
  <2>5. slot[i].refcount = Cardinality(pins[i])
    BY ZenonT(60), <2>3, <2>4 DEF SlotOwned
  <2>6. Cardinality(pins[i]) \in Nat
    BY ZenonT(60), <1>i, PinsFinite, FS_CardinalityType
  <2>7. Cardinality(pins[i] \cup {<<c, h>>}) = Cardinality(pins[i]) + 1
    BY Zenon, <1>i, <2>2, PinsFinite, FS_AddElement
  <2>8. p \in {"pinned", "mispinned"} /\ (p = "pinned" => slot[i].seq = cons[c].cursor)
    BY ZenonT(60)
  <2>9. Acquired(c, slot[i].mark) \in 0 .. MaxSeq
    BY ZenonT(60), <1>0, <1>i, AcquiredTyped DEF SlotRec
  <2> HIDE DEF p, i
  <2>10. r \in ConsRec /\ r.pc = p /\ r.cursor = cons[c].cursor
    BY Zenon, <1>t, <2>8, <2>9 DEF Go, ConsRec, ConsPc, RecvPc
  <2> HIDE DEF r
  <2>11. TypeOK'
    <3>1. slot' \in [Slots -> SlotRec]
      BY <1>0, <1>i, <2>1, <2>5, <2>6 DEF SlotRec, SENTINEL
    <3>2. pins' \in [Slots -> SUBSET (Consumer \X Handle)]
      BY <1>0, <1>i, <2>2
    <3>3. cons' \in [Consumer -> ConsRec]
      BY ZenonT(60), <1>0, <2>1, <2>10
    <3> QED BY ZenonT(60), <1>u, <3>1, <3>2, <3>3, TypeSplit, TypeSplitPrimed
  <2>12. ASSUME NEW j \in Slots
         PROVE  /\ slot'[j].state = slot[j].state /\ slot'[j].seq = slot[j].seq
                /\ pins[j] \subseteq pins'[j]
    BY ZenonT(60), <1>0, <1>i, <2>1, <2>2 DEF SlotRec
  <2>13. ASSUME NEW j \in Slots PROVE SlotOwned(j)'
    <3>1. CASE j = i
      <4>1. slot'[i].refcount = Cardinality(pins[i]) + 1 /\ slot'[i].state = "ready"
            /\ slot'[i].seq = slot[i].seq
        BY ZenonT(60), <1>0, <1>i, <2>1, <2>4, <2>5 DEF SlotRec
      <4>2. pins'[i] = pins[i] \cup {<<c, h>>}
        BY ZenonT(60), <1>0, <1>i, <2>2
      <4>3. bytes'[i] = slot'[i].seq
        BY ZenonT(60), <1>u, <2>3, <2>4, <4>1 DEF SlotOwned
      <4> QED BY ZenonT(60), <2>7, <3>1, <4>1, <4>2, <4>3 DEF SlotOwned
    <3>2. CASE j # i
      <4>1. slot'[j] = slot[j] /\ pins'[j] = pins[j] /\ bytes'[j] = bytes[j]
        BY ZenonT(60), <1>0, <1>i, <1>u, <2>1, <2>2, <3>2
      <4> QED BY ZenonT(60), <4>1 DEF SlotOwned, Owned
    <3> QED BY ZenonT(60), <3>1, <3>2
  <2>14. ProducerPlaced'
    <3>1. Mine \in Slots /\ Mine' = Mine
      BY ZenonT(60), <1>u, MineInRing DEF Mine, slot_index_for_seq
    <3> QED BY ZenonT(60), <1>u, <2>12, <3>1 DEF ProducerPlaced, Owned
  <2>15. ASSUME NEW d \in Consumer PROVE ReaderPlaced(d)'
    <3>1. CASE d = c
      <4>1. cons'[c] = r /\ Wanted(c)' = i
        BY ZenonT(60), <1>0, <2>1, <2>10 DEF Wanted, slot_index_for_seq, i
      <4>2. <<c, h>> \in pins'[i]
        BY ZenonT(60), <1>0, <1>i, <2>2
      <4> QED BY ZenonT(60), <1>i, <2>8, <2>10, <2>12, <3>1, <4>1, <4>2 DEF ReaderPlaced
    <3>2. CASE d # c
      <4>1. cons'[d] = cons[d] /\ Wanted(d)' = Wanted(d) /\ Wanted(d) \in Slots
        BY ZenonT(60), <1>0, <2>1, <3>2, WantedInRing DEF Wanted
      <4> QED BY ZenonT(60), <2>12, <4>1 DEF ReaderPlaced, Owned
    <3> QED BY ZenonT(60), <3>1, <3>2
  <2> QED BY ZenonT(60), <2>11, <2>13, <2>14, <2>15 DEF Owned
<1> QED BY ZenonT(60), <1>1, <1>2

(* Releasing a pin, after a mismatch or with a Sample, preserves the invariant. *)
LEMMA UnpinPreserves ==
    ASSUME IInv, NEW c \in Consumer, UnpinMismatch(c) \/ DropSample(c)
    PROVE  IInv'
<1> USE DEF IInv
<1>0. /\ slot \in [Slots -> SlotRec] /\ cons \in [Consumer -> ConsRec]
      /\ pins \in [Slots -> SUBSET (Consumer \X Handle)]
  BY ZenonT(60), TypeSplit
<1>u. UNCHANGED <<bytes, hdr, entry, prod, proc>>
  BY ZenonT(60) DEF UnpinMismatch, DropSample
<1>1. PICK i \in Slots, h \in Handle :
        /\ Unpin(c, i, h)
        /\ cons[c].pc = "pinned" => i # Wanted(c)
  BY ZenonT(60), WantedInRing DEF UnpinMismatch, DropSample
<1>2. /\ <<c, h>> \in pins[i]
      /\ pins' = [pins EXCEPT ![i] = pins[i] \ {<<c, h>>}]
      /\ slot' = [slot EXCEPT ![i].refcount = slot[i].refcount - 1]
  BY ZenonT(60), <1>1 DEF Unpin
<1>3. /\ cons' \in [Consumer -> ConsRec]
      /\ \A d \in Consumer : /\ cons'[d].cursor = cons[d].cursor
                             /\ cons'[d].pc = "pinned" => cons[d].pc = "pinned"
  <2>1. CASE UnpinMismatch(c)
    <3>1. Go(c, "idle") \in ConsRec /\ Go(c, "idle").pc = "idle"
          /\ Go(c, "idle").cursor = cons[c].cursor
      BY ZenonT(60), <1>0 DEF Go, ConsRec, ConsPc
    <3> QED BY ZenonT(60), <1>0, <2>1, <3>1 DEF UnpinMismatch
  <2>2. CASE DropSample(c)
    BY ZenonT(60), <1>0, <2>2 DEF DropSample
  <2> QED BY ZenonT(60), <2>1, <2>2
<1>4. SlotOwned(i) /\ slot[i].state = "ready" /\ slot[i].refcount = Cardinality(pins[i])
  BY ZenonT(60), <1>2 DEF Owned, SlotOwned
<1>5. /\ Cardinality(pins[i] \ {<<c, h>>}) = Cardinality(pins[i]) - 1
      /\ Cardinality(pins[i]) - 1 \in Nat
  <2>1. IsFiniteSet(pins[i]) /\ IsFiniteSet(pins[i] \ {<<c, h>>})
    BY ZenonT(60), PinsFinite, FS_Subset
  <2>2. Cardinality(pins[i] \ {<<c, h>>}) = Cardinality(pins[i]) - 1
    BY ZenonT(60), <1>2, <2>1, FS_RemoveElement
  <2>3. Cardinality(pins[i] \ {<<c, h>>}) \in Nat
    BY ZenonT(60), <2>1, FS_CardinalityType
  <2> QED BY ZenonT(60), <2>2, <2>3
<1>6. TypeOK'
  <2>1. slot' \in [Slots -> SlotRec]
    BY ZenonT(60), <1>0, <1>2, <1>4, <1>5 DEF SlotRec
  <2>2. pins' \in [Slots -> SUBSET (Consumer \X Handle)]
    BY ZenonT(60), <1>0, <1>2
  <2> QED BY ZenonT(60), <1>u, <1>3, <2>1, <2>2, TypeSplit, TypeSplitPrimed
<1>7. ASSUME NEW j \in Slots
      PROVE  slot'[j].state = slot[j].state /\ slot'[j].seq = slot[j].seq
  BY ZenonT(60), <1>0, <1>2 DEF SlotRec
<1>8. ASSUME NEW j \in Slots PROVE SlotOwned(j)'
  <2>1. CASE j = i
    <3>1. slot'[i].refcount = Cardinality(pins[i]) - 1 /\ slot'[i].state = "ready"
          /\ slot'[i].seq = slot[i].seq
      BY ZenonT(60), <1>0, <1>2, <1>4 DEF SlotRec
    <3>2. pins'[i] = pins[i] \ {<<c, h>>}
      BY ZenonT(60), <1>0, <1>2
    <3>3. bytes'[i] = slot'[i].seq
      BY ZenonT(60), <1>u, <1>4, <3>1 DEF SlotOwned
    <3> QED BY ZenonT(60), <1>5, <2>1, <3>1, <3>2, <3>3 DEF SlotOwned
  <2>2. CASE j # i
    <3>1. slot'[j] = slot[j] /\ pins'[j] = pins[j] /\ bytes'[j] = bytes[j]
      BY ZenonT(60), <1>0, <1>u, <1>2, <2>2
    <3> QED BY ZenonT(60), <3>1 DEF SlotOwned, Owned
  <2> QED BY ZenonT(60), <2>1, <2>2
<1>9. ProducerPlaced'
  <2>1. Mine \in Slots /\ Mine' = Mine
    BY ZenonT(60), <1>u, MineInRing DEF Mine, slot_index_for_seq
  <2> QED BY ZenonT(60), <1>u, <1>7, <2>1 DEF ProducerPlaced, Owned
<1>10. ASSUME NEW d \in Consumer PROVE ReaderPlaced(d)'
  <2> SUFFICES ASSUME cons'[d].pc = "pinned"
               PROVE  /\ slot'[Wanted(d)'].seq = cons'[d].cursor
                      /\ \E g \in Handle : <<d, g>> \in pins'[Wanted(d)']
    BY ZenonT(60) DEF ReaderPlaced
  <2>1. cons[d].pc = "pinned" /\ Wanted(d)' = Wanted(d) /\ Wanted(d) \in Slots
        /\ cons'[d].cursor = cons[d].cursor
    BY ZenonT(60), <1>3, WantedInRing DEF Wanted
  <2>2. PICK g \in Handle : <<d, g>> \in pins[Wanted(d)]
    BY ZenonT(60), <2>1 DEF Owned, ReaderPlaced
  <2>3. slot[Wanted(d)].seq = cons[d].cursor
    BY ZenonT(60), <2>1 DEF Owned, ReaderPlaced
  <2>4. <<d, g>> \in pins'[Wanted(d)]
    <3>1. CASE Wanted(d) = i
      <4>1. d # c
        BY ZenonT(60), <1>1, <2>1, <3>1
      <4> QED BY ZenonT(60), <1>0, <1>2, <2>2, <3>1, <4>1
    <3>2. CASE Wanted(d) # i
      BY ZenonT(60), <1>0, <1>2, <2>1, <2>2, <3>2
    <3> QED BY ZenonT(60), <3>1, <3>2
  <2> QED BY ZenonT(60), <1>7, <2>1, <2>3, <2>4
<1> QED BY ZenonT(60), <1>6, <1>8, <1>9, <1>10 DEF Owned

-----------------------------------------------------------------------------
(* The producer may do what it likes to a slot nobody has pinned, as long   *)
(* as it leaves the gate closed or the slot published and uncounted.        *)
LEMMA ProducerWrites ==
    ASSUME IInv, NEW s \in SlotRec, NEW b \in 0 .. MaxSeq, pins[Mine] = {},
           slot' = [slot EXCEPT ![Mine] = s], bytes' = [bytes EXCEPT ![Mine] = b],
           \/ s.state # "ready" /\ s.refcount = SENTINEL
           \/ s.state = "ready" /\ s.refcount = 0 /\ b = s.seq,
           prod' \in ProdRec, ProducerPlaced', hdr' \in HdrRec,
           UNCHANGED <<entry, cons, pins, proc>>
    PROVE  IInv'
<1> USE DEF IInv
<1>0. /\ slot \in [Slots -> SlotRec] /\ bytes \in [Slots -> 0 .. MaxSeq] /\ Mine \in Slots
  BY ZenonT(60), TypeSplit, MineInRing
<1>1. TypeOK'
  <2>1. slot' \in [Slots -> SlotRec] /\ bytes' \in [Slots -> 0 .. MaxSeq]
    BY ZenonT(60), <1>0
  <2> QED BY ZenonT(60), <2>1, TypeSplit, TypeSplitPrimed
<1>2. ASSUME NEW i \in Slots PROVE SlotOwned(i)'
  <2>1. CASE i = Mine
    <3>1. slot'[i] = s /\ bytes'[i] = b /\ pins'[i] = {}
      BY ZenonT(60), <1>0, <2>1
    <3> QED BY ZenonT(60), <3>1, FS_EmptySet DEF SlotOwned
  <2>2. CASE i # Mine
    <3>1. slot'[i] = slot[i] /\ bytes'[i] = bytes[i] /\ pins'[i] = pins[i]
      BY ZenonT(60), <1>0, <2>2
    <3> QED BY ZenonT(60), <3>1 DEF SlotOwned, Owned
  <2> QED BY ZenonT(60), <2>1, <2>2
<1>3. ASSUME NEW c \in Consumer PROVE ReaderPlaced(c)'
  <2>1. Wanted(c)' = Wanted(c) /\ Wanted(c) \in Slots
    BY ZenonT(60), WantedInRing DEF Wanted
  <2>2. ReaderPlaced(c)
    BY ZenonT(60) DEF Owned
  <2>3. cons[c].pc = "pinned" => slot'[Wanted(c)] = slot[Wanted(c)]
    BY Zenon, <1>0, <2>1, <2>2 DEF ReaderPlaced
  <2> QED BY ZenonT(60), <2>1, <2>2, <2>3 DEF ReaderPlaced
<1> QED BY ZenonT(60), <1>1, <1>2, <1>3 DEF Owned

(* Steps that touch neither slots, nor payloads, nor pins, nor readers.     *)
LEMMA Bookkeeping ==
    ASSUME IInv, prod' \in ProdRec, ProducerPlaced', hdr' \in HdrRec,
           entry' \in [Entries -> EntryRec], proc' \in ProcType,
           UNCHANGED <<slot, bytes, cons, pins>>
    PROVE  IInv'
<1> USE DEF IInv
<1>1. TypeOK'
  BY ZenonT(60), TypeSplit, TypeSplitPrimed
<1>2. ASSUME NEW i \in Slots PROVE SlotOwned(i)'
  BY ZenonT(60) DEF SlotOwned, Owned
<1>3. ASSUME NEW c \in Consumer PROVE ReaderPlaced(c)'
  BY ZenonT(60) DEF ReaderPlaced, Owned, Wanted
<1> QED BY ZenonT(60), <1>1, <1>2, <1>3 DEF Owned

(* Where the producer is in try_allocate, its slot has no pins and the      *)
(* record it holds is typed.                                                *)
LEMMA ProdFacts ==
    ASSUME IInv
    PROVE  /\ prod \in ProdRec /\ hdr \in HdrRec /\ entry \in [Entries -> EntryRec]
           /\ proc \in ProcType /\ Mine \in Slots /\ slot[Mine] \in SlotRec
           /\ bytes[Mine] \in 0 .. MaxSeq /\ SlotOwned(Mine) /\ ProducerPlaced
           /\ prod.next_seq \in 1 .. MaxSeq + 1
<1>1. Mine \in Slots
  BY ZenonT(60), MineInRing DEF IInv
<1> QED BY ZenonT(60), <1>1, TypeSplit DEF IInv, Owned, ProdRec

(* The producer's list of active entries keeps its type.                    *)
LEMMA RefreshTyped ==
    ASSUME IInv, NEW v \in BOOLEAN, NEW t \in BOOLEAN, RefreshActive(v, t)
    PROVE  /\ prod' \in ProdRec /\ prod'.pc \in {"check", "scan"}
           /\ prod'.next_seq = prod.next_seq
<1> DEFINE k == v /\ prod.epoch = hdr.epoch
<1>1. prod' = [prod EXCEPT !.pc = IF k THEN "check" ELSE "scan",
                           !.active = IF k THEN prod.active ELSE {},
                           !.todo = IF k THEN prod.active ELSE Entries,
                           !.epoch = hdr.epoch, !.valid = TRUE, !.retried = t,
                           !.owed = {c \in Consumer : Attached(c)}]
  BY ZenonT(60) DEF RefreshActive
<1>2. prod \in ProdRec /\ hdr.epoch \in Nat
  BY ZenonT(60), ProdFacts DEF HdrRec
<1> HIDE DEF k
<1>3. CASE k
  BY ZenonT(60), <1>1, <1>2, <1>3 DEF ProdRec
<1>4. CASE ~k
  BY Zenon, <1>1, <1>2, <1>4 DEF ProdRec
<1> QED BY ZenonT(60), <1>3, <1>4

(* An allocation that fails leaves a well-typed producer.                   *)
LEMMA FailTyped ==
    ASSUME IInv, AcquireFails, prod.pc # "idle"
    PROVE  /\ prod' \in ProdRec /\ prod'.pc \in {"idle", "evict"}
           /\ prod'.next_seq = prod.next_seq
<1>1. prod \in ProdRec
  BY ZenonT(60), ProdFacts
<1> QED BY Zenon, <1>1 DEF AcquireFails, ProdRec

(* A producer that is scanning, checking, evicting or done works on no slot. *)
LEMMA Unplaced ==
    ASSUME prod'.pc \notin {"writing", "reclaim"}, prod'.next_seq \in 1 .. MaxSeq
    PROVE  ProducerPlaced'
BY RingAssumption DEF ProducerPlaced

(* The steps of try_allocate up to the gate.                                *)
LEMMA AllocatePreserves ==
    ASSUME IInv, AllocateBegins \/ ScanEntry \/ CheckCursor \/ EvictStaleConsumers
    PROVE  IInv'
<1>f. /\ prod \in ProdRec /\ hdr \in HdrRec /\ entry \in [Entries -> EntryRec]
      /\ proc \in ProcType /\ Mine \in Slots /\ slot[Mine] \in SlotRec
      /\ SlotOwned(Mine) /\ ProducerPlaced /\ prod.next_seq \in 1 .. MaxSeq + 1
  BY ZenonT(60), ProdFacts
<1>n. prod.next_seq \in 1 .. MaxSeq
  <2>1. AllocateBegins => prod.next_seq <= MaxSeq
    BY ZenonT(60) DEF AllocateBegins
  <2>2. ScanEntry \/ CheckCursor \/ EvictStaleConsumers => prod.pc # "idle"
    BY Zenon DEF ScanEntry, CheckCursor, EvictStaleConsumers
  <2> QED BY <1>f, <2>1, <2>2, RingAssumption DEF ProducerPlaced
<1>1. CASE AllocateBegins
  <2>1. CASE slot[Mine].state = "free" /\ BeginWrite(slot[Mine])
             /\ prod' = [prod EXCEPT !.pc = "writing"]
    <3> DEFINE s == [slot[Mine] EXCEPT !.state = "writing"]
    <3>1. /\ s \in SlotRec /\ s.state = "writing" /\ s.refcount = SENTINEL
          /\ pins[Mine] = {}
      BY ZenonT(60), <1>f, <2>1 DEF SlotRec, SlotOwned
    <3>2. slot' = [slot EXCEPT ![Mine] = s] /\ bytes' = [bytes EXCEPT ![Mine] = 0]
      BY ZenonT(60), <2>1 DEF BeginWrite
    <3>3. prod' \in ProdRec /\ prod'.pc = "writing" /\ prod'.next_seq = prod.next_seq
      BY ZenonT(60), <1>f, <2>1 DEF ProdRec
    <3>4. ProducerPlaced'
      <4>1. Mine' = Mine
        BY ZenonT(60), <3>3 DEF Mine
      <4>2. slot'[Mine].state = "writing"
        BY ZenonT(60), <1>f, <3>1, <3>2, TypeSplit DEF IInv
      <4> QED BY <1>n, <3>3, <4>1, <4>2 DEF ProducerPlaced
    <3>5. 0 \in 0 .. MaxSeq /\ UNCHANGED <<hdr, entry, cons, pins, proc>>
      BY <1>1, RingAssumption DEF AllocateBegins
    <3> HIDE DEF s
    <3> QED BY Zenon, <1>f, <3>1, <3>2, <3>3, <3>4, <3>5, ProducerWrites
  <2>2. CASE RefreshActive(prod.valid, FALSE) /\ UNCHANGED <<slot, bytes>>
    <3>1. prod.valid \in BOOLEAN /\ FALSE \in BOOLEAN
      BY ZenonT(60), <1>f DEF ProdRec
    <3>2. /\ prod' \in ProdRec /\ prod'.pc \in {"check", "scan"}
          /\ prod'.next_seq = prod.next_seq
      BY ZenonT(60), <2>2, <3>1, RefreshTyped
    <3>3. ProducerPlaced'
      BY ZenonT(60), <1>n, <3>2, Unplaced
    <3>4. UNCHANGED <<hdr, entry, cons, pins, proc>>
      BY ZenonT(60), <1>1 DEF AllocateBegins
    <3> QED BY ZenonT(60), <1>f, <2>2, <3>2, <3>3, <3>4, Bookkeeping
  <2> QED BY Zenon, <1>1, <2>1, <2>2 DEF AllocateBegins
<1>2. CASE ScanEntry
  <2>1. UNCHANGED <<slot, bytes, hdr, entry, cons, pins, proc>>
    BY Zenon, <1>2 DEF ScanEntry
  <2>2. PICK e \in prod.todo :
          LET active == IF is_occupied(e) THEN prod.active \cup {e} ELSE prod.active
              rest   == prod.todo \ {e}
          IN  prod' = [prod EXCEPT !.active = active,
                                   !.pc = IF rest = {} THEN "check" ELSE "scan",
                                   !.todo = IF rest = {} THEN active ELSE rest]
    BY Zenon, <1>2 DEF ScanEntry
  <2> DEFINE active == IF is_occupied(e) THEN prod.active \cup {e} ELSE prod.active
             rest   == prod.todo \ {e}
             p == IF rest = {} THEN "check" ELSE "scan"
             t == IF rest = {} THEN active ELSE rest
  <2>3. active \in SUBSET Entries /\ rest \in SUBSET Entries
    BY ZenonT(60), <1>f, <2>2 DEF ProdRec
  <2>4. p \in {"check", "scan"} /\ t \in SUBSET Entries
    BY ZenonT(60), <2>3
  <2>5. prod' = [prod EXCEPT !.active = active, !.pc = p, !.todo = t]
    BY ZenonT(60), <2>2
  <2> HIDE DEF active, rest, p, t
  <2>6. /\ prod' \in ProdRec /\ prod'.pc \in {"check", "scan"}
        /\ prod'.next_seq = prod.next_seq
    BY Zenon, <1>f, <2>3, <2>4, <2>5 DEF ProdRec
  <2>7. ProducerPlaced'
    BY ZenonT(60), <1>n, <2>6, Unplaced
  <2> QED BY ZenonT(60), <1>f, <2>1, <2>6, <2>7, Bookkeeping
<1>3. CASE CheckCursor
  <2>1. UNCHANGED <<slot, bytes, hdr, entry, cons, pins, proc>> /\ prod.pc = "check"
    BY ZenonT(60), <1>3 DEF CheckCursor
  <2>2. PICK e \in prod.todo : \/ prod' = [prod EXCEPT !.todo = prod.todo \ {e}]
                               \/ prod' = [prod EXCEPT !.todo = {}]
                               \/ AcquireFails
    BY ZenonT(60), <1>3 DEF CheckCursor
  <2>3. /\ prod' \in ProdRec /\ prod'.pc \in {"check", "idle", "evict"}
        /\ prod'.next_seq = prod.next_seq
    <3>1. CASE AcquireFails
      BY ZenonT(60), <2>1, <3>1, FailTyped
    <3>2. CASE ~AcquireFails
      BY ZenonT(60), <1>f, <2>1, <2>2, <3>2 DEF ProdRec
    <3> QED BY ZenonT(60), <3>1, <3>2
  <2>4. ProducerPlaced'
    BY ZenonT(60), <1>n, <2>3, Unplaced
  <2> QED BY ZenonT(60), <1>f, <2>1, <2>3, <2>4, Bookkeeping
<1>4. CASE EvictStaleConsumers
  <2>1. UNCHANGED <<slot, bytes, hdr, cons, pins, proc>> /\ prod.pc = "evict"
    BY ZenonT(60), <1>4 DEF EvictStaleConsumers
  <2>2. entry' = Evict({e \in Entries : Evictable(e)})
    BY ZenonT(60), <1>4 DEF EvictStaleConsumers
  <2>3. entry' \in [Entries -> EntryRec]
    BY <1>f, <2>2, RingAssumption DEF Evict, EntryRec
  <2>4. prod' = [prod EXCEPT !.pc = "idle"] \/ RefreshActive(FALSE, TRUE)
    BY Zenon, <1>4 DEF EvictStaleConsumers
  <2>5. /\ prod' \in ProdRec /\ prod'.pc \in {"check", "scan", "idle"}
        /\ prod'.next_seq = prod.next_seq
    <3>1. CASE prod' = [prod EXCEPT !.pc = "idle"]
      BY ZenonT(60), <1>f, <3>1 DEF ProdRec
    <3>2. CASE RefreshActive(FALSE, TRUE)
      BY Zenon, <3>2, RefreshTyped
    <3> QED BY Zenon, <2>4, <3>1, <3>2
  <2>6. ProducerPlaced'
    BY ZenonT(60), <1>n, <2>5, Unplaced
  <2> QED BY ZenonT(60), <1>f, <2>1, <2>3, <2>5, <2>6, Bookkeeping
<1> QED BY ZenonT(60), <1>1, <1>2, <1>3, <1>4

(* Closing the gate, filling the slot, opening the gate, and close().       *)
LEMMA CommitPreserves ==
    ASSUME IInv, TryCloseGate \/ Reclaim \/ CommitSlot \/ PublishSeq \/ Abort \/ Close
    PROVE  IInv'
<1>f. /\ prod \in ProdRec /\ hdr \in HdrRec /\ entry \in [Entries -> EntryRec]
      /\ proc \in ProcType /\ Mine \in Slots /\ slot[Mine] \in SlotRec
      /\ bytes[Mine] \in 0 .. MaxSeq /\ SlotOwned(Mine) /\ ProducerPlaced
      /\ prod.next_seq \in 1 .. MaxSeq + 1
  BY ZenonT(60), ProdFacts
<1>s. slot \in [Slots -> SlotRec] /\ bytes \in [Slots -> 0 .. MaxSeq]
  BY ZenonT(60), TypeSplit DEF IInv
<1>n. prod.pc # "idle" => prod.next_seq \in 1 .. MaxSeq
  BY <1>f, RingAssumption DEF ProducerPlaced
<1>1. CASE TryCloseGate
  <2>0. prod.pc = "check" /\ UNCHANGED <<bytes, hdr, entry, cons, pins, proc>>
    BY ZenonT(60), <1>1 DEF TryCloseGate
  <2>1. CASE slot[Mine].refcount = 0
    <3> DEFINE s == [slot[Mine] EXCEPT !.refcount = SENTINEL, !.state = "free"]
    <3>1. /\ slot' = [slot EXCEPT ![Mine] = s]
          /\ prod' = [prod EXCEPT !.pc = "reclaim", !.retried = FALSE, !.owed = {}]
      BY Zenon, <1>1, <1>s, <1>f, <2>1 DEF TryCloseGate
    <3>2. s \in SlotRec /\ s.state = "free" /\ s.refcount = SENTINEL
      BY Zenon, <1>f DEF SlotRec
    <3>3. pins[Mine] = {}
      <4>1. slot[Mine].state = "ready" /\ Cardinality(pins[Mine]) = 0
        BY <1>f, <2>1 DEF SlotOwned, SENTINEL
      <4>2. IsFiniteSet(pins[Mine])
        BY ZenonT(60), <1>f, PinsFinite DEF IInv
      <4> QED BY ZenonT(60), <4>1, <4>2, FS_EmptySet
    <3>4. prod' \in ProdRec /\ prod'.pc = "reclaim" /\ prod'.next_seq = prod.next_seq
      BY Zenon, <1>f, <3>1 DEF ProdRec
    <3>5. ProducerPlaced'
      <4>1. Mine' = Mine /\ slot'[Mine].state = "free"
        BY ZenonT(60), <1>f, <1>s, <3>1, <3>2, <3>4 DEF Mine
      <4> QED BY <1>n, <2>0, <3>4, <4>1 DEF ProducerPlaced
    <3>6. bytes' = [bytes EXCEPT ![Mine] = bytes[Mine]]
      BY ZenonT(60), <1>s, <2>0
    <3> HIDE DEF s
    <3> QED BY Zenon, <1>f, <2>0, <3>1, <3>2, <3>3, <3>4, <3>5, <3>6, ProducerWrites
  <2>2. CASE slot[Mine].refcount # 0
    <3>1. AcquireFails /\ UNCHANGED slot
      BY ZenonT(60), <1>1, <2>2 DEF TryCloseGate
    <3>2. /\ prod' \in ProdRec /\ prod'.pc \in {"idle", "evict"}
          /\ prod'.next_seq = prod.next_seq
      BY ZenonT(60), <2>0, <3>1, FailTyped
    <3>3. ProducerPlaced'
      BY ZenonT(60), <1>n, <2>0, <3>2, Unplaced
    <3> QED BY ZenonT(60), <1>f, <2>0, <3>1, <3>2, <3>3, Bookkeeping
  <2> QED BY ZenonT(60), <2>1, <2>2
<1>2. CASE Reclaim
  <2> DEFINE s == [slot[Mine] EXCEPT !.state = "writing"]
  <2>1. /\ slot' = [slot EXCEPT ![Mine] = s] /\ bytes' = [bytes EXCEPT ![Mine] = 0]
        /\ prod' = [prod EXCEPT !.pc = "writing"] /\ prod.pc = "reclaim"
        /\ hdr' = [hdr EXCEPT !.reclaimed_seq = Later(hdr.reclaimed_seq, slot[Mine].seq)]
        /\ UNCHANGED <<entry, cons, pins, proc>>
    BY ZenonT(60), <1>2 DEF Reclaim, BeginWrite
  <2>2. s \in SlotRec /\ s.state = "writing" /\ s.refcount = SENTINEL /\ pins[Mine] = {}
    BY ZenonT(60), <1>f, <2>1 DEF SlotRec, SlotOwned, ProducerPlaced
  <2>3. Later(hdr.reclaimed_seq, slot[Mine].seq) \in 0 .. MaxSeq
    BY ZenonT(60), <1>f DEF Later, HdrRec, SlotRec
  <2>4. hdr' \in HdrRec
    BY ZenonT(60), <1>f, <2>1, <2>3 DEF HdrRec
  <2>5. prod' \in ProdRec /\ prod'.pc = "writing" /\ prod'.next_seq = prod.next_seq
    BY ZenonT(60), <1>f, <2>1 DEF ProdRec
  <2>6. ProducerPlaced'
    <3>1. Mine' = Mine /\ slot'[Mine].state = "writing"
      BY ZenonT(60), <1>f, <1>s, <2>1, <2>2, <2>5 DEF Mine
    <3> QED BY <1>n, <2>1, <2>5, <3>1 DEF ProducerPlaced
  <2>7. 0 \in 0 .. MaxSeq
    BY RingAssumption
  <2> HIDE DEF s
  <2> QED BY Zenon, <2>1, <2>2, <2>4, <2>5, <2>6, <2>7, ProducerWrites
<1>3. CASE CommitSlot
  <2> DEFINE s == [state |-> "ready", seq |-> prod.next_seq,
                   refcount |-> 0, mark |-> hdr.reclaimed_seq]
  <2>1. /\ slot' = [slot EXCEPT ![Mine] = s]
        /\ bytes' = [bytes EXCEPT ![Mine] = prod.next_seq]
        /\ prod' = [prod EXCEPT !.pc = "publish"] /\ prod.pc = "writing"
        /\ UNCHANGED <<hdr, entry, cons, pins, proc>>
    BY ZenonT(60), <1>3 DEF CommitSlot
  <2>2. prod.next_seq \in 0 .. MaxSeq /\ hdr.reclaimed_seq \in 0 .. MaxSeq
    BY <1>f, <1>n, <2>1 DEF HdrRec
  <2>3. s \in SlotRec /\ s.state = "ready" /\ s.refcount = 0 /\ s.seq = prod.next_seq
    BY ZenonT(60), <2>2 DEF SlotRec
  <2>4. pins[Mine] = {}
    BY ZenonT(60), <1>f, <2>1 DEF SlotOwned, ProducerPlaced
  <2>5. prod' \in ProdRec /\ prod'.pc = "publish" /\ prod'.next_seq = prod.next_seq
    BY ZenonT(60), <1>f, <2>1 DEF ProdRec
  <2>6. ProducerPlaced'
    BY ZenonT(60), <1>n, <2>1, <2>5, Unplaced
  <2> HIDE DEF s
  <2> QED BY Zenon, <1>f, <2>1, <2>2, <2>3, <2>4, <2>5, <2>6, ProducerWrites
<1>4. CASE PublishSeq
  <2>1. /\ hdr' = [hdr EXCEPT !.write_seq = prod.next_seq, !.mark = hdr.reclaimed_seq]
        /\ prod' = [prod EXCEPT !.pc = "idle", !.next_seq = prod.next_seq + 1]
        /\ prod.pc = "publish" /\ UNCHANGED <<slot, bytes, entry, cons, pins, proc>>
    BY ZenonT(60), <1>4 DEF PublishSeq
  <2>2. prod.next_seq \in 0 .. MaxSeq /\ prod.next_seq + 1 \in 1 .. MaxSeq + 1
    BY <1>n, <2>1, RingAssumption
  <2>3. hdr' \in HdrRec
    BY Zenon, <1>f, <2>1, <2>2 DEF HdrRec
  <2>4. prod' \in ProdRec /\ prod'.pc = "idle"
    BY Zenon, <1>f, <2>1, <2>2 DEF ProdRec
  <2>5. ProducerPlaced'
    BY ZenonT(60), <2>4 DEF ProducerPlaced
  <2> QED BY ZenonT(60), <1>f, <2>1, <2>3, <2>4, <2>5, Bookkeeping
<1>5. CASE Abort
  <2> DEFINE s == [slot[Mine] EXCEPT !.state = "free"]
  <2>1. /\ slot' = [slot EXCEPT ![Mine] = s] /\ prod.pc = "writing"
        /\ prod' = [prod EXCEPT !.pc = "idle"] /\ UNCHANGED <<bytes, hdr, entry, cons, pins, proc>>
    BY ZenonT(60), <1>5, <1>s, <1>f DEF Abort
  <2>2. s \in SlotRec /\ s.state = "free" /\ s.refcount = SENTINEL /\ pins[Mine] = {}
    BY ZenonT(60), <1>f, <2>1 DEF SlotRec, SlotOwned, ProducerPlaced
  <2>3. prod' \in ProdRec /\ prod'.pc = "idle"
    BY ZenonT(60), <1>f, <2>1 DEF ProdRec
  <2>4. ProducerPlaced'
    BY ZenonT(60), <2>3 DEF ProducerPlaced
  <2>5. bytes' = [bytes EXCEPT ![Mine] = bytes[Mine]]
    BY ZenonT(60), <1>s, <2>1
  <2> HIDE DEF s
  <2> QED BY Zenon, <1>f, <2>1, <2>2, <2>3, <2>4, <2>5, ProducerWrites
<1>6. CASE Close
  <2>1. hdr' \in HdrRec /\ UNCHANGED <<slot, bytes, entry, prod, cons, pins, proc>>
    BY Zenon, <1>f, <1>6 DEF Close, HdrRec
  <2>2. ProducerPlaced'
    BY ZenonT(60), <1>f, <2>1 DEF ProducerPlaced, Mine
  <2> QED BY ZenonT(60), <1>f, <2>1, <2>2, Bookkeeping
<1> QED BY ZenonT(60), <1>1, <1>2, <1>3, <1>4, <1>5, <1>6

(* Detaching, dying, growing stale, and the broker's two scans.             *)
LEMMA SurroundingsPreserve ==
    ASSUME IInv,
           \/ \E c \in Consumer : Release(c) \/ HeartbeatExpires(c)
           \/ \E p \in Killable : Kill(p)
           \/ PollProducers \/ BrokerEvicts
    PROVE  IInv'
<1>f. /\ prod \in ProdRec /\ hdr \in HdrRec /\ entry \in [Entries -> EntryRec]
      /\ proc \in ProcType /\ ProducerPlaced
  BY ZenonT(60), ProdFacts
<1>c. cons \in [Consumer -> ConsRec]
  BY ZenonT(60), TypeSplit DEF IInv
<1>p. ASSUME UNCHANGED <<prod, slot>> PROVE ProducerPlaced'
  BY ZenonT(60), <1>f, <1>p DEF ProducerPlaced, Mine
<1>1. ASSUME NEW c \in Consumer, Release(c) PROVE IInv'
  <2> DEFINE r == Go(c, "leaving")
  <2>1. r \in ConsRec /\ r.pc = "leaving" /\ cons[c].entry \in Entries
    BY ZenonT(60), <1>c DEF Go, ConsRec, ConsPc
  <2>2. /\ cons' = [cons EXCEPT ![c] = r] /\ UNCHANGED <<slot, bytes, hdr, pins, proc>>
        /\ prod' = [prod EXCEPT !.owed = prod.owed \ {c}]
        /\ entry' = [entry EXCEPT ![cons[c].entry] =
                       [state |-> "empty", cursor |-> 0, owner |-> Nobody]]
    BY ZenonT(60), <1>1 DEF Release
  <2>3. entry' \in [Entries -> EntryRec]
    BY <1>f, <2>1, <2>2, RingAssumption DEF EntryRec
  <2>4. prod' \in ProdRec /\ prod'.pc = prod.pc /\ prod'.next_seq = prod.next_seq
    BY ZenonT(60), <1>f, <2>2 DEF ProdRec
  <2> HIDE DEF r
  <2> QED BY Zenon, <1>f, <2>1, <2>2, <2>3, <2>4, LocalStep
<1>2. ASSUME NEW c \in Consumer, HeartbeatExpires(c) PROVE IInv'
  <2>1. proc' \in ProcType /\ UNCHANGED <<slot, bytes, hdr, entry, prod, cons, pins>>
    BY ZenonT(60), <1>2, <1>f DEF HeartbeatExpires, ProcType
  <2> QED BY ZenonT(60), <1>f, <1>p, <2>1, Bookkeeping
<1>3. ASSUME NEW p \in Killable, Kill(p) PROVE IInv'
  <2>1. /\ proc' = [proc EXCEPT ![p] = "dead"] /\ UNCHANGED <<slot, bytes, hdr, entry, pins>>
        /\ prod' = [prod EXCEPT !.owed = prod.owed \ {p}]
        /\ cons' = [c \in Consumer |-> IF c = p THEN NotAttached ELSE cons[c]]
    BY ZenonT(60), <1>3 DEF Kill
  <2>2. proc' \in ProcType
    BY ZenonT(60), <1>f, <2>1, RingAssumption DEF ProcType
  <2>3. prod' \in ProdRec /\ prod'.pc = prod.pc /\ prod'.next_seq = prod.next_seq
    BY ZenonT(60), <1>f, <2>1 DEF ProdRec
  <2>4. NotAttached \in ConsRec /\ NotAttached.pc = "detached"
    BY RingAssumption DEF NotAttached, ConsRec, ConsPc, AttachPc, Entries
  <2>5. cons' \in [Consumer -> ConsRec]
    BY ZenonT(60), <1>c, <2>1, <2>4
  <2>6. TypeOK'
    BY ZenonT(60), <2>1, <2>2, <2>3, <2>5, TypeSplit, TypeSplitPrimed DEF IInv
  <2>7. ASSUME NEW i \in Slots PROVE SlotOwned(i)'
    BY ZenonT(60), <2>1 DEF SlotOwned, IInv, Owned
  <2>8. ProducerPlaced'
    BY ZenonT(60), <1>f, <2>1, <2>3 DEF ProducerPlaced, Mine
  <2>9. ASSUME NEW c \in Consumer PROVE ReaderPlaced(c)'
    BY ZenonT(60), <2>1, <2>4 DEF ReaderPlaced, IInv, Owned, Wanted
  <2> QED BY ZenonT(60), <2>6, <2>7, <2>8, <2>9 DEF IInv, Owned
<1>4. CASE PollProducers
  <2>1. hdr' \in HdrRec /\ UNCHANGED <<slot, bytes, entry, prod, cons, pins, proc>>
    BY Zenon, <1>4, <1>f DEF PollProducers, HdrRec
  <2> QED BY ZenonT(60), <1>f, <1>p, <2>1, Bookkeeping
<1>5. CASE BrokerEvicts
  <2>1. UNCHANGED <<slot, bytes, hdr, prod, cons, pins, proc>>
    BY ZenonT(60), <1>5 DEF BrokerEvicts
  <2>2. entry' \in [Entries -> EntryRec]
    BY <1>5, <1>f, RingAssumption DEF BrokerEvicts, Evict, EntryRec
  <2> QED BY ZenonT(60), <1>f, <1>p, <2>1, <2>2, Bookkeeping
<1> QED BY ZenonT(60), <1>1, <1>2, <1>3, <1>4, <1>5

(* Every step preserves the invariant.                                      *)
LEMMA NextIInv == IInv /\ [Next]_vars => IInv'
<1> SUFFICES ASSUME IInv, [Next]_vars PROVE IInv'
  BY ZenonT(60)
<1>1. CASE ProducerStep \/ Abort \/ Close
  BY ZenonT(60), <1>1, AllocatePreserves, CommitPreserves DEF ProducerStep
<1>2. ASSUME NEW c \in Consumer,
             \/ AttachBegins(c) \/ AttachStep(c) \/ ReceiveStep(c)
             \/ DropSample(c) \/ FindQuiet(c) \/ Seek(c)
             \/ Release(c) \/ Detached(c) \/ HeartbeatExpires(c) \/ WatermarkVisible(c)
      PROVE  IInv'
  BY ZenonT(60), <1>2, AttachPreserves, LookPreserves, PinPreserves, UnpinPreserves, SurroundingsPreserve
     DEF ReceiveStep
<1>3. CASE (\E p \in Killable : Kill(p)) \/ PollProducers \/ BrokerEvicts
  BY ZenonT(60), <1>3, SurroundingsPreserve
<1>4. CASE UNCHANGED vars
  <2>1. TypeOK'
    BY ZenonT(60), <1>4 DEF vars, IInv, TypeOK
  <2>2. Owned'
    BY ZenonT(60), <1>4 DEF vars, IInv, Owned, SlotOwned, ProducerPlaced, ReaderPlaced, Mine, Wanted
  <2> QED BY ZenonT(60), <2>1, <2>2 DEF IInv
<1> QED BY ZenonT(60), <1>1, <1>2, <1>3, <1>4 DEF Next

(* The slot protocol's invariant, for every geometry and policy.            *)
THEOREM Inductive == Spec => []IInv
<1>1. Init => IInv
  BY ZenonT(60), InitIInv
<1>2. IInv /\ [Next]_vars => IInv'
  BY ZenonT(60), NextIInv
<1> QED BY <1>1, <1>2, PTL DEF Spec

(* Every word of the segment and every local of its users keeps its type.   *)
THEOREM TypeCorrect == Spec => []TypeOK
<1>1. IInv => TypeOK
  BY ZenonT(60) DEF IInv
<1> QED BY <1>1, Inductive, PTL

(* Zero-copy soundness: whatever producers, readers and kill -9 do, a       *)
(* pinned slot is READY, exactly counted, and holds the message it names.   *)
THEOREM ZeroCopySound == Spec => []PinnedIsIntact
<1>1. IInv => PinnedIsIntact
  <2> SUFFICES ASSUME IInv PROVE PinnedIsIntact
    BY ZenonT(60)
  <2>1. ASSUME NEW i \in Slots
        PROVE  /\ pins[i] # {} => slot[i].state = "ready" /\ bytes[i] = slot[i].seq
               /\ slot[i].refcount = IF slot[i].state = "ready" THEN Cardinality(pins[i])
                                                                ELSE SENTINEL
    BY ZenonT(60) DEF IInv, Owned, SlotOwned
  <2>2. ASSUME NEW c \in Consumer, cons[c].pc = "pinned"
        PROVE  /\ bytes[Wanted(c)] = cons[c].cursor
               /\ \E h \in Handle : <<c, h>> \in pins[Wanted(c)]
    <3>1. Wanted(c) \in Slots
      BY ZenonT(60), WantedInRing DEF IInv
    <3>2. /\ slot[Wanted(c)].seq = cons[c].cursor
          /\ \E h \in Handle : <<c, h>> \in pins[Wanted(c)]
      BY ZenonT(60), <2>2 DEF IInv, Owned, ReaderPlaced
    <3> QED BY ZenonT(60), <2>1, <3>1, <3>2
  <2> QED BY ZenonT(60), <2>1, <2>2 DEF PinnedIsIntact
<1> QED BY <1>1, Inductive, PTL

-----------------------------------------------------------------------------
(* The resident window.  What carries it: the producer's next sequence is   *)
(* one past write_seq, and the message between commit and publish_seq sits   *)
(* READY in its slot.                                                        *)
Window ==
    /\ hdr.write_seq = prod.next_seq - 1
    /\ prod.pc = "publish" => slot[Mine].seq = prod.next_seq /\ slot[Mine].state = "ready"
    /\ ResidentWindow

(* A slot never holds an older message than the last one published to it,    *)
(* and the mark its release carries covers every message it held before.     *)
Latest ==
    /\ \A s \in 1 .. hdr.write_seq : slot[slot_index_for_seq(s)].seq >= s
    /\ \A i \in Slots : slot[i].state = "ready" =>
          \A s \in 1 .. slot[i].seq - 1 : slot_index_for_seq(s) = i => s <= slot[i].mark

(* A reader about to pin has seen its message published.                     *)
ReaderInformed(c) ==
    /\ cons[c].pc = "pin" => cons[c].cursor <= hdr.write_seq
    /\ cons[c].pc = "mispinned" => cons[c].cursor <= cons[c].view

WInv == Window /\ Latest /\ \A c \in Consumer : ReaderInformed(c)

(* The numbers a step of the window is about.                               *)
LEMMA Numbers ==
    ASSUME IInv
    PROVE  /\ hdr.write_seq \in Nat /\ hdr.reclaimed_seq \in Nat /\ prod.next_seq \in Nat \ {0}
           /\ Mine \in Slots /\ slot \in [Slots -> SlotRec]
           /\ \A i \in Slots : slot[i].seq \in Nat /\ slot[i].mark \in Nat
           /\ \A s \in Nat \ {0} : slot_index_for_seq(s) \in Slots
<1>1. /\ slot \in [Slots -> SlotRec] /\ hdr \in HdrRec /\ prod \in ProdRec
  BY ZenonT(60), TypeSplit DEF IInv
<1>2. Mine \in Slots
  BY ZenonT(60), MineInRing DEF IInv
<1> QED BY <1>1, <1>2, IndexInRing, RingAssumption DEF SlotRec, HdrRec, ProdRec

(* Steps that leave the facts of the slots and the watermarks alone.        *)
LEMMA WindowSame ==
    ASSUME IInv, Window, Latest,
           \A i \in Slots : /\ slot'[i].seq = slot[i].seq /\ slot'[i].state = slot[i].state
                            /\ slot'[i].mark = slot[i].mark,
           hdr'.write_seq = hdr.write_seq, hdr'.reclaimed_seq = hdr.reclaimed_seq,
           prod'.next_seq = prod.next_seq,
           prod'.pc # "publish" \/ prod.pc = "publish",
           prod'.pc = "reclaim" \/ prod.pc # "reclaim"
    PROVE  Window' /\ Latest'
<1>1. /\ hdr.write_seq \in Nat /\ hdr.reclaimed_seq \in Nat /\ Mine \in Slots /\ Mine' = Mine
      /\ \A s \in Nat \ {0} : slot_index_for_seq(s) \in Slots
  BY ZenonT(60), Numbers DEF Mine
<1>2. ResidentWindow'
  <2> SUFFICES ASSUME NEW s \in hdr.reclaimed_seq + 1 .. hdr.write_seq
               PROVE  /\ slot'[slot_index_for_seq(s)].seq = s
                      /\ \/ slot'[slot_index_for_seq(s)].state = "ready"
                         \/ prod'.pc = "reclaim" /\ slot_index_for_seq(s) = Mine
    BY ZenonT(60), <1>1 DEF ResidentWindow
  <2>1. slot_index_for_seq(s) \in Slots
    BY <1>1
  <2> QED BY ZenonT(60), <2>1 DEF Window, ResidentWindow
<1>3. Window'
  BY ZenonT(60), <1>1, <1>2 DEF Window
<1>4. Latest'
  <2>1. ASSUME NEW s \in 1 .. hdr.write_seq PROVE slot'[slot_index_for_seq(s)].seq >= s
    <3>1. slot_index_for_seq(s) \in Slots
      BY <1>1
    <3> QED BY ZenonT(60), <3>1 DEF Latest
  <2> QED BY ZenonT(60), <2>1 DEF Latest
<1> QED BY ZenonT(60), <1>3, <1>4

(* The producer's steps that touch its slot.                                *)
LEMMA WindowWritten ==
    ASSUME IInv, Window, Latest,
           \/ AllocateBegins \/ TryCloseGate \/ Reclaim \/ CommitSlot \/ PublishSeq \/ Abort
    PROVE  Window' /\ Latest'
<1>1. /\ hdr.write_seq \in Nat /\ hdr.reclaimed_seq \in Nat /\ prod.next_seq \in Nat \ {0}
      /\ Mine \in Slots /\ slot \in [Slots -> SlotRec]
      /\ \A i \in Slots : slot[i].seq \in Nat /\ slot[i].mark \in Nat
      /\ \A s \in Nat \ {0} : slot_index_for_seq(s) \in Slots
  BY ZenonT(60), Numbers
<1>2. prod \in ProdRec /\ hdr \in HdrRec /\ ProducerPlaced
  BY ZenonT(60), ProdFacts
<1>w. /\ hdr.write_seq = prod.next_seq - 1
      /\ \A s \in hdr.reclaimed_seq + 1 .. hdr.write_seq :
            /\ slot[slot_index_for_seq(s)].seq = s
            /\ \/ slot[slot_index_for_seq(s)].state = "ready"
               \/ prod.pc = "reclaim" /\ slot_index_for_seq(s) = Mine
      /\ \A s \in 1 .. hdr.write_seq : slot[slot_index_for_seq(s)].seq >= s
      /\ \A i \in Slots : slot[i].state = "ready" =>
            \A s \in 1 .. slot[i].seq - 1 : slot_index_for_seq(s) = i => s <= slot[i].mark
  BY ZenonT(60) DEF Window, ResidentWindow, Latest
(* The window moves up, and no longer over the slot that is written.        *)
<1>3. ASSUME NEW r \in Nat, hdr.reclaimed_seq <= r, hdr'.reclaimed_seq = r,
             hdr'.write_seq = hdr.write_seq, prod'.next_seq = prod.next_seq,
             prod'.pc # "publish",
             NEW t, slot' = [slot EXCEPT ![Mine] = t], t.seq = slot[Mine].seq, t.mark = slot[Mine].mark,
             t.state # "ready",
             \/ prod'.pc = "reclaim" /\ prod.pc # "reclaim"
             \/ \A s \in r + 1 .. hdr.write_seq : slot_index_for_seq(s) # Mine
      PROVE  Window' /\ Latest'
  <2>1. Mine' = Mine /\ slot'[Mine] = t /\ \A i \in Slots : i # Mine => slot'[i] = slot[i]
    BY ZenonT(60), <1>1, <1>3 DEF Mine
  <2>2. ASSUME NEW s \in r + 1 .. hdr.write_seq
        PROVE  /\ slot'[slot_index_for_seq(s)].seq = s
               /\ \/ slot'[slot_index_for_seq(s)].state = "ready"
                  \/ prod'.pc = "reclaim" /\ slot_index_for_seq(s) = Mine
    <3>1. s \in hdr.reclaimed_seq + 1 .. hdr.write_seq /\ slot_index_for_seq(s) \in Slots
      BY <1>1, <1>3
    <3> QED BY ZenonT(60), <1>3, <1>w, <2>1, <3>1
  <2>3. ResidentWindow'
    BY ZenonT(60), <1>3, <2>1, <2>2 DEF ResidentWindow
  <2>4. ASSUME NEW s \in 1 .. hdr.write_seq PROVE slot'[slot_index_for_seq(s)].seq >= s
    <3>1. slot_index_for_seq(s) \in Slots
      BY <1>1
    <3> QED BY <1>3, <1>w, <2>1, <3>1
  <2>5. ASSUME NEW i \in Slots, slot'[i].state = "ready", NEW s \in 1 .. slot'[i].seq - 1,
               slot_index_for_seq(s) = i
        PROVE  s <= slot'[i].mark
    BY <1>3, <1>w, <2>1, <2>5
  <2> QED BY ZenonT(60), <1>3, <1>w, <2>3, <2>4, <2>5 DEF Window, Latest
<1>4. ASSUME prod.pc # "reclaim", slot[Mine].state # "ready",
             NEW s \in hdr.reclaimed_seq + 1 .. hdr.write_seq
      PROVE  slot_index_for_seq(s) # Mine
  BY ZenonT(60), <1>w, <1>4
<1>5. CASE AllocateBegins
  <2>1. hdr' = hdr /\ prod.pc = "idle"
    BY ZenonT(60), <1>5 DEF AllocateBegins
  <2>2. CASE slot[Mine].state = "free" /\ BeginWrite(slot[Mine]) /\ prod' = [prod EXCEPT !.pc = "writing"]
    <3> DEFINE t == [slot[Mine] EXCEPT !.state = "writing"]
    <3>1. slot' = [slot EXCEPT ![Mine] = t]
      BY ZenonT(60), <2>2 DEF BeginWrite
    <3>2. t.seq = slot[Mine].seq /\ t.mark = slot[Mine].mark /\ t.state # "ready"
      BY ZenonT(60), <1>1 DEF SlotRec
    <3>3. prod'.pc = "writing" /\ prod'.next_seq = prod.next_seq
      BY ZenonT(60), <1>2, <2>2 DEF ProdRec
    <3>4. \A s \in hdr.reclaimed_seq + 1 .. hdr.write_seq : slot_index_for_seq(s) # Mine
      BY ZenonT(60), <1>4, <2>1, <2>2
    <3> HIDE DEF t
    <3>5. /\ hdr.reclaimed_seq <= hdr.reclaimed_seq /\ hdr'.reclaimed_seq = hdr.reclaimed_seq
         /\ hdr'.write_seq = hdr.write_seq
      BY <1>1, <2>1
    <3>6. prod'.pc # "publish"
      BY ZenonT(60), <3>3
    <3> QED BY Zenon, <1>1, <1>3, <3>1, <3>2, <3>3, <3>4, <3>5, <3>6
  <2>3. CASE RefreshActive(prod.valid, FALSE) /\ UNCHANGED slot
    <3>1. prod'.pc \in {"check", "scan"} /\ prod'.next_seq = prod.next_seq
      BY Zenon, <1>2, <2>3, RefreshTyped DEF ProdRec
    <3> QED BY ZenonT(60), <2>1, <2>3, <3>1, WindowSame
  <2> QED BY Zenon, <1>5, <2>2, <2>3 DEF AllocateBegins
<1>6. CASE TryCloseGate
  <2>1. hdr' = hdr /\ prod.pc = "check"
    BY ZenonT(60), <1>6 DEF TryCloseGate
  <2>2. CASE slot[Mine].refcount = 0
    <3> DEFINE t == [slot[Mine] EXCEPT !.refcount = SENTINEL, !.state = "free"]
    <3>1. slot' = [slot EXCEPT ![Mine] = t]
      BY Zenon, <1>1, <1>6, <2>2 DEF TryCloseGate
    <3>2. t.seq = slot[Mine].seq /\ t.mark = slot[Mine].mark /\ t.state # "ready"
      BY ZenonT(60), <1>1 DEF SlotRec
    <3>3. prod'.pc = "reclaim" /\ prod'.next_seq = prod.next_seq
      BY ZenonT(60), <1>2, <1>6, <2>2 DEF ProdRec, TryCloseGate
    <3> HIDE DEF t
    <3>4. /\ hdr.reclaimed_seq <= hdr.reclaimed_seq /\ hdr'.reclaimed_seq = hdr.reclaimed_seq
         /\ hdr'.write_seq = hdr.write_seq
      BY <1>1, <2>1
    <3>5. prod'.pc = "reclaim" /\ prod.pc # "reclaim" /\ prod'.pc # "publish"
      BY ZenonT(60), <2>1, <3>3
    <3> QED BY Zenon, <1>1, <1>3, <3>1, <3>2, <3>3, <3>4, <3>5
  <2>3. CASE slot[Mine].refcount # 0
    <3>1. prod'.pc \in {"idle", "evict"} /\ prod'.next_seq = prod.next_seq
      BY ZenonT(60), <1>6, <2>1, <2>3, FailTyped DEF TryCloseGate
    <3>2. slot' = slot
      BY ZenonT(60), <1>6, <2>3 DEF TryCloseGate
    <3> QED BY ZenonT(60), <2>1, <3>1, <3>2, WindowSame
  <2> QED BY ZenonT(60), <2>2, <2>3
<1>7. CASE Reclaim
  <2> DEFINE t == [slot[Mine] EXCEPT !.state = "writing"]
             r == Later(hdr.reclaimed_seq, slot[Mine].seq)
  <2>1. slot' = [slot EXCEPT ![Mine] = t]
    BY ZenonT(60), <1>7 DEF Reclaim, BeginWrite
  <2>2. t.seq = slot[Mine].seq /\ t.mark = slot[Mine].mark /\ t.state # "ready"
    BY ZenonT(60), <1>1 DEF SlotRec
  <2>3. prod'.pc = "writing" /\ prod'.next_seq = prod.next_seq
    BY ZenonT(60), <1>2, <1>7 DEF ProdRec, Reclaim
  <2>4. hdr'.reclaimed_seq = r /\ hdr'.write_seq = hdr.write_seq
    BY ZenonT(60), <1>2, <1>7 DEF HdrRec, Reclaim
  <2>5. r \in Nat /\ hdr.reclaimed_seq <= r /\ slot[Mine].seq <= r
    BY <1>1 DEF Later
  <2> HIDE DEF t, r
  <2>6. ASSUME NEW s \in r + 1 .. hdr.write_seq PROVE slot_index_for_seq(s) # Mine
    <3>1. s \in hdr.reclaimed_seq + 1 .. hdr.write_seq
      BY <1>1, <2>5
    <3>2. slot[slot_index_for_seq(s)].seq = s
      BY ZenonT(60), <1>w, <3>1
    <3> QED BY <1>1, <2>5, <3>2
  <2> QED BY Zenon, <1>3, <2>1, <2>2, <2>3, <2>4, <2>5, <2>6
<1>8. CASE Abort
  <2> DEFINE t == [slot[Mine] EXCEPT !.state = "free"]
  <2>1. slot' = [slot EXCEPT ![Mine] = t] /\ hdr' = hdr /\ prod.pc = "writing"
    BY ZenonT(60), <1>1, <1>8 DEF Abort
  <2>2. t.seq = slot[Mine].seq /\ t.mark = slot[Mine].mark /\ t.state # "ready"
    BY ZenonT(60), <1>1 DEF SlotRec
  <2>3. prod'.pc = "idle" /\ prod'.next_seq = prod.next_seq
    BY ZenonT(60), <1>2, <1>8 DEF ProdRec, Abort
  <2>4. \A s \in hdr.reclaimed_seq + 1 .. hdr.write_seq : slot_index_for_seq(s) # Mine
    BY ZenonT(60), <1>2, <1>4, <2>1 DEF ProducerPlaced
  <2> HIDE DEF t
  <2>5. /\ hdr.reclaimed_seq <= hdr.reclaimed_seq /\ hdr'.reclaimed_seq = hdr.reclaimed_seq
       /\ hdr'.write_seq = hdr.write_seq
    BY <1>1, <2>1
  <2>6. prod'.pc # "publish"
    BY ZenonT(60), <2>3
  <2> QED BY Zenon, <1>1, <1>3, <2>1, <2>2, <2>3, <2>4, <2>5, <2>6
<1>9. CASE CommitSlot
  <2> DEFINE n == prod.next_seq
             t == [state |-> "ready", seq |-> prod.next_seq, refcount |-> 0, mark |-> hdr.reclaimed_seq]
  <2>1. /\ slot' = [slot EXCEPT ![Mine] = t] /\ hdr' = hdr /\ prod.pc = "writing"
        /\ slot[Mine].state = "writing"
    BY ZenonT(60), <1>2, <1>9 DEF CommitSlot, ProducerPlaced
  <2>2. prod'.pc = "publish" /\ prod'.next_seq = n
    BY ZenonT(60), <1>2, <1>9 DEF ProdRec, CommitSlot
  <2>3. t.seq = n /\ t.mark = hdr.reclaimed_seq /\ t.state = "ready"
    BY ZenonT(60)
  <2> HIDE DEF t
  <2>4. Mine' = Mine /\ slot'[Mine] = t /\ \A i \in Slots : i # Mine => slot'[i] = slot[i]
    BY ZenonT(60), <1>1, <2>1, <2>2 DEF Mine
  <2>5. \A s \in hdr.reclaimed_seq + 1 .. hdr.write_seq : slot_index_for_seq(s) # Mine
    BY ZenonT(60), <1>4, <2>1
  <2>6. ASSUME NEW s \in hdr.reclaimed_seq + 1 .. hdr.write_seq
        PROVE  slot'[slot_index_for_seq(s)].seq = s /\ slot'[slot_index_for_seq(s)].state = "ready"
    <3>1. slot_index_for_seq(s) \in Slots
      BY <1>1
    <3> QED BY ZenonT(60), <1>w, <2>1, <2>4, <2>5, <3>1
  <2>7. ResidentWindow'
    BY ZenonT(60), <2>1, <2>6 DEF ResidentWindow
  <2>8. ASSUME NEW s \in 1 .. hdr.write_seq PROVE slot'[slot_index_for_seq(s)].seq >= s
    <3>1. slot_index_for_seq(s) \in Slots
      BY <1>1
    <3> QED BY <1>1, <1>w, <2>3, <2>4, <3>1
  <2>9. ASSUME NEW i \in Slots, slot'[i].state = "ready", NEW s \in 1 .. slot'[i].seq - 1,
               slot_index_for_seq(s) = i
        PROVE  s <= slot'[i].mark
    <3>1. CASE i = Mine
      <4>1. s \in 1 .. hdr.write_seq
        BY ZenonT(60), <1>w, <2>3, <2>4, <2>9, <3>1
      <4>2. ~(s \in hdr.reclaimed_seq + 1 .. hdr.write_seq)
        BY ZenonT(60), <2>5, <2>9, <3>1
      <4>3. s <= hdr.reclaimed_seq
        BY <1>1, <4>1, <4>2
      <4> QED BY ZenonT(60), <2>3, <2>4, <3>1, <4>3
    <3>2. CASE i # Mine
      BY ZenonT(60), <1>w, <2>4, <2>9, <3>2
    <3> QED BY ZenonT(60), <3>1, <3>2
  <2> QED BY ZenonT(60), <1>w, <2>1, <2>2, <2>3, <2>4, <2>7, <2>8, <2>9 DEF Window, Latest
<1>10. CASE PublishSeq
  <2> DEFINE n == prod.next_seq
  <2>1. /\ hdr'.write_seq = n /\ hdr'.reclaimed_seq = hdr.reclaimed_seq
        /\ prod.pc = "publish" /\ slot' = slot
    BY ZenonT(60), <1>2, <1>10 DEF HdrRec, PublishSeq
  <2>2. prod'.pc = "idle" /\ prod'.next_seq = n + 1
    BY ZenonT(60), <1>2, <1>10 DEF ProdRec, PublishSeq
  <2>3. slot[Mine].seq = n /\ slot[Mine].state = "ready" /\ Mine = slot_index_for_seq(n)
    BY ZenonT(60), <2>1 DEF Window, Mine
  <2>4. ASSUME NEW s \in hdr.reclaimed_seq + 1 .. n
        PROVE  slot[slot_index_for_seq(s)].seq = s /\ slot[slot_index_for_seq(s)].state = "ready"
    <3>1. CASE s = n
      BY ZenonT(60), <2>3, <3>1
    <3>2. CASE s # n
      <4>1. s \in hdr.reclaimed_seq + 1 .. hdr.write_seq
        BY <1>1, <1>w, <3>2
      <4> QED BY ZenonT(60), <1>w, <2>1, <4>1
    <3> QED BY ZenonT(60), <3>1, <3>2
  <2>5. ResidentWindow'
    BY ZenonT(60), <2>1, <2>4 DEF ResidentWindow
  <2>6. ASSUME NEW s \in 1 .. n PROVE slot[slot_index_for_seq(s)].seq >= s
    <3>1. CASE s = n
      BY <1>1, <2>3, <3>1
    <3>2. CASE s # n
      <4>1. s \in 1 .. hdr.write_seq
        BY <1>1, <1>w, <3>2
      <4> QED BY ZenonT(60), <1>w, <4>1
    <3> QED BY ZenonT(60), <3>1, <3>2
  <2>7. hdr'.write_seq = prod'.next_seq - 1
    BY <1>1, <2>1, <2>2
  <2> QED BY ZenonT(60), <1>w, <2>1, <2>2, <2>5, <2>6, <2>7 DEF Window, Latest
<1> QED BY ZenonT(60), <1>5, <1>6, <1>7, <1>8, <1>9, <1>10

(* What a consumer's own step leaves alone: the other consumers, the        *)
(* producer's place, the watermarks, and all of a slot but its refcount.    *)
ConsumerFrame(c) ==
    /\ \A d \in Consumer : d # c => cons'[d] = cons[d]
    /\ hdr'.write_seq = hdr.write_seq /\ hdr'.reclaimed_seq = hdr.reclaimed_seq
    /\ prod'.next_seq = prod.next_seq /\ prod'.pc = prod.pc
    /\ \A i \in Slots : /\ slot'[i].seq = slot[i].seq /\ slot'[i].state = slot[i].state
                        /\ slot'[i].mark = slot[i].mark

(* Consumer steps that touch neither a refcount nor the header.             *)
LEMMA QuietFrame ==
    ASSUME NEW c \in Consumer, cons \in [Consumer -> ConsRec],
           NEW r, cons' = [cons EXCEPT ![c] = r], UNCHANGED <<slot, hdr, prod>>
    PROVE  ConsumerFrame(c) /\ cons'[c] = r
BY ZenonT(60) DEF ConsumerFrame

(* Consumer steps that change the count of one slot.                        *)
LEMMA CountFrame ==
    ASSUME IInv, NEW c \in Consumer, NEW i \in Slots, NEW n, slot' = [slot EXCEPT ![i].refcount = n],
           UNCHANGED <<hdr, prod>>, NEW r, cons' = [cons EXCEPT ![c] = r]
    PROVE  ConsumerFrame(c) /\ cons'[c] = r
<1>1. cons \in [Consumer -> ConsRec] /\ slot \in [Slots -> SlotRec]
  BY ZenonT(60), TypeSplit DEF IInv
<1>2. ASSUME NEW j \in Slots
      PROVE  /\ slot'[j].seq = slot[j].seq /\ slot'[j].state = slot[j].state
             /\ slot'[j].mark = slot[j].mark
  BY ZenonT(60), <1>1 DEF SlotRec
<1> QED BY ZenonT(60), <1>1, <1>2 DEF ConsumerFrame

(* While attaching and detaching a reader is not about to pin.              *)
LEMMA AttachInformed ==
    ASSUME IInv, NEW c \in Consumer,
           \/ AttachBegins(c) \/ ClaimEntry(c) \/ Activate(c) \/ Announce(c)
           \/ Release(c) \/ Detached(c)
    PROVE  ConsumerFrame(c) /\ ReaderInformed(c)'
<1>1. cons \in [Consumer -> ConsRec] /\ hdr \in HdrRec /\ prod \in ProdRec
  BY ZenonT(60), TypeSplit DEF IInv
<1>2. ASSUME NEW r, cons' = [cons EXCEPT ![c] = r], r.pc \notin {"pin", "mispinned"},
             UNCHANGED <<slot, hdr, prod>>
      PROVE  ConsumerFrame(c) /\ ReaderInformed(c)'
  BY Zenon, <1>1, <1>2, QuietFrame DEF ReaderInformed
<1>3. \A p \in ConsPc : Go(c, p) \in ConsRec /\ Go(c, p).pc = p
  BY ZenonT(60), <1>1 DEF Go, ConsRec
<1>4. {"claim", "activate", "announce", "clamp", "leaving"} \subseteq ConsPc
  BY ZenonT(60) DEF ConsPc, AttachPc
<1>5. CASE AttachBegins(c)
  <2>1. PICK x \in ReclaimedReads(c), start \in {1, MaxSeq + 1} :
          cons' = [cons EXCEPT ![c] = [Go(c, "claim") EXCEPT
                       !.cursor = Resolve(start, x, hdr.write_seq),
                       !.view = Later(x, Acquired(c, hdr.mark)), !.out = "none"]]
    BY Zenon, <1>5 DEF AttachBegins
  <2> DEFINE r == [Go(c, "claim") EXCEPT !.cursor = Resolve(start, x, hdr.write_seq),
                       !.view = Later(x, Acquired(c, hdr.mark)), !.out = "none"]
  <2>2. r.pc = "claim"
    BY ZenonT(60), <1>3, <1>4 DEF ConsRec
  <2>3. cons' = [cons EXCEPT ![c] = r] /\ UNCHANGED <<slot, hdr, prod>>
    BY Zenon, <1>5, <2>1 DEF AttachBegins
  <2> HIDE DEF r
  <2> QED BY Zenon, <1>2, <2>2, <2>3
<1>6. CASE ClaimEntry(c)
  <2>1. UNCHANGED <<slot, hdr, prod>>
    BY ZenonT(60), <1>6 DEF ClaimEntry
  <2>2. CASE cons' = [cons EXCEPT ![c] = NotAttached]
    BY Zenon, <1>2, <2>1, <2>2 DEF NotAttached
  <2>3. ASSUME NEW e \in Entries, cons' = [cons EXCEPT ![c] = [Go(c, "activate") EXCEPT !.entry = e]]
        PROVE  ConsumerFrame(c) /\ ReaderInformed(c)'
    <3> DEFINE r == [Go(c, "activate") EXCEPT !.entry = e]
    <3>1. r.pc = "activate"
      BY ZenonT(60), <1>3, <1>4 DEF ConsRec
    <3>2. cons' = [cons EXCEPT ![c] = r]
      BY ZenonT(60), <2>3
    <3> HIDE DEF r
    <3> QED BY Zenon, <1>2, <2>1, <3>1, <3>2
  <2> QED BY ZenonT(60), <1>6, <2>2, <2>3 DEF ClaimEntry
<1>7. CASE Activate(c)
  <2>1. cons' = [cons EXCEPT ![c] = Go(c, "announce")] /\ UNCHANGED <<slot, hdr, prod>>
    BY ZenonT(60), <1>7 DEF Activate
  <2>2. Go(c, "announce").pc = "announce"
    BY ZenonT(60), <1>3, <1>4
  <2> QED BY Zenon, <1>2, <2>1, <2>2
<1>8. CASE Announce(c) \/ Detached(c)
  <2>1. PICK r : cons' = [cons EXCEPT ![c] = r] /\ r.pc \in {"clamp", "detached"}
    BY <1>3, <1>4, <1>8 DEF Announce, Detached, NotAttached
  <2>2. UNCHANGED <<slot, prod>> /\ hdr' = [hdr EXCEPT !.epoch = @ + 1]
    BY ZenonT(60), <1>8 DEF Announce, Detached
  <2>3. hdr'.write_seq = hdr.write_seq /\ hdr'.reclaimed_seq = hdr.reclaimed_seq
    BY ZenonT(60), <1>1, <2>2 DEF HdrRec
  <2>4. cons'[c] = r /\ \A d \in Consumer : d # c => cons'[d] = cons[d]
    BY ZenonT(60), <1>1, <2>1
  <2> QED BY ZenonT(60), <2>1, <2>2, <2>3, <2>4 DEF ConsumerFrame, ReaderInformed
<1>9. CASE Release(c)
  <2>1. cons' = [cons EXCEPT ![c] = Go(c, "leaving")] /\ UNCHANGED <<slot, hdr>>
        /\ prod' = [prod EXCEPT !.owed = @ \ {c}]
    BY ZenonT(60), <1>9 DEF Release
  <2>2. Go(c, "leaving").pc = "leaving"
    BY ZenonT(60), <1>3, <1>4
  <2>3. prod'.next_seq = prod.next_seq /\ prod'.pc = prod.pc
    BY ZenonT(60), <1>1, <2>1 DEF ProdRec
  <2>4. cons'[c] = Go(c, "leaving") /\ \A d \in Consumer : d # c => cons'[d] = cons[d]
    BY ZenonT(60), <1>1, <2>1
  <2> QED BY ZenonT(60), <2>1, <2>2, <2>3, <2>4 DEF ConsumerFrame, ReaderInformed
<1> QED BY ZenonT(60), <1>5, <1>6, <1>7, <1>8, <1>9

(* Where a consumer counts as attached while its process lives.             *)
ServedPc == ConsPc \ (AttachPc \cup {"leaving"})

(* An attached consumer stays so, and the cursor it publishes is its own and *)
(* moves up.                                                                 *)
Proceeds(c) ==
    /\ prod' = prod /\ hdr'.epoch = hdr.epoch /\ proc' = proc
    /\ cons[c].pc \in ServedPc /\ cons'[c].pc \in ServedPc /\ cons'[c].entry = cons[c].entry
    /\ \/ entry' = entry /\ cons'[c].cursor = cons[c].cursor
       \/ /\ entry' = [entry EXCEPT ![cons[c].entry].cursor = cons'[c].cursor]
          /\ cons'[c].cursor \in Nat /\ cons'[c].cursor >= cons[c].cursor

(* try_next pins only a published message, a pin on a recycled slot brings   *)
(* the mark that covers what the slot held before, and neither receiving nor *)
(* watching the producer moves a cursor back.                                *)
LEMMA ReceiveInformed ==
    ASSUME IInv, Window, Latest, NEW c \in Consumer, ReaderInformed(c),
           \/ ReceiveStep(c) \/ FindQuiet(c) \/ WatermarkVisible(c) \/ ClampToOldest(c)
    PROVE  ConsumerFrame(c) /\ ReaderInformed(c)' /\ Proceeds(c)
<1> DEFINE Goal == ConsumerFrame(c) /\ ReaderInformed(c)' /\ Proceeds(c)
           Calm == ServedPc \ {"pin", "mispinned"}
<1>1. /\ cons \in [Consumer -> ConsRec] /\ hdr \in HdrRec /\ prod \in ProdRec
      /\ slot \in [Slots -> SlotRec] /\ cons[c] \in ConsRec /\ cons[c].cursor \in Nat
      /\ hdr.reclaimed_seq \in Nat
  <2>1. /\ cons \in [Consumer -> ConsRec] /\ hdr \in HdrRec /\ prod \in ProdRec
        /\ slot \in [Slots -> SlotRec]
    BY ZenonT(60), TypeSplit DEF IInv
  <2> QED BY <2>1, RingAssumption DEF ConsRec, HdrRec
<1>2. /\ {"clamp", "idle", "seq", "closed", "pinned", "quiet"} \subseteq Calm
      /\ {"pin", "mispinned"} \subseteq ServedPc /\ ServedPc \subseteq ConsPc /\ Calm \subseteq ServedPc
      /\ "pin" \notin Calm /\ "mispinned" \notin Calm
  BY Zenon DEF ServedPc, ConsPc, RecvPc, AttachPc
<1> HIDE DEF Calm
<1>3. \A p \in ServedPc : /\ Go(c, p) \in ConsRec /\ Go(c, p).pc = p
                          /\ Go(c, p).cursor = cons[c].cursor /\ Go(c, p).entry = cons[c].entry
  BY ZenonT(60), <1>1, <1>2 DEF Go, ConsRec
(* The cursor stays where it is, or both words of it move.                  *)
<1>4. ASSUME cons[c].pc \in ServedPc, UNCHANGED <<slot, hdr, prod, entry, proc>>,
             NEW r, cons' = [cons EXCEPT ![c] = r],
             r.pc \in Calm, r.entry = cons[c].entry, r.cursor = cons[c].cursor
      PROVE  Goal
  <2>1. ConsumerFrame(c) /\ cons'[c] = r
    BY Zenon, <1>1, <1>4, QuietFrame
  <2> QED BY ZenonT(60), <1>2, <1>4, <2>1 DEF ReaderInformed, Proceeds
<1>5. ASSUME cons[c].pc \in ServedPc, UNCHANGED <<slot, hdr, prod, proc>>,
             NEW r \in ConsRec, NEW s \in Nat, SetCursor(c, r, s),
             r.pc \in Calm, r.entry = cons[c].entry, s >= cons[c].cursor
      PROVE  Goal
  <2> DEFINE q == [r EXCEPT !.cursor = s]
  <2>1. cons' = [cons EXCEPT ![c] = q] /\ entry' = [entry EXCEPT ![cons[c].entry].cursor = s]
    BY ZenonT(60), <1>5 DEF SetCursor
  <2>2. q.pc = r.pc /\ q.entry = r.entry /\ q.cursor = s
    BY ZenonT(60), <1>5 DEF ConsRec
  <2> HIDE DEF q
  <2>3. ConsumerFrame(c) /\ cons'[c] = q
    BY Zenon, <1>1, <1>5, <2>1, QuietFrame
  <2> QED BY Zenon, <1>2, <1>5, <2>1, <2>2, <2>3 DEF ReaderInformed, Proceeds
<1>6. \A x \in ReclaimedReads(c) : x \in 0 .. MaxSeq /\ x \in Nat
  BY ReadsTyped, RingAssumption DEF IInv
<1>7. CASE TryNextBegins(c)
  <2>1. PICK x \in ReclaimedReads(c) :
          LET viewed == [cons[c] EXCEPT !.view = x]
          IN  \/ cons[c].cursor <= x /\ SetCursor(c, [viewed EXCEPT !.out = "lagged"], x + 1)
              \/ /\ cons' = [cons EXCEPT ![c] = [viewed EXCEPT !.pc = "seq", !.out = "none"]]
                 /\ entry' = entry
    BY Zenon, <1>7 DEF TryNextBegins
  <2> DEFINE v == [cons[c] EXCEPT !.view = x]
             a == [v EXCEPT !.out = "lagged"]
             b == [v EXCEPT !.pc = "seq", !.out = "none"]
  <2>2. cons[c].pc = "idle" /\ UNCHANGED <<slot, hdr, prod, proc>>
    BY ZenonT(60), <1>7 DEF TryNextBegins
  <2>3. /\ a \in ConsRec /\ a.pc = "idle" /\ a.entry = cons[c].entry
        /\ b.pc = "seq" /\ b.entry = cons[c].entry /\ b.cursor = cons[c].cursor
    BY ZenonT(60), <1>1, <1>6, <2>2 DEF ConsRec
  <2>4. \/ cons[c].cursor <= x /\ SetCursor(c, a, x + 1)
        \/ cons' = [cons EXCEPT ![c] = b] /\ entry' = entry
    BY ZenonT(60), <2>1
  <2> HIDE DEF a, b
  <2>5. /\ x + 1 \in Nat /\ (cons[c].cursor <= x => x + 1 >= cons[c].cursor)
        /\ "idle" \in Calm /\ "seq" \in Calm /\ "idle" \in ServedPc
    BY <1>1, <1>2, <1>6
  <2>6. CASE cons[c].cursor <= x /\ SetCursor(c, a, x + 1)
    BY ZenonT(60), <1>5, <2>2, <2>3, <2>5, <2>6
  <2>7. CASE cons' = [cons EXCEPT ![c] = b] /\ entry' = entry
    BY Zenon, <1>4, <2>2, <2>3, <2>5, <2>7
  <2> QED BY ZenonT(60), <2>4, <2>6, <2>7
<1>8. CASE ReadWriteSeq(c)
  <2> DEFINE p == IF cons[c].cursor > hdr.write_seq THEN "closed" ELSE "pin"
             r == [Go(c, p) EXCEPT !.view = Acquired(c, hdr.mark)]
  <2>1. /\ p \in ServedPc /\ p # "mispinned" /\ (p = "pin" => cons[c].cursor <= hdr.write_seq)
    BY <1>1, <1>2, RingAssumption DEF HdrRec
  <2>2. cons' = [cons EXCEPT ![c] = r] /\ UNCHANGED <<slot, hdr, prod, entry, proc>> /\ cons[c].pc = "seq"
    BY ZenonT(60), <1>8 DEF ReadWriteSeq
  <2> HIDE DEF p
  <2>3. r.pc = p /\ r.cursor = cons[c].cursor /\ r.entry = cons[c].entry
    BY <1>3, <2>1 DEF ConsRec
  <2> HIDE DEF r
  <2>4. ConsumerFrame(c) /\ cons'[c] = r
    BY Zenon, <1>1, <2>2, QuietFrame
  <2>5. "seq" \in ServedPc
    BY ZenonT(60), <1>2
  <2> QED BY ZenonT(60), <2>1, <2>2, <2>3, <2>4, <2>5 DEF ReaderInformed, Proceeds
<1>9. CASE ReadClosed(c)
  <2> DEFINE r == [Go(c, "idle") EXCEPT !.out = IF hdr.closed THEN "closed" ELSE "empty"]
  <2>1. r.pc \in Calm /\ r.entry = cons[c].entry /\ r.cursor = cons[c].cursor
    BY <1>2, <1>3 DEF ConsRec
  <2>2. /\ cons' = [cons EXCEPT ![c] = r] /\ UNCHANGED <<slot, hdr, prod, entry, proc>>
        /\ cons[c].pc \in ServedPc
    BY ZenonT(60), <1>2, <1>9 DEF ReadClosed
  <2> HIDE DEF r
  <2> QED BY Zenon, <1>4, <2>1, <2>2
<1>10. CASE FindQuiet(c)
  <2> DEFINE r == [Go(c, "quiet") EXCEPT !.view = Acquired(c, hdr.mark)]
  <2>1. r.pc \in Calm /\ r.entry = cons[c].entry /\ r.cursor = cons[c].cursor
    BY <1>2, <1>3 DEF ConsRec
  <2>2. /\ cons' = [cons EXCEPT ![c] = r] /\ UNCHANGED <<slot, hdr, prod, entry, proc>>
        /\ cons[c].pc \in ServedPc
    BY ZenonT(60), <1>2, <1>10 DEF FindQuiet
  <2> HIDE DEF r
  <2> QED BY Zenon, <1>4, <2>1, <2>2
<1>11. CASE Advance(c)
  <2> DEFINE r == [Go(c, "idle") EXCEPT !.out = "sample"]
  <2>1. r \in ConsRec /\ r.pc \in Calm /\ r.entry = cons[c].entry
    BY <1>2, <1>3 DEF ConsRec
  <2>2. /\ SetCursor(c, r, cons[c].cursor + 1) /\ UNCHANGED <<slot, hdr, prod, proc>>
        /\ cons[c].pc \in ServedPc
    BY ZenonT(60), <1>2, <1>11 DEF Advance
  <2> HIDE DEF r
  <2>3. cons[c].cursor + 1 \in Nat /\ cons[c].cursor + 1 >= cons[c].cursor
    BY SMTT(60), <1>1
  <2> QED BY ZenonT(60), <1>5, <2>1, <2>2, <2>3
<1>12. CASE ClampToOldest(c)
  <2>1. PICK x \in ReclaimedReads(c) :
          SetCursor(c, [Go(c, "idle") EXCEPT !.view = x], Later(cons[c].cursor, x + 1))
    BY ZenonT(60), <1>12 DEF ClampToOldest
  <2> DEFINE r == [Go(c, "idle") EXCEPT !.view = x]
             s == Later(cons[c].cursor, x + 1)
  <2>2. r \in ConsRec /\ r.pc \in Calm /\ r.entry = cons[c].entry
    BY <1>2, <1>3, <1>6 DEF ConsRec
  <2>3. s \in Nat /\ s >= cons[c].cursor
    BY <1>1, <1>6 DEF Later
  <2>4. cons[c].pc \in ServedPc /\ UNCHANGED <<slot, hdr, prod, proc>> /\ SetCursor(c, r, s)
    BY ZenonT(60), <1>2, <1>12, <2>1 DEF ClampToOldest
  <2> HIDE DEF r, s
  <2> QED BY ZenonT(60), <1>5, <2>2, <2>3, <2>4
<1>14. CASE CheckPid(c)
  <2> DEFINE a == Go(c, "idle")
             b == [Go(c, "idle") EXCEPT !.out = "gone"]
  <2>1. /\ a.pc = "idle" /\ a.entry = cons[c].entry /\ a.cursor = cons[c].cursor
        /\ b.pc = "idle" /\ b.entry = cons[c].entry /\ b.cursor = cons[c].cursor
        /\ "idle" \in ServedPc /\ "quiet" \in ServedPc
    BY <1>2, <1>3 DEF ConsRec
  <2>2. /\ UNCHANGED <<slot, prod, entry, proc>> /\ cons[c].pc = "quiet"
        /\ cons' = [cons EXCEPT ![c] = a] \/ cons' = [cons EXCEPT ![c] = b]
        /\ hdr' = hdr \/ hdr' = [hdr EXCEPT !.closed = TRUE]
    BY ZenonT(60), <1>14 DEF CheckPid
  <2> HIDE DEF a, b
  <2>3. /\ hdr'.write_seq = hdr.write_seq /\ hdr'.reclaimed_seq = hdr.reclaimed_seq
        /\ hdr'.epoch = hdr.epoch
    BY ZenonT(60), <1>1, <2>2 DEF HdrRec
  <2>4. cons'[c] \in {a, b} /\ \A d \in Consumer : d # c => cons'[d] = cons[d]
    BY ZenonT(60), <1>1, <2>2
  <2> QED BY ZenonT(60), <2>1, <2>2, <2>3, <2>4 DEF ConsumerFrame, ReaderInformed, Proceeds
<1>15. CASE WatermarkVisible(c)
  <2> DEFINE r == [cons[c] EXCEPT !.view = hdr.reclaimed_seq]
  <2>1. /\ r.pc = cons[c].pc /\ r.cursor = cons[c].cursor /\ r.view = hdr.reclaimed_seq
        /\ r.entry = cons[c].entry
    BY ZenonT(60), <1>1 DEF ConsRec
  <2>2. cons' = [cons EXCEPT ![c] = r] /\ UNCHANGED <<slot, hdr, prod, entry, proc>>
    BY ZenonT(60), <1>1, <1>15 DEF WatermarkVisible
  <2>3. cons[c].view < hdr.reclaimed_seq /\ cons[c].pc \in ServedPc
    BY ZenonT(60), <1>1, <1>15 DEF WatermarkVisible, Attached, ServedPc, ConsRec
  <2> HIDE DEF r
  <2>4. ConsumerFrame(c) /\ cons'[c] = r
    BY Zenon, <1>1, <2>2, QuietFrame
  <2>5. cons[c].cursor <= cons[c].view => cons[c].cursor <= hdr.reclaimed_seq
    BY <1>1, <2>3, RingAssumption DEF ConsRec, HdrRec
  <2> QED BY ZenonT(60), <2>1, <2>2, <2>3, <2>4, <2>5 DEF ReaderInformed, Proceeds
<1>16. CASE UnpinMismatch(c)
  <2>1. Wanted(c) \in Slots
    BY ZenonT(60), WantedInRing DEF IInv
  <2>2. /\ slot' = [slot EXCEPT ![Wanted(c)].refcount = slot[Wanted(c)].refcount - 1]
        /\ cons' = [cons EXCEPT ![c] = Go(c, "idle")] /\ UNCHANGED <<hdr, prod, entry, proc>>
        /\ cons[c].pc = "mispinned"
    BY ZenonT(60), <1>16 DEF UnpinMismatch, Unpin
  <2>3. /\ Go(c, "idle").pc = "idle" /\ Go(c, "idle").entry = cons[c].entry
        /\ Go(c, "idle").cursor = cons[c].cursor /\ "idle" \in ServedPc /\ "mispinned" \in ServedPc
    BY ZenonT(60), <1>2, <1>3
  <2>4. ConsumerFrame(c) /\ cons'[c] = Go(c, "idle")
    BY Zenon, <2>1, <2>2, CountFrame
  <2> QED BY ZenonT(60), <2>2, <2>3, <2>4 DEF ReaderInformed, Proceeds
<1>17. CASE Pin(c)
  <2> DEFINE i == Wanted(c)
  <2>1. i \in Slots /\ UNCHANGED <<hdr, prod, entry, proc>> /\ cons[c].pc = "pin" /\ cons[c].pc \in ServedPc
    BY ZenonT(60), <1>2, <1>17, WantedInRing DEF IInv, Pin
  <2>2. CASE slot[i].refcount = SENTINEL
    <3>1. PICK o \in {"none", "empty"} : cons' = [cons EXCEPT ![c] = [Go(c, "idle") EXCEPT !.out = o]]
      BY ZenonT(60), <1>17, <2>2 DEF Pin
    <3> DEFINE r == [Go(c, "idle") EXCEPT !.out = o]
    <3>2. r.pc \in Calm /\ r.entry = cons[c].entry /\ r.cursor = cons[c].cursor
      BY <1>2, <1>3 DEF ConsRec
    <3>3. cons' = [cons EXCEPT ![c] = r] /\ slot' = slot
      BY ZenonT(60), <1>17, <2>2, <3>1 DEF Pin
    <3> HIDE DEF r
    <3> QED BY Zenon, <1>4, <2>1, <3>2, <3>3
  <2>3. CASE slot[i].refcount # SENTINEL
    <3> DEFINE p == IF slot[i].seq = cons[c].cursor THEN "pinned" ELSE "mispinned"
               r == [Go(c, p) EXCEPT !.view = Acquired(c, slot[i].mark)]
    <3>1. cons' = [cons EXCEPT ![c] = r] /\ slot' = [slot EXCEPT ![i].refcount = slot[i].refcount + 1]
      BY ZenonT(60), <1>17, <2>3 DEF Pin
    <3>2. p \in ServedPc /\ p # "pin" /\ (p = "mispinned" => slot[i].seq # cons[c].cursor)
      BY ZenonT(60), <1>2
    <3> HIDE DEF p
    <3>3. /\ r.pc = p /\ r.cursor = cons[c].cursor /\ r.view = Acquired(c, slot[i].mark)
          /\ r.entry = cons[c].entry
      BY ZenonT(60), <1>3, <3>2 DEF ConsRec
    <3> HIDE DEF r
    <3>4. ConsumerFrame(c) /\ cons'[c] = r
      BY ZenonT(60), <2>1, <3>1, CountFrame
    <3>5. ASSUME slot[i].seq # cons[c].cursor PROVE cons[c].cursor <= Acquired(c, slot[i].mark)
      <4>1. /\ cons[c].cursor \in Nat \ {0} /\ cons[c].view \in Nat /\ hdr.write_seq \in Nat
            /\ slot[i].seq \in Nat /\ slot[i].mark \in Nat
        BY <1>1, <2>1, RingAssumption DEF ConsRec, HdrRec, SlotRec
      <4>2. slot[i].state = "ready"
        BY ZenonT(60), <2>1, <2>3 DEF IInv, Owned, SlotOwned
      <4>3. cons[c].cursor \in 1 .. hdr.write_seq /\ slot_index_for_seq(cons[c].cursor) = i
        BY ZenonT(60), SMTT(60), SMTT(60), <2>1, <4>1 DEF ReaderInformed, Wanted
      <4>4. cons[c].cursor \in 1 .. slot[i].seq - 1
        BY ZenonT(60), SMTT(60), SMTT(60), <3>5, <4>1, <4>3 DEF Latest
      <4>5. cons[c].cursor <= slot[i].mark
        BY ZenonT(60), <2>1, <4>2, <4>3, <4>4 DEF Latest
      <4> QED BY <4>1, <4>5 DEF Acquired, Later
    <3> QED BY ZenonT(60), <2>1, <3>2, <3>3, <3>4, <3>5 DEF ReaderInformed, Proceeds
  <2> QED BY ZenonT(60), <2>2, <2>3
<1> QED BY ZenonT(60), <1>7, <1>8, <1>9, <1>10, <1>11, <1>12, <1>14, <1>15, <1>16, <1>17 DEF ReceiveStep

(* Dropping a Sample changes a refcount and nothing else.                   *)
LEMMA DropFrame ==
    ASSUME IInv, NEW c \in Consumer, ReaderInformed(c), DropSample(c)
    PROVE  ConsumerFrame(c) /\ ReaderInformed(c)'
<1>1. cons \in [Consumer -> ConsRec]
  BY ZenonT(60), TypeSplit DEF IInv
<1>2. PICK i \in Slots, h \in Handle : Unpin(c, i, h)
  BY ZenonT(60) DEF DropSample
<1>3. /\ slot' = [slot EXCEPT ![i].refcount = slot[i].refcount - 1]
      /\ cons' = [cons EXCEPT ![c] = cons[c]] /\ UNCHANGED <<hdr, prod>>
  BY Zenon, <1>1, <1>2 DEF DropSample, Unpin
<1>4. ConsumerFrame(c) /\ cons'[c] = cons[c]
  BY ZenonT(60), <1>3, CountFrame
<1> QED BY ZenonT(60), <1>3, <1>4 DEF ReaderInformed

(* The rest of the producer's steps, and the steps of nobody in particular. *)
LEMMA OthersInformed ==
    ASSUME IInv, Window, Latest, \A c \in Consumer : ReaderInformed(c),
           \/ ScanEntry \/ CheckCursor \/ EvictStaleConsumers \/ Close
           \/ (\E p \in Killable : Kill(p)) \/ (\E c \in Consumer : HeartbeatExpires(c))
           \/ PollProducers \/ BrokerEvicts
    PROVE  Window' /\ Latest' /\ \A c \in Consumer : ReaderInformed(c)'
<1>1. cons \in [Consumer -> ConsRec] /\ hdr \in HdrRec /\ prod \in ProdRec
  BY ZenonT(60), TypeSplit DEF IInv
<1>2. slot' = slot /\ hdr'.write_seq = hdr.write_seq /\ hdr'.reclaimed_seq = hdr.reclaimed_seq
  BY ZenonT(60), <1>1 DEF ScanEntry, CheckCursor, EvictStaleConsumers, Close, Kill, HeartbeatExpires,
              PollProducers, BrokerEvicts, HdrRec
<1>3. /\ prod'.next_seq = prod.next_seq
      /\ prod'.pc # "publish" \/ prod.pc = "publish"
      /\ prod'.pc = "reclaim" \/ prod.pc # "reclaim"
  <2>1. CASE ScanEntry
    BY Zenon, <1>1, <2>1 DEF ScanEntry, ProdRec
  <2>2. CASE CheckCursor
    BY Zenon, <1>1, <2>2 DEF CheckCursor, AcquireFails, ProdRec
  <2>3. CASE EvictStaleConsumers
    BY ZenonT(60), <1>1, <2>3 DEF EvictStaleConsumers, RefreshActive, ProdRec
  <2>4. CASE \E p \in Killable : Kill(p)
    BY ZenonT(60), <1>1, <2>4 DEF Kill, ProdRec
  <2>5. CASE Close \/ (\E c \in Consumer : HeartbeatExpires(c)) \/ PollProducers \/ BrokerEvicts
    BY ZenonT(60), <2>5 DEF Close, HeartbeatExpires, PollProducers, BrokerEvicts
  <2> QED BY ZenonT(60), <2>1, <2>2, <2>3, <2>4, <2>5
<1>4. ASSUME NEW c \in Consumer PROVE cons'[c] \in {cons[c], NotAttached}
  BY Zenon, <1>1 DEF ScanEntry, CheckCursor, EvictStaleConsumers, Close, Kill, HeartbeatExpires,
              PollProducers, BrokerEvicts
<1>5. Window' /\ Latest'
  BY ZenonT(60), <1>2, <1>3, WindowSame
<1>6. NotAttached.pc = "detached"
  BY ZenonT(60) DEF NotAttached
<1> QED BY ZenonT(60), <1>2, <1>4, <1>5, <1>6 DEF ReaderInformed

(* seek moves one consumer's cursor, and takes the consumer off the list of  *)
(* those the running call waits for.                                         *)
LEMMA SeekFrame ==
    ASSUME IInv, NEW c \in Consumer, Seek(c)
    PROVE  /\ ConsumerFrame(c) /\ ReaderInformed(c)'
           /\ cons[c].pc = "idle" /\ cons'[c].pc = "idle" /\ cons'[c].entry = cons[c].entry
           /\ entry' = [entry EXCEPT ![cons[c].entry].cursor = cons'[c].cursor]
           /\ UNCHANGED <<hdr, proc>> /\ proc[c] = "alive"
           /\ prod'.owed = prod.owed \ {c} /\ prod'.active = prod.active
           /\ prod'.todo = prod.todo /\ prod'.epoch = prod.epoch /\ prod'.valid = prod.valid
           /\ prod'.may_overwrite = prod.may_overwrite
<1>1. cons \in [Consumer -> ConsRec] /\ cons[c] \in ConsRec /\ prod \in ProdRec
  BY ZenonT(60), TypeSplit DEF IInv
<1>2. PICK x \in ReclaimedReads(c), q \in 1 .. MaxSeq + 1 :
        SetCursor(c, [cons[c] EXCEPT !.view = Later(x, Acquired(c, hdr.mark))],
                  Resolve(q, x, hdr.write_seq))
  BY ZenonT(60) DEF Seek
<1> DEFINE s == Resolve(q, x, hdr.write_seq)
           r == [[cons[c] EXCEPT !.view = Later(x, Acquired(c, hdr.mark))] EXCEPT !.cursor = s]
<1>3. /\ cons[c].pc = "idle" /\ UNCHANGED <<slot, hdr, proc>> /\ proc[c] = "alive"
      /\ prod' = [prod EXCEPT !.owed = prod.owed \ {c}]
  BY ZenonT(60) DEF Seek
<1>4. cons' = [cons EXCEPT ![c] = r] /\ entry' = [entry EXCEPT ![cons[c].entry].cursor = s]
  BY ZenonT(60), <1>2 DEF SetCursor
<1>5. r.pc = "idle" /\ r.entry = cons[c].entry /\ r.cursor = s
  BY ZenonT(60), <1>1, <1>3 DEF ConsRec
<1> HIDE DEF r, s
<1>6. cons'[c] = r /\ \A d \in Consumer : d # c => cons'[d] = cons[d]
  BY ZenonT(60), <1>1, <1>4
<1>7. /\ prod'.owed = prod.owed \ {c} /\ prod'.active = prod.active /\ prod'.pc = prod.pc
      /\ prod'.todo = prod.todo /\ prod'.epoch = prod.epoch /\ prod'.valid = prod.valid
      /\ prod'.next_seq = prod.next_seq /\ prod'.may_overwrite = prod.may_overwrite
  BY ZenonT(60), <1>1, <1>3 DEF ProdRec
<1>8. ConsumerFrame(c)
  BY ZenonT(60), <1>3, <1>6, <1>7 DEF ConsumerFrame
<1>9. ReaderInformed(c)'
  BY ZenonT(60), <1>5, <1>6 DEF ReaderInformed
<1> QED BY ZenonT(60), <1>3, <1>4, <1>5, <1>6, <1>7, <1>8, <1>9

(* Every step keeps the window, the marks and what readers know.            *)
LEMMA WindowKept ==
    ASSUME IInv, WInv, [Next]_vars
    PROVE  WInv'
<1>1. Window /\ Latest /\ \A c \in Consumer : ReaderInformed(c)
  BY ZenonT(60) DEF WInv
<1>2. CASE \/ AllocateBegins \/ TryCloseGate \/ Reclaim \/ CommitSlot \/ PublishSeq \/ Abort
  <2>1. Window' /\ Latest'
    BY ZenonT(60), <1>1, <1>2, WindowWritten
  <2>2. cons' = cons
    BY Zenon, <1>2 DEF AllocateBegins, TryCloseGate, Reclaim, CommitSlot, PublishSeq, Abort
  <2>3. hdr.write_seq <= hdr'.write_seq /\ hdr'.write_seq \in Nat /\ hdr.write_seq \in Nat
    <3>1. hdr \in HdrRec /\ prod \in ProdRec
      BY ZenonT(60), TypeSplit DEF IInv
    <3>2. CASE PublishSeq
      <4>1. hdr.write_seq = prod.next_seq - 1 /\ hdr'.write_seq = prod.next_seq
        BY ZenonT(60), <1>1, <3>1, <3>2 DEF Window, PublishSeq, HdrRec
      <4> QED BY <3>1, <4>1, RingAssumption DEF HdrRec, ProdRec
    <3>3. CASE Reclaim
      BY SMTT(60), <3>1, <3>3, RingAssumption DEF HdrRec, Reclaim
    <3>4. CASE AllocateBegins \/ TryCloseGate \/ CommitSlot \/ Abort
      <4>1. hdr' = hdr
        BY Zenon, <3>4 DEF AllocateBegins, TryCloseGate, CommitSlot, Abort
      <4> QED BY <3>1, <4>1, RingAssumption DEF HdrRec
    <3> QED BY ZenonT(60), <1>2, <3>2, <3>3, <3>4
  <2>4. ASSUME NEW c \in Consumer PROVE ReaderInformed(c)'
    <3>1. cons[c].cursor \in Nat
      BY TypeSplit, RingAssumption DEF IInv, ConsRec
    <3>2. cons[c].cursor <= hdr.write_seq => cons[c].cursor <= hdr'.write_seq
      BY <2>3, <3>1
    <3> QED BY ZenonT(60), <1>1, <2>2, <3>2 DEF ReaderInformed
  <2> QED BY ZenonT(60), <2>1, <2>4 DEF WInv
<1>3. ASSUME NEW c \in Consumer, ConsumerFrame(c), ReaderInformed(c)' PROVE WInv'
  <2>1. Window' /\ Latest'
    <3>1. prod'.pc # "publish" \/ prod.pc = "publish"
      BY ZenonT(60), <1>3 DEF ConsumerFrame
    <3>2. prod'.pc = "reclaim" \/ prod.pc # "reclaim"
      BY ZenonT(60), <1>3 DEF ConsumerFrame
    <3> QED BY ZenonT(60), <1>1, <1>3, <3>1, <3>2, WindowSame DEF ConsumerFrame
  <2>2. ASSUME NEW d \in Consumer PROVE ReaderInformed(d)'
    BY ZenonT(60), <1>1, <1>3 DEF ConsumerFrame, ReaderInformed
  <2> QED BY ZenonT(60), <2>1, <2>2 DEF WInv
<1>4. ASSUME NEW c \in Consumer,
             \/ AttachBegins(c) \/ AttachStep(c) \/ Release(c) \/ Detached(c) \/ Seek(c)
             \/ ReceiveStep(c) \/ DropSample(c) \/ FindQuiet(c) \/ WatermarkVisible(c)
      PROVE  WInv'
  <2>1. ConsumerFrame(c) /\ ReaderInformed(c)'
    BY ZenonT(60), <1>1, <1>4, AttachInformed, ReceiveInformed, SeekFrame, DropFrame DEF AttachStep
  <2> QED BY ZenonT(60), <1>3, <2>1
<1>5. CASE \/ ScanEntry \/ CheckCursor \/ EvictStaleConsumers \/ Close
           \/ (\E p \in Killable : Kill(p)) \/ (\E c \in Consumer : HeartbeatExpires(c))
           \/ PollProducers \/ BrokerEvicts
  <2>1. Window' /\ Latest' /\ \A c \in Consumer : ReaderInformed(c)'
    BY ZenonT(60), <1>1, <1>5, OthersInformed
  <2> QED BY ZenonT(60), <2>1 DEF WInv
<1>6. CASE UNCHANGED vars
  BY ZenonT(60), <1>6 DEF vars, WInv, Window, ResidentWindow, Latest, ReaderInformed, Mine
<1> QED BY ZenonT(60), <1>2, <1>4, <1>5, <1>6 DEF Next, ProducerStep

(* An empty ring has an empty window.                                       *)
LEMMA WindowInit == Init => WInv
<1> SUFFICES ASSUME Init PROVE WInv
  BY ZenonT(60)
<1>1. /\ hdr.write_seq = 0 /\ hdr.reclaimed_seq = 0
      /\ \A i \in Slots : slot[i].state = "free"
      /\ \A c \in Consumer : cons[c].pc = "detached"
  BY ZenonT(60) DEF Init, NotAttached
<1>2. prod.next_seq = 1 /\ prod.pc = "idle"
  BY ZenonT(60), InitialProducer
<1> QED BY <1>1, <1>2 DEF WInv, Window, ResidentWindow, Latest, ReaderInformed

(* The window's invariant holds in every reachable state.                   *)
THEOREM WindowInductive == Spec => []WInv
<1>1. Spec => []IInv
  BY ZenonT(60), Inductive
<1>2. Init => WInv
  BY ZenonT(60), WindowInit
<1>3. IInv /\ WInv /\ [Next]_vars => WInv'
  BY ZenonT(60), WindowKept
<1> QED BY <1>1, <1>2, <1>3, PTL DEF Spec

(* For every ring: each sequence above reclaimed_seq and up to write_seq     *)
(* sits READY in its own slot, the message being reclaimed at this instant   *)
(* excepted, so a consumer that has read write_seq >= cursor finds its       *)
(* message or a later watermark (SampleMut::commit, Producer::acquire_slot). *)
THEOREM WindowStaysResident == Spec => []ResidentWindow
<1>1. WInv => ResidentWindow
  BY ZenonT(60) DEF WInv, Window
<1> QED BY <1>1, WindowInductive, PTL

(* For every ring, and under the weakest reading of the Relaxed watermark:   *)
(* a consumer whose pin met a recycled slot has already acquired a           *)
(* reclaimed_seq at or past its cursor, so try_next's next turn reports the  *)
(* gap instead of spinning.                                                  *)
THEOREM MispinAlwaysReported == Spec => []MispinReportsLag
<1>1. WInv => MispinReportsLag
  BY ZenonT(60) DEF WInv, ReaderInformed, MispinReportsLag
<1> QED BY <1>1, WindowInductive, PTL

-----------------------------------------------------------------------------
(* OverflowPolicy::Block.  A consumer between try_claim and release owns its *)
(* entry, and the entry's cursor is its own once activated.                  *)
EntryHeld(c) ==
    /\ cons[c].pc # "detached" => proc[c] = "alive"
    /\ cons[c].pc \notin {"detached", "claim", "leaving"} =>
          /\ entry[cons[c].entry].owner = c
          /\ entry[cons[c].entry].state # "empty"
          /\ cons[c].pc # "activate" => entry[cons[c].entry].cursor = cons[c].cursor

(* The entries the running refresh_active has found or has still to scan.    *)
Seen == prod.active \cup (IF prod.pc = "scan" THEN prod.todo ELSE {})

(* A list whose epoch stands has every attached consumer's entry on it; a    *)
(* consumer the call owes its consent is still attached, and it is on the    *)
(* list, yet to be looked at, or past the message in the slot.               *)
Consulted(c) ==
    /\ prod.valid /\ prod.epoch = hdr.epoch /\ Attached(c) => cons[c].entry \in Seen
    /\ c \in prod.owed =>
          /\ Attached(c)
          /\ prod.pc = "scan" => cons[c].entry \in Seen
          /\ prod.pc = "check" /\ ~prod.may_overwrite =>
                cons[c].entry \in prod.todo \/ cons[c].cursor > slot[Mine].seq

BInv == /\ prod.epoch <= hdr.epoch
        /\ \A c \in Consumer : EntryHeld(c) /\ Consulted(c)

(* A consumer's step touches no entry another consumer holds, takes nobody   *)
(* into the producer's debt, and leaves the producer and the processes alone.*)
EntryFrame(c) ==
    /\ \A e \in Entries :
          entry[e].owner # c /\ entry[e].state # "empty" => entry'[e] = entry[e]
    /\ prod'.owed \subseteq prod.owed
    /\ prod'.active = prod.active /\ prod'.todo = prod.todo
    /\ prod'.epoch = prod.epoch /\ prod'.valid = prod.valid
    /\ prod'.may_overwrite = prod.may_overwrite
    /\ hdr.epoch <= hdr'.epoch /\ hdr'.epoch \in Nat
    /\ proc' = proc

(* The types these arguments use.                                           *)
LEMMA TableTypes ==
    ASSUME IInv
    PROVE  /\ cons \in [Consumer -> ConsRec] /\ entry \in [Entries -> EntryRec]
           /\ prod \in ProdRec /\ hdr \in HdrRec /\ proc \in ProcType
           /\ prod.epoch \in Nat /\ hdr.epoch \in Nat /\ Mine \in Slots
           /\ \A i \in Slots : slot[i].seq \in Nat
           /\ \A c \in Consumer : cons[c] \in ConsRec /\ cons[c].entry \in Entries
                                  /\ cons[c].cursor \in Nat
<1>1. /\ cons \in [Consumer -> ConsRec] /\ entry \in [Entries -> EntryRec]
      /\ prod \in ProdRec /\ hdr \in HdrRec /\ proc \in ProcType
  BY ZenonT(60), TypeSplit DEF IInv
<1>2. Mine \in Slots /\ \A i \in Slots : slot[i].seq \in Nat
  BY ZenonT(60), Numbers
<1> QED BY ZenonT(60), SMTT(60), <1>1, <1>2, RingAssumption DEF ConsRec, ProdRec, HdrRec

(* What another consumer's step leaves of a consumer's standing.            *)
LEMMA StandingKept ==
    ASSUME IInv, BInv, NEW c \in Consumer, NEW d \in Consumer, d # c,
           ConsumerFrame(c), EntryFrame(c)
    PROVE  EntryHeld(d)' /\ Consulted(d)'
<1>1. /\ cons[d].entry \in Entries /\ prod.epoch \in Nat /\ hdr.epoch \in Nat
      /\ prod.epoch <= hdr.epoch /\ Mine \in Slots
  BY ZenonT(60), TableTypes DEF BInv
<1>2. EntryHeld(d) /\ Consulted(d) /\ cons'[d] = cons[d] /\ proc' = proc
  BY ZenonT(60) DEF BInv, ConsumerFrame, EntryFrame
<1>3. EntryHeld(d)'
  BY ZenonT(60), <1>1, <1>2 DEF EntryHeld, EntryFrame
<1>4. Seen' = Seen /\ Attached(d)' = Attached(d) /\ slot'[Mine'].seq = slot[Mine].seq
  BY ZenonT(60), <1>1, <1>2 DEF Seen, Attached, EntryFrame, ConsumerFrame, Mine
<1>5. prod'.epoch = hdr'.epoch => prod.epoch = hdr.epoch
  BY <1>1 DEF EntryFrame
<1>6. d \in prod'.owed => d \in prod.owed
  BY ZenonT(60) DEF EntryFrame
<1>7. /\ prod'.todo = prod.todo /\ prod'.valid = prod.valid /\ prod'.pc = prod.pc
      /\ prod'.may_overwrite = prod.may_overwrite
  BY ZenonT(60) DEF EntryFrame, ConsumerFrame
<1> QED BY ZenonT(60), <1>2, <1>3, <1>4, <1>5, <1>6, <1>7 DEF Consulted

(* A consumer's step keeps the invariant if it keeps its own part.          *)
LEMMA OwnPart ==
    ASSUME IInv, BInv, NEW c \in Consumer, ConsumerFrame(c), EntryFrame(c),
           EntryHeld(c)', Consulted(c)'
    PROVE  BInv'
<1>1. prod'.epoch <= hdr'.epoch
  BY TableTypes DEF BInv, EntryFrame
<1>2. ASSUME NEW d \in Consumer PROVE EntryHeld(d)' /\ Consulted(d)'
  BY ZenonT(60), StandingKept
<1> QED BY ZenonT(60), <1>1, <1>2 DEF BInv

(* Attached consumers that do not seek only move their cursor up.           *)
LEMMA StayAttached ==
    ASSUME IInv, BInv, NEW c \in Consumer, ConsumerFrame(c), Proceeds(c)
    PROVE  BInv'
<1> DEFINE x == cons[c].entry
<1>1. /\ x \in Entries /\ cons[c].cursor \in Nat /\ hdr.epoch \in Nat /\ prod.epoch \in Nat
      /\ entry \in [Entries -> EntryRec] /\ Mine \in Slots /\ slot[Mine].seq \in Nat
  BY ZenonT(60), TableTypes
<1>2. EntryHeld(c) /\ Consulted(c)
  BY ZenonT(60) DEF BInv
<1>3. /\ cons[c].pc \notin {"detached", "claim", "activate", "leaving"}
      /\ cons'[c].pc \notin {"detached", "claim", "activate", "leaving"}
  BY ZenonT(60) DEF Proceeds, ServedPc, AttachPc
<1>4. entry[x].owner = c /\ entry[x].state # "empty" /\ entry[x].cursor = cons[c].cursor
      /\ proc[c] = "alive"
  BY ZenonT(60), <1>2, <1>3 DEF EntryHeld
<1>5. /\ entry'[x].owner = c /\ entry'[x].state # "empty" /\ entry'[x].cursor = cons'[c].cursor
      /\ \A e \in Entries : e # x => entry'[e] = entry[e]
      /\ cons'[c].cursor \in Nat /\ cons'[c].cursor >= cons[c].cursor
  <2>1. CASE entry' = entry /\ cons'[c].cursor = cons[c].cursor
    BY ZenonT(60), SMTT(60), SMTT(60), <1>1, <1>4, <2>1
  <2>2. CASE /\ entry' = [entry EXCEPT ![x].cursor = cons'[c].cursor]
             /\ cons'[c].cursor \in Nat /\ cons'[c].cursor >= cons[c].cursor
    BY ZenonT(60), <1>1, <1>4, <2>2 DEF EntryRec
  <2> QED BY ZenonT(60), <2>1, <2>2 DEF Proceeds
<1>6. EntryFrame(c)
  BY SMTT(60), <1>1, <1>4, <1>5 DEF EntryFrame, Proceeds
<1>7. EntryHeld(c)'
  BY ZenonT(60), <1>3, <1>4, <1>5 DEF EntryHeld, Proceeds
<1>8. /\ Seen' = Seen /\ slot'[Mine'].seq = slot[Mine].seq
      /\ Attached(c) /\ Attached(c)'
  BY ZenonT(60), <1>1, <1>4 DEF Seen, Attached, ConsumerFrame, Mine, ServedPc, Proceeds
<1>9. cons[c].cursor > slot[Mine].seq => cons'[c].cursor > slot[Mine].seq
  BY ZenonT(60), SMTT(60), <1>1, <1>5
<1>10. Consulted(c)'
  BY ZenonT(60), <1>2, <1>8, <1>9 DEF Consulted, Proceeds
<1> QED BY ZenonT(60), <1>6, <1>7, <1>10, OwnPart

(* Receiving, dropping and watching the producer: the cursor never goes back.*)
LEMMA ReceiveConsults ==
    ASSUME IInv, WInv, BInv, NEW c \in Consumer,
           \/ ReceiveStep(c) \/ DropSample(c) \/ FindQuiet(c) \/ WatermarkVisible(c)
           \/ ClampToOldest(c)
    PROVE  BInv'
<1>1. CASE DropSample(c)
  <2>1. cons' = cons /\ prod' = prod /\ hdr' = hdr /\ proc' = proc /\ entry' = entry
    BY ZenonT(60), <1>1 DEF DropSample
  <2>2. ConsumerFrame(c)
    BY ZenonT(60), <1>1, DropFrame DEF WInv
  <2>3. EntryFrame(c)
    BY SMTT(60), <2>1, TableTypes DEF EntryFrame
  <2>4. EntryHeld(c)'
    BY ZenonT(60), <2>1 DEF BInv, EntryHeld
  <2>5. slot'[Mine'].seq = slot[Mine].seq /\ Seen' = Seen /\ Attached(c)' = Attached(c)
    BY ZenonT(60), <2>1, <2>2, TableTypes DEF Mine, ConsumerFrame, Seen, Attached
  <2>6. Consulted(c)'
    BY ZenonT(60), <2>1, <2>5 DEF BInv, Consulted
  <2> QED BY ZenonT(60), <2>2, <2>3, <2>4, <2>6, OwnPart
<1>2. CASE \/ ReceiveStep(c) \/ FindQuiet(c) \/ WatermarkVisible(c) \/ ClampToOldest(c)
  <2>1. ConsumerFrame(c) /\ Proceeds(c)
    BY ZenonT(60), <1>2, ReceiveInformed DEF WInv
  <2> QED BY ZenonT(60), <2>1, StayAttached
<1> QED BY ZenonT(60), <1>1, <1>2

(* A consumer that seeks, perhaps back, is owed nothing by the running call. *)
LEMMA SeekConsults ==
    ASSUME IInv, BInv, NEW c \in Consumer, Seek(c)
    PROVE  BInv'
<1> DEFINE x == cons[c].entry
<1>1. /\ x \in Entries /\ entry \in [Entries -> EntryRec] /\ hdr.epoch \in Nat
  BY ZenonT(60), TableTypes
<1>2. EntryHeld(c) /\ Consulted(c)
  BY ZenonT(60) DEF BInv
<1>3. entry[x].owner = c /\ entry[x].state # "empty" /\ proc[c] = "alive"
  BY ZenonT(60), <1>2, SeekFrame DEF EntryHeld
<1>4. /\ entry'[x].owner = c /\ entry'[x].state # "empty" /\ entry'[x].cursor = cons'[c].cursor
      /\ \A e \in Entries : e # x => entry'[e] = entry[e]
  <2>1. entry' = [entry EXCEPT ![x].cursor = cons'[c].cursor]
    BY ZenonT(60), SeekFrame
  <2> QED BY ZenonT(60), SMTT(60), <1>1, <1>3, <2>1 DEF EntryRec
<1>5. EntryFrame(c)
  <2>1. /\ prod'.owed = prod.owed \ {c} /\ prod'.active = prod.active /\ prod'.todo = prod.todo
        /\ prod'.epoch = prod.epoch /\ prod'.valid = prod.valid
        /\ prod'.may_overwrite = prod.may_overwrite /\ hdr' = hdr /\ proc' = proc
    BY ZenonT(60), SeekFrame
  <2>2. hdr.epoch <= hdr'.epoch /\ hdr'.epoch \in Nat
    BY SMTT(60), <1>1, <2>1
  <2>3. prod'.owed \subseteq prod.owed
    BY ZenonT(60), <2>1
  <2>4. \A e \in Entries : entry[e].owner # c /\ entry[e].state # "empty" => entry'[e] = entry[e]
    BY ZenonT(60), <1>3, <1>4
  <2> QED BY ZenonT(60), <2>1, <2>2, <2>3, <2>4 DEF EntryFrame
<1>6. EntryHeld(c)'
  BY ZenonT(60), <1>3, <1>4, SeekFrame DEF EntryHeld
<1>7. Seen' = Seen /\ Attached(c)' = Attached(c)
  BY ZenonT(60), <1>3, SeekFrame DEF Seen, Attached, ConsumerFrame, AttachPc
<1>8. Consulted(c)'
  BY ZenonT(60), <1>2, <1>7, SeekFrame DEF Consulted
<1> QED BY ZenonT(60), <1>5, <1>6, <1>8, SeekFrame, OwnPart

(* Attaching and detaching: a claimed entry was nobody's, and the epoch      *)
(* moves before the producer can owe the newcomer anything.                  *)
LEMMA AttachConsults ==
    ASSUME IInv, BInv, NEW c \in Consumer,
           \/ AttachBegins(c) \/ ClaimEntry(c) \/ Activate(c) \/ Announce(c)
           \/ Release(c) \/ Detached(c)
    PROVE  BInv'
<1>1. /\ cons \in [Consumer -> ConsRec] /\ cons[c] \in ConsRec /\ hdr \in HdrRec
      /\ cons[c].entry \in Entries /\ entry \in [Entries -> EntryRec] /\ prod \in ProdRec
      /\ hdr.epoch \in Nat /\ prod.epoch \in Nat
  BY ZenonT(60), TableTypes
<1>2. ConsumerFrame(c)
  BY ZenonT(60), AttachInformed
<1>3. \A p \in ConsPc : /\ Go(c, p) \in ConsRec /\ Go(c, p).pc = p
                        /\ Go(c, p).cursor = cons[c].cursor /\ Go(c, p).entry = cons[c].entry
  BY ZenonT(60), <1>1 DEF Go, ConsRec
<1>4. {"claim", "activate", "announce", "clamp", "idle", "leaving"} \subseteq ConsPc
  BY ZenonT(60) DEF ConsPc, AttachPc
<1>5. EntryHeld(c) /\ Consulted(c) /\ prod.epoch <= hdr.epoch
  BY ZenonT(60) DEF BInv
<1>6. NotAttached.pc = "detached"
  BY ZenonT(60) DEF NotAttached
(* A consumer that is not attached before or after the step is owed nothing. *)
<1>7. ASSUME cons[c].pc \in AttachPc, cons'[c].pc \in AttachPc, prod' = prod, hdr' = hdr, proc' = proc,
             EntryHeld(c)',
             \A e \in Entries : entry[e].owner # c /\ entry[e].state # "empty" => entry'[e] = entry[e]
      PROVE  BInv'
  <2>1. EntryFrame(c)
    BY SMTT(60), <1>1, <1>7 DEF EntryFrame
  <2>2. ~Attached(c) /\ ~Attached(c)'
    BY ZenonT(60), <1>7 DEF Attached
  <2>3. Consulted(c)'
    BY ZenonT(60), <1>5, <1>7, <2>2 DEF Consulted
  <2> QED BY ZenonT(60), <1>2, <1>7, <2>1, <2>3, OwnPart
<1>8. CASE AttachBegins(c)
  <2>1. PICK x \in ReclaimedReads(c), start \in {1, MaxSeq + 1} :
          cons' = [cons EXCEPT ![c] = [Go(c, "claim") EXCEPT
                       !.cursor = Resolve(start, x, hdr.write_seq),
                       !.view = Later(x, Acquired(c, hdr.mark)), !.out = "none"]]
    BY Zenon, <1>8 DEF AttachBegins
  <2> DEFINE r == [Go(c, "claim") EXCEPT !.cursor = Resolve(start, x, hdr.write_seq),
                       !.view = Later(x, Acquired(c, hdr.mark)), !.out = "none"]
  <2>2. r.pc = "claim"
    BY <1>3, <1>4 DEF ConsRec
  <2>3. cons'[c] = r
    BY ZenonT(60), <1>1, <2>1
  <2> HIDE DEF r
  <2>4. cons[c].pc = "detached" /\ proc[c] = "alive" /\ UNCHANGED <<entry, prod, hdr, proc>>
    BY ZenonT(60), <1>8 DEF AttachBegins
  <2>5. EntryHeld(c)'
    BY ZenonT(60), <2>2, <2>3, <2>4 DEF EntryHeld
  <2>6. cons[c].pc \in AttachPc /\ cons'[c].pc \in AttachPc
    BY ZenonT(60), <2>2, <2>3, <2>4 DEF AttachPc
  <2> QED BY ZenonT(60), <1>7, <2>4, <2>5, <2>6
<1>9. CASE ClaimEntry(c)
  <2>1. cons[c].pc = "claim" /\ proc[c] = "alive" /\ UNCHANGED <<prod, hdr, proc>>
    BY ZenonT(60), <1>9 DEF ClaimEntry
  <2>2. CASE cons' = [cons EXCEPT ![c] = NotAttached] /\ UNCHANGED entry
    <3>1. cons'[c] = NotAttached
      BY ZenonT(60), <1>1, <2>2
    <3>2. EntryHeld(c)'
      BY ZenonT(60), <1>6, <3>1 DEF EntryHeld
    <3>3. cons[c].pc \in AttachPc /\ cons'[c].pc \in AttachPc
      BY ZenonT(60), <1>6, <2>1, <3>1 DEF AttachPc
    <3> QED BY ZenonT(60), <1>7, <2>1, <2>2, <3>2, <3>3
  <2>3. ASSUME NEW e \in Entries, entry[e].state = "empty",
               entry' = [entry EXCEPT ![e] = [state |-> "claiming", cursor |-> 0, owner |-> c]],
               cons' = [cons EXCEPT ![c] = [Go(c, "activate") EXCEPT !.entry = e]]
        PROVE  BInv'
    <3> DEFINE r == [Go(c, "activate") EXCEPT !.entry = e]
    <3>1. r.pc = "activate" /\ r.entry = e
      BY <1>3, <1>4 DEF ConsRec
    <3>2. cons'[c] = r
      BY ZenonT(60), <1>1, <2>3
    <3> HIDE DEF r
    <3>3. entry'[e].owner = c /\ entry'[e].state = "claiming" /\ \A f \in Entries : f # e => entry'[f] = entry[f]
      BY ZenonT(60), <1>1, <2>3
    <3>4. EntryHeld(c)'
      BY ZenonT(60), <2>1, <3>1, <3>2, <3>3 DEF EntryHeld
    <3>5. cons[c].pc \in AttachPc /\ cons'[c].pc \in AttachPc
      BY ZenonT(60), <2>1, <3>1, <3>2 DEF AttachPc
    <3>6. \A f \in Entries : entry[f].owner # c /\ entry[f].state # "empty" => entry'[f] = entry[f]
      BY ZenonT(60), <2>3, <3>3
    <3> QED BY ZenonT(60), <1>7, <2>1, <3>4, <3>5, <3>6
  <2> QED BY ZenonT(60), <1>9, <2>2, <2>3 DEF ClaimEntry
<1>10. CASE Activate(c)
  <2> DEFINE x == cons[c].entry
  <2>1. /\ cons[c].pc = "activate" /\ UNCHANGED <<prod, hdr, proc>> /\ proc[c] = "alive"
        /\ entry' = [entry EXCEPT ![x].state = "active", ![x].cursor = cons[c].cursor]
        /\ cons' = [cons EXCEPT ![c] = Go(c, "announce")]
    BY ZenonT(60), <1>10 DEF Activate
  <2>2. cons'[c] = Go(c, "announce")
    BY ZenonT(60), <1>1, <2>1
  <2>3. cons'[c].pc = "announce" /\ cons'[c].entry = x /\ cons'[c].cursor = cons[c].cursor
    BY ZenonT(60), <1>3, <1>4, <2>2
  <2>4. entry[x].owner = c
    BY ZenonT(60), <1>5, <2>1 DEF EntryHeld
  <2>5. /\ entry'[x].owner = c /\ entry'[x].state = "active" /\ entry'[x].cursor = cons[c].cursor
        /\ \A f \in Entries : f # x => entry'[f] = entry[f]
    BY ZenonT(60), <1>1, <2>1, <2>4 DEF EntryRec
  <2>6. EntryHeld(c)'
    BY Zenon, <2>1, <2>3, <2>5 DEF EntryHeld
  <2>7. cons[c].pc \in AttachPc /\ cons'[c].pc \in AttachPc
    BY ZenonT(60), <2>1, <2>3 DEF AttachPc
  <2>8. \A f \in Entries : entry[f].owner # c /\ entry[f].state # "empty" => entry'[f] = entry[f]
    BY ZenonT(60), <2>4, <2>5
  <2> QED BY ZenonT(60), <1>7, <2>1, <2>6, <2>7, <2>8
<1>11. CASE Announce(c) \/ Detached(c)
  <2>1. /\ UNCHANGED <<entry, prod, proc>> /\ hdr' = [hdr EXCEPT !.epoch = @ + 1]
        /\ cons[c].pc \in {"announce", "leaving"} /\ proc[c] = "alive"
        /\ \/ cons[c].pc = "announce" /\ cons' = [cons EXCEPT ![c] = Go(c, "clamp")]
           \/ cons' = [cons EXCEPT ![c] = NotAttached]
    BY ZenonT(60), <1>11 DEF Announce, Detached
  <2>2. hdr'.epoch = hdr.epoch + 1
    BY ZenonT(60), <1>1, <2>1 DEF HdrRec
  <2>3. EntryFrame(c)
    BY <1>1, <2>1, <2>2 DEF EntryFrame
  <2>4. prod'.epoch # hdr'.epoch
    BY <1>1, <1>5, <2>1, <2>2
  <2>5. ~Attached(c)
    BY ZenonT(60), <2>1 DEF Attached, AttachPc
  <2>6. c \notin prod'.owed
    BY ZenonT(60), <1>5, <2>1, <2>5 DEF Consulted
  <2>7. Consulted(c)'
    BY ZenonT(60), <2>4, <2>6 DEF Consulted
  <2>8. EntryHeld(c)'
    <3>1. CASE cons[c].pc = "announce" /\ cons' = [cons EXCEPT ![c] = Go(c, "clamp")]
      <4>1. cons'[c].pc = "clamp" /\ cons'[c].entry = cons[c].entry /\ cons'[c].cursor = cons[c].cursor
        BY ZenonT(60), <1>1, <1>3, <1>4, <3>1
      <4> QED BY ZenonT(60), <1>5, <2>1, <3>1, <4>1 DEF EntryHeld
    <3>2. CASE cons' = [cons EXCEPT ![c] = NotAttached]
      <4>1. cons'[c].pc = "detached"
        BY ZenonT(60), <1>1, <1>6, <3>2
      <4> QED BY ZenonT(60), <4>1 DEF EntryHeld
    <3> QED BY ZenonT(60), <2>1, <3>1, <3>2
  <2> QED BY ZenonT(60), <1>2, <2>3, <2>7, <2>8, OwnPart
<1>12. CASE Release(c)
  <2> DEFINE x == cons[c].entry
             gone == [state |-> "empty", cursor |-> 0, owner |-> Nobody]
  <2>1. /\ cons[c].pc = "idle" /\ UNCHANGED <<hdr, proc>> /\ proc[c] = "alive"
        /\ entry' = [entry EXCEPT ![x] = gone] /\ cons' = [cons EXCEPT ![c] = Go(c, "leaving")]
        /\ prod' = [prod EXCEPT !.owed = @ \ {c}]
    BY ZenonT(60), <1>12 DEF Release
  <2>2. cons'[c].pc = "leaving"
    BY ZenonT(60), <1>1, <1>3, <1>4, <2>1
  <2>3. entry[x].owner = c
    BY ZenonT(60), <1>5, <2>1 DEF EntryHeld
  <2>4. \A f \in Entries : f # x => entry'[f] = entry[f]
    BY ZenonT(60), <1>1, <2>1
  <2>5. /\ prod'.owed = prod.owed \ {c} /\ prod'.active = prod.active /\ prod'.todo = prod.todo
        /\ prod'.epoch = prod.epoch /\ prod'.valid = prod.valid
        /\ prod'.may_overwrite = prod.may_overwrite
    BY ZenonT(60), <1>1, <2>1 DEF ProdRec
  <2>6. EntryFrame(c)
    BY SMTT(60), <1>1, <2>1, <2>3, <2>4, <2>5 DEF EntryFrame
  <2>7. EntryHeld(c)'
    BY ZenonT(60), <2>1, <2>2 DEF EntryHeld
  <2>8. ~Attached(c)'
    BY ZenonT(60), <2>2 DEF Attached
  <2>9. Consulted(c)'
    BY ZenonT(60), <2>5, <2>8 DEF Consulted
  <2> QED BY ZenonT(60), <1>2, <2>6, <2>7, <2>9, OwnPart
<1> QED BY ZenonT(60), <1>8, <1>9, <1>10, <1>11, <1>12

(* Eviction spares every entry whose consumer lives.                        *)
LEMMA EvictionSpares ==
    ASSUME IInv, NEW c \in Consumer, EntryHeld(c), cons' = cons, proc' = proc,
           entry' = Evict({e \in Entries : Evictable(e)})
    PROVE  EntryHeld(c)'
<1>1. cons[c].entry \in Entries
  BY ZenonT(60), TableTypes
<1>2. ASSUME cons[c].pc \notin {"detached", "claim", "leaving"}
      PROVE  entry'[cons[c].entry] = entry[cons[c].entry]
  <2>1. entry[cons[c].entry].owner = c /\ proc[c] = "alive"
    BY ZenonT(60), <1>2 DEF EntryHeld
  <2>2. ~Evictable(cons[c].entry)
    BY ZenonT(60), <2>1 DEF Evictable
  <2> QED BY ZenonT(60), <1>1, <2>2 DEF Evict
<1> QED BY ZenonT(60), <1>2 DEF EntryHeld

(* refresh_active: a standing list is complete, any other is scanned anew.  *)
LEMMA RefreshConsults ==
    ASSUME IInv, BInv, NEW v \in BOOLEAN, v => prod.valid, NEW b \in BOOLEAN,
           RefreshActive(v, b), prod.pc # "scan",
           slot' = slot, hdr' = hdr, cons' = cons, proc' = proc,
           \A c \in Consumer : EntryHeld(c)'
    PROVE  BInv'
<1>1. prod \in ProdRec /\ hdr.epoch \in Nat /\ \A c \in Consumer : cons[c].entry \in Entries
  BY ZenonT(60), TableTypes
<1> DEFINE cached == v /\ prod.epoch = hdr.epoch
<1>2. /\ prod'.pc = IF cached THEN "check" ELSE "scan"
      /\ prod'.active = IF cached THEN prod.active ELSE {}
      /\ prod'.todo = IF cached THEN prod.active ELSE Entries
      /\ prod'.epoch = hdr.epoch
      /\ prod'.owed = {c \in Consumer : Attached(c)}
  BY ZenonT(60), <1>1 DEF RefreshActive, ProdRec
<1>3. ASSUME NEW c \in Consumer PROVE Consulted(c)'
  <2>1. Attached(c)' = Attached(c)
    BY ZenonT(60) DEF Attached
  <2>2. CASE cached
    <3>1. Attached(c) => cons[c].entry \in prod.active
      BY ZenonT(60), <2>2 DEF BInv, Consulted, Seen
    <3>2. Seen' = prod.active
      BY ZenonT(60), <1>2, <2>2 DEF Seen
    <3> QED BY ZenonT(60), <1>2, <2>1, <2>2, <3>1, <3>2 DEF Consulted
  <2>3. CASE ~cached
    <3>1. Seen' = Entries
      BY ZenonT(60), <1>2, <2>3 DEF Seen
    <3> QED BY ZenonT(60), <1>1, <1>2, <2>1, <2>3, <3>1 DEF Consulted
  <2> QED BY ZenonT(60), <2>2, <2>3
<1>4. prod'.epoch <= hdr'.epoch
  BY <1>1, <1>2
<1> QED BY ZenonT(60), <1>3, <1>4 DEF BInv

(* Steps that leave try_allocate's consultation, or are outside it.         *)
LEMMA MovesOn ==
    ASSUME IInv, BInv, prod'.active = prod.active, prod'.epoch = prod.epoch,
           prod'.valid = prod.valid, prod'.owed \subseteq prod.owed,
           prod.pc # "scan", prod'.pc \notin {"scan", "check"},
           hdr'.epoch = hdr.epoch, cons' = cons, proc' = proc,
           \A c \in Consumer : EntryHeld(c)'
    PROVE  BInv'
<1>1. Seen' = Seen
  BY ZenonT(60) DEF Seen
<1>2. ASSUME NEW c \in Consumer PROVE Consulted(c)'
  <2>1. Attached(c)' = Attached(c)
    BY ZenonT(60) DEF Attached
  <2> QED BY ZenonT(60), <1>1, <2>1 DEF BInv, Consulted
<1> QED BY ZenonT(60), <1>2 DEF BInv

(* The producer consults every entry it has found occupied.                 *)
LEMMA ProducerConsults ==
    ASSUME IInv, BInv,
           \/ AllocateBegins \/ ScanEntry \/ CheckCursor \/ TryCloseGate \/ Reclaim
           \/ EvictStaleConsumers \/ CommitSlot \/ PublishSeq \/ Abort
    PROVE  BInv'
<1>1. /\ prod \in ProdRec /\ hdr \in HdrRec /\ hdr.epoch \in Nat /\ prod.epoch \in Nat
      /\ \A c \in Consumer : cons[c].entry \in Entries
  BY ZenonT(60), TableTypes
<1>2. \A c \in Consumer : EntryHeld(c) /\ Consulted(c)
  BY ZenonT(60) DEF BInv
<1>3. cons' = cons /\ proc' = proc
  BY Zenon DEF AllocateBegins, ScanEntry, CheckCursor, TryCloseGate, Reclaim, EvictStaleConsumers,
         CommitSlot, PublishSeq, Abort
<1>4. \A c \in Consumer : EntryHeld(c)'
  <2>1. CASE EvictStaleConsumers
    <3>1. entry' = Evict({e \in Entries : Evictable(e)})
      BY ZenonT(60), <2>1 DEF EvictStaleConsumers
    <3> QED BY ZenonT(60), <1>2, <1>3, <3>1, EvictionSpares
  <2>2. CASE ~EvictStaleConsumers
    <3>1. entry' = entry
      BY ZenonT(60), <2>2 DEF AllocateBegins, ScanEntry, CheckCursor, TryCloseGate, Reclaim,
                  CommitSlot, PublishSeq, Abort
    <3> QED BY ZenonT(60), <1>2, <1>3, <3>1 DEF EntryHeld
  <2> QED BY ZenonT(60), <2>1, <2>2
<1>5. hdr'.epoch = hdr.epoch
  BY Zenon, <1>1 DEF AllocateBegins, ScanEntry, CheckCursor, TryCloseGate, Reclaim,
              EvictStaleConsumers, CommitSlot, PublishSeq, Abort, HdrRec
<1>6. ASSUME prod.pc # "scan", prod'.pc \notin {"scan", "check"}, prod'.active = prod.active,
             prod'.epoch = prod.epoch, prod'.valid = prod.valid, prod'.owed \subseteq prod.owed
      PROVE  BInv'
  BY ZenonT(60), <1>3, <1>4, <1>5, <1>6, MovesOn
<1>7. CASE AllocateBegins
  <2>1. prod.pc = "idle" /\ hdr' = hdr
    BY ZenonT(60), <1>7 DEF AllocateBegins
  <2>2. CASE prod' = [prod EXCEPT !.pc = "writing"]
    BY ZenonT(60), <1>1, <1>6, <2>1, <2>2 DEF ProdRec
  <2>3. CASE RefreshActive(prod.valid, FALSE) /\ UNCHANGED slot
    <3>1. prod.valid \in BOOLEAN
      BY ZenonT(60), <1>1 DEF ProdRec
    <3> QED BY Zenon, <1>3, <1>4, <2>1, <2>3, <3>1, RefreshConsults
  <2> QED BY Zenon, <1>7, <2>2, <2>3 DEF AllocateBegins
<1>8. CASE EvictStaleConsumers
  <2>1. prod.pc = "evict" /\ hdr' = hdr /\ slot' = slot
    BY ZenonT(60), <1>8 DEF EvictStaleConsumers
  <2>2. CASE prod' = [prod EXCEPT !.pc = "idle"]
    BY ZenonT(60), <1>1, <1>6, <2>1, <2>2 DEF ProdRec
  <2>3. CASE RefreshActive(FALSE, TRUE)
    BY Zenon, <1>3, <1>4, <2>1, <2>3, RefreshConsults
  <2> QED BY Zenon, <1>8, <2>2, <2>3 DEF EvictStaleConsumers
<1>9. CASE Reclaim \/ CommitSlot \/ PublishSeq \/ Abort
  <2>1. /\ prod.pc \in {"reclaim", "writing", "publish"}
        /\ \/ prod' = [prod EXCEPT !.pc = "writing"] \/ prod' = [prod EXCEPT !.pc = "publish"]
           \/ prod' = [prod EXCEPT !.pc = "idle", !.next_seq = @ + 1]
           \/ prod' = [prod EXCEPT !.pc = "idle"]
    BY ZenonT(60), <1>9 DEF Reclaim, CommitSlot, PublishSeq, Abort
  <2>2. /\ prod'.pc \notin {"scan", "check"} /\ prod'.active = prod.active
        /\ prod'.epoch = prod.epoch /\ prod'.valid = prod.valid /\ prod'.owed = prod.owed
    BY ZenonT(60), <1>1, <2>1 DEF ProdRec
  <2> QED BY ZenonT(60), <1>6, <2>1, <2>2
<1>10. ASSUME AcquireFails, prod.pc = "check" PROVE BInv'
  <2>1. /\ prod'.pc \notin {"scan", "check"} /\ prod'.active = prod.active
        /\ prod'.epoch = prod.epoch /\ prod'.valid = prod.valid /\ prod'.owed = {}
    BY ZenonT(60), <1>1, <1>10 DEF ProdRec, AcquireFails
  <2> QED BY ZenonT(60), <1>6, <1>10, <2>1
<1>11. CASE TryCloseGate
  <2>1. prod.pc = "check"
    BY ZenonT(60), <1>11 DEF TryCloseGate
  <2>2. CASE prod' = [prod EXCEPT !.pc = "reclaim", !.retried = FALSE, !.owed = {}]
    <3>1. /\ prod'.pc \notin {"scan", "check"} /\ prod'.active = prod.active
          /\ prod'.epoch = prod.epoch /\ prod'.valid = prod.valid /\ prod'.owed = {}
      BY ZenonT(60), <1>1, <2>2 DEF ProdRec
    <3> QED BY ZenonT(60), <1>6, <2>1, <3>1
  <2> QED BY ZenonT(60), <1>10, <1>11, <2>1, <2>2 DEF TryCloseGate
<1>12. CASE ScanEntry
  <2>1. PICK e \in prod.todo :
           LET active == IF is_occupied(e) THEN prod.active \cup {e} ELSE prod.active
               rest   == prod.todo \ {e}
           IN  prod' = [prod EXCEPT !.active = active,
                                    !.pc = IF rest = {} THEN "check" ELSE "scan",
                                    !.todo = IF rest = {} THEN active ELSE rest]
    BY ZenonT(60), <1>12 DEF ScanEntry
  <2> DEFINE active == IF is_occupied(e) THEN prod.active \cup {e} ELSE prod.active
             rest   == prod.todo \ {e}
  <2>2. /\ prod.pc = "scan" /\ hdr' = hdr /\ slot' = slot
    BY Zenon, <1>12 DEF ScanEntry
  <2>3. /\ prod'.active = active /\ prod'.pc = IF rest = {} THEN "check" ELSE "scan"
        /\ prod'.todo = IF rest = {} THEN active ELSE rest
        /\ prod'.epoch = prod.epoch /\ prod'.valid = prod.valid /\ prod'.owed = prod.owed
    BY ZenonT(60), <1>1, <2>1 DEF ProdRec
  <2>4. Seen = prod.active \cup prod.todo /\ Seen' = active \cup rest
    BY ZenonT(60), <2>2, <2>3 DEF Seen
  <2>5. ASSUME NEW c \in Consumer PROVE Consulted(c)'
    <3>1. Attached(c)' = Attached(c)
      BY ZenonT(60), <1>3 DEF Attached
    <3>2. ASSUME Attached(c), cons[c].entry \in Seen PROVE cons[c].entry \in Seen'
      <4>1. cons[c].pc \notin {"detached", "claim", "leaving"}
        BY ZenonT(60), <3>2 DEF Attached, AttachPc
      <4>2. is_occupied(cons[c].entry)
        <5>1. entry[cons[c].entry].state # "empty"
          BY ZenonT(60), <1>2, <4>1 DEF EntryHeld
        <5>2. entry[cons[c].entry] \in EntryRec
          BY ZenonT(60), <1>1, TableTypes
        <5> QED BY ZenonT(60), <5>1, <5>2 DEF is_occupied, EntryRec
      <4> QED BY ZenonT(60), <2>4, <3>2, <4>2
    <3>3. prod'.pc = "check" => Seen' = prod'.todo
      BY ZenonT(60), <2>3, <2>4
    <3>4. c \in prod.owed => Attached(c) /\ cons[c].entry \in Seen
      BY ZenonT(60), <1>2, <2>2 DEF Consulted
    <3>5. prod'.valid /\ prod'.epoch = hdr'.epoch /\ Attached(c)' => cons[c].entry \in Seen'
      BY Zenon, <1>2, <2>2, <2>3, <3>1, <3>2 DEF Consulted
    <3> QED BY ZenonT(60), <1>3, <2>3, <3>1, <3>2, <3>3, <3>4, <3>5 DEF Consulted
  <2>6. prod'.epoch <= hdr'.epoch
    BY ZenonT(60), <2>2, <2>3 DEF BInv
  <2> QED BY ZenonT(60), <1>4, <2>5, <2>6 DEF BInv
<1>13. CASE CheckCursor
  <2>1. prod.pc = "check" /\ hdr' = hdr /\ slot' = slot
    BY ZenonT(60), <1>13 DEF CheckCursor
  <2>2. PICK e \in prod.todo :
          \/ CursorPassed(e) /\ prod' = [prod EXCEPT !.todo = @ \ {e}]
          \/ prod.may_overwrite /\ prod' = [prod EXCEPT !.todo = {}]
          \/ AcquireFails
    BY ZenonT(60), <1>13 DEF CheckCursor
  <2>3. ASSUME NEW t \in SUBSET prod.todo, prod' = [prod EXCEPT !.todo = t],
               \/ prod.may_overwrite
               \/ CursorPassed(e) /\ t = prod.todo \ {e}
        PROVE  BInv'
    <3>1. /\ prod'.active = prod.active /\ prod'.pc = "check" /\ prod'.todo = t
          /\ prod'.epoch = prod.epoch /\ prod'.valid = prod.valid /\ prod'.owed = prod.owed
          /\ prod'.next_seq = prod.next_seq /\ prod'.may_overwrite = prod.may_overwrite
      BY ZenonT(60), <1>1, <2>1, <2>3 DEF ProdRec
    <3>2. Seen' = Seen /\ Mine' = Mine
      BY ZenonT(60), <2>1, <3>1 DEF Seen, Mine
    <3>3. ASSUME NEW c \in Consumer PROVE Consulted(c)'
      <4>1. Attached(c)' = Attached(c)
        BY ZenonT(60), <1>3 DEF Attached
      <4>2. ASSUME c \in prod.owed, ~prod.may_overwrite, cons[c].entry \notin t
            PROVE  cons[c].cursor > slot[Mine].seq
        <5>1. Attached(c) /\ (cons[c].entry \in prod.todo \/ cons[c].cursor > slot[Mine].seq)
          BY ZenonT(60), <1>2, <2>1, <4>2 DEF Consulted
        <5>2. CASE cons[c].entry = e
          <6>1. cons[c].pc \notin {"detached", "claim", "leaving", "activate"}
            BY ZenonT(60), <5>1 DEF Attached, AttachPc
          <6>2. entry[e].state # "empty" /\ entry[e].cursor = cons[c].cursor
            BY ZenonT(60), <1>2, <5>2, <6>1 DEF EntryHeld
          <6>3. entry[e] \in EntryRec
            BY ZenonT(60), <1>1, <5>2, TableTypes
          <6>4. is_occupied(e)
            BY ZenonT(60), <6>2, <6>3 DEF is_occupied, EntryRec
          <6> QED BY ZenonT(60), <2>3, <4>2, <6>2, <6>4 DEF CursorPassed
        <5>3. CASE cons[c].entry # e
          BY ZenonT(60), <2>3, <4>2, <5>1, <5>3
        <5> QED BY ZenonT(60), <5>2, <5>3
      <4>3. prod'.valid /\ prod'.epoch = hdr'.epoch /\ Attached(c)' => cons'[c].entry \in Seen'
        BY ZenonT(60), <1>2, <1>3, <2>1, <3>1, <3>2, <4>1 DEF Consulted
      <4>4. c \in prod'.owed => Attached(c)'
        BY ZenonT(60), <1>2, <3>1, <4>1 DEF Consulted
      <4> QED BY ZenonT(60), <1>3, <2>1, <3>1, <3>2, <4>2, <4>3, <4>4 DEF Consulted
    <3>4. prod'.epoch <= hdr'.epoch
      BY ZenonT(60), <2>1, <3>1 DEF BInv
    <3> QED BY ZenonT(60), <1>4, <3>3, <3>4 DEF BInv
  <2>4. CASE CursorPassed(e) /\ prod' = [prod EXCEPT !.todo = @ \ {e}]
    <3> DEFINE t == prod.todo \ {e}
    <3>1. t \in SUBSET prod.todo /\ prod' = [prod EXCEPT !.todo = t]
      BY ZenonT(60), <2>4
    <3> QED BY Zenon, <2>3, <2>4, <3>1
  <2>5. CASE prod.may_overwrite /\ prod' = [prod EXCEPT !.todo = {}]
    BY ZenonT(60), <2>3, <2>5
  <2> QED BY ZenonT(60), <1>10, <2>1, <2>2, <2>4, <2>5
<1> QED BY ZenonT(60), <1>7, <1>8, <1>9, <1>11, <1>12, <1>13

(* Death, time and the broker take consumers away and never add one.        *)
LEMMA OthersConsult ==
    ASSUME IInv, BInv,
           \/ Close \/ (\E p \in Killable : Kill(p)) \/ (\E c \in Consumer : HeartbeatExpires(c))
           \/ PollProducers \/ BrokerEvicts
    PROVE  BInv'
<1>1. /\ prod \in ProdRec /\ hdr \in HdrRec /\ cons \in [Consumer -> ConsRec] /\ proc \in ProcType
  BY ZenonT(60), TableTypes
<1>2. \A c \in Consumer : EntryHeld(c) /\ Consulted(c)
  BY ZenonT(60) DEF BInv
<1>3. ASSUME prod' = prod, slot' = slot, hdr'.epoch = hdr.epoch, cons' = cons,
             \A c \in Consumer : Attached(c)' = Attached(c), \A c \in Consumer : EntryHeld(c)'
      PROVE  BInv'
  <2>1. Seen' = Seen /\ Mine' = Mine
    BY ZenonT(60), <1>3 DEF Seen, Mine
  <2> QED BY ZenonT(60), <1>2, <1>3, <2>1 DEF BInv, Consulted
<1>4. CASE Close \/ PollProducers
  <2>1. UNCHANGED <<slot, entry, prod, cons, proc>> /\ hdr' = [hdr EXCEPT !.closed = TRUE]
    BY ZenonT(60), <1>4 DEF Close, PollProducers
  <2>2. hdr'.epoch = hdr.epoch
    BY ZenonT(60), <1>1, <2>1 DEF HdrRec
  <2>3. \A c \in Consumer : EntryHeld(c)' /\ Attached(c)' = Attached(c)
    BY ZenonT(60), <1>2, <2>1 DEF EntryHeld, Attached
  <2> QED BY ZenonT(60), <1>3, <2>1, <2>2, <2>3
<1>5. CASE BrokerEvicts
  <2>1. /\ UNCHANGED <<slot, hdr, prod, cons, proc>>
        /\ entry' = Evict({e \in Entries : Evictable(e)})
    BY ZenonT(60), <1>5 DEF BrokerEvicts
  <2>2. \A c \in Consumer : EntryHeld(c)'
    BY ZenonT(60), <1>2, <2>1, EvictionSpares
  <2>3. \A c \in Consumer : Attached(c)' = Attached(c)
    BY ZenonT(60), <2>1 DEF Attached
  <2> QED BY ZenonT(60), <1>3, <2>1, <2>2, <2>3
<1>6. ASSUME NEW d \in Consumer, HeartbeatExpires(d) PROVE BInv'
  <2>1. /\ UNCHANGED <<slot, hdr, entry, prod, cons>> /\ proc[d] = "dead"
        /\ proc' = [proc EXCEPT ![d] = "stale"]
    BY ZenonT(60), <1>6 DEF HeartbeatExpires
  <2>2. cons[d].pc = "detached"
    BY ZenonT(60), <1>2, <2>1 DEF EntryHeld
  <2>3. proc'[d] # "alive" /\ \A c \in Consumer : c # d => proc'[c] = proc[c]
    BY ZenonT(60), <1>1, <2>1 DEF ProcType
  <2>4. \A c \in Consumer : EntryHeld(c)'
    BY ZenonT(60), <1>2, <2>1, <2>2, <2>3 DEF EntryHeld
  <2>5. \A c \in Consumer : Attached(c)' = Attached(c)
    BY ZenonT(60), <2>1, <2>3 DEF Attached
  <2> QED BY ZenonT(60), <1>3, <2>1, <2>4, <2>5
<1>7. ASSUME NEW p \in Killable, Kill(p) PROVE BInv'
  <2>1. /\ UNCHANGED <<slot, hdr, entry>> /\ proc' = [proc EXCEPT ![p] = "dead"]
        /\ prod' = [prod EXCEPT !.owed = @ \ {p}]
        /\ cons' = [c \in Consumer |-> IF c = p THEN NotAttached ELSE cons[c]]
    BY ZenonT(60), <1>7 DEF Kill
  <2>2. /\ prod'.active = prod.active /\ prod'.pc = prod.pc /\ prod'.todo = prod.todo
        /\ prod'.epoch = prod.epoch /\ prod'.valid = prod.valid /\ prod'.owed = prod.owed \ {p}
        /\ prod'.next_seq = prod.next_seq /\ prod'.may_overwrite = prod.may_overwrite
    BY ZenonT(60), <1>1, <2>1 DEF ProdRec
  <2>3. Seen' = Seen /\ Mine' = Mine
    BY ZenonT(60), <2>2 DEF Seen, Mine
  <2>4. ASSUME NEW c \in Consumer PROVE EntryHeld(c)' /\ Consulted(c)'
    <3>1. CASE c = p
      <4>1. cons'[c].pc = "detached"
        BY ZenonT(60), <2>1, <3>1 DEF NotAttached
      <4>2. ~Attached(c)' /\ c \notin prod'.owed
        BY ZenonT(60), <2>2, <3>1, <4>1 DEF Attached, AttachPc
      <4> QED BY ZenonT(60), <4>1, <4>2 DEF EntryHeld, Consulted
    <3>2. CASE c # p
      <4>1. cons'[c] = cons[c] /\ proc'[c] = proc[c]
        BY ZenonT(60), <1>1, <2>1, <3>2 DEF ProcType
      <4>2. Attached(c)' = Attached(c)
        BY ZenonT(60), <4>1 DEF Attached
      <4>3. EntryHeld(c)'
        BY <1>2, <2>1, <4>1 DEF EntryHeld
      <4>4. Consulted(c)'
        BY ZenonT(60), <1>2, <2>1, <2>2, <2>3, <4>1, <4>2 DEF Consulted
      <4> QED BY ZenonT(60), <4>3, <4>4
    <3> QED BY ZenonT(60), <3>1, <3>2
  <2>5. prod'.epoch <= hdr'.epoch
    BY ZenonT(60), <2>1, <2>2 DEF BInv
  <2> QED BY ZenonT(60), <2>4, <2>5 DEF BInv
<1> QED BY ZenonT(60), <1>4, <1>5, <1>6, <1>7

(* Every step keeps the consultation complete.                              *)
LEMMA ConsultationKept ==
    ASSUME IInv, WInv, BInv, [Next]_vars
    PROVE  BInv'
<1>1. CASE \/ AllocateBegins \/ ScanEntry \/ CheckCursor \/ TryCloseGate \/ Reclaim
           \/ EvictStaleConsumers \/ CommitSlot \/ PublishSeq \/ Abort
  BY ZenonT(60), <1>1, ProducerConsults
<1>2. CASE \/ Close \/ (\E p \in Killable : Kill(p)) \/ (\E c \in Consumer : HeartbeatExpires(c))
           \/ PollProducers \/ BrokerEvicts
  BY ZenonT(60), <1>2, OthersConsult
<1>3. ASSUME NEW c \in Consumer,
             \/ AttachBegins(c) \/ ClaimEntry(c) \/ Activate(c) \/ Announce(c)
             \/ Release(c) \/ Detached(c)
      PROVE  BInv'
  BY ZenonT(60), <1>3, AttachConsults
<1>4. ASSUME NEW c \in Consumer,
             \/ ReceiveStep(c) \/ DropSample(c) \/ FindQuiet(c) \/ WatermarkVisible(c)
             \/ ClampToOldest(c)
      PROVE  BInv'
  BY ZenonT(60), <1>4, ReceiveConsults
<1>5. CASE UNCHANGED vars
  BY ZenonT(60), <1>5 DEF vars, BInv, EntryHeld, Consulted, Seen, Attached, Mine
<1>6. ASSUME NEW c \in Consumer, Seek(c) PROVE BInv'
  BY ZenonT(60), <1>6, SeekConsults
<1> QED BY ZenonT(60), <1>1, <1>2, <1>3, <1>4, <1>5, <1>6 DEF Next, ProducerStep, AttachStep

(* Nobody is attached to a new ring.                                        *)
LEMMA ConsultationInit == Init => BInv
<1> SUFFICES ASSUME Init PROVE BInv
  BY ZenonT(60)
<1>1. hdr.epoch = 0 /\ \A c \in Consumer : cons[c].pc = "detached"
  BY ZenonT(60) DEF Init, NotAttached
<1>2. prod.epoch = 0 /\ prod.owed = {} /\ ~prod.valid
  BY ZenonT(60), InitialProducer
<1> QED BY SMTT(60), <1>1, <1>2 DEF BInv, EntryHeld, Consulted

(* Only try_close_gate takes a message out of the ring, with nothing left    *)
(* to look at.                                                               *)
LEMMA GateClosesLast ==
    ASSUME IInv, [Next]_vars, prod.pc = "check", prod'.pc = "reclaim"
    PROVE  prod.todo = {}
<1>1. prod \in ProdRec
  BY ZenonT(60), TypeSplit DEF IInv
<1>2. CASE TryCloseGate
  BY ZenonT(60), <1>2 DEF TryCloseGate
<1>3. CASE CheckCursor
  <2>1. prod'.pc # "reclaim"
    BY Zenon, <1>1, <1>3 DEF CheckCursor, AcquireFails, ProdRec
  <2> QED BY ZenonT(60), <2>1
<1>4. CASE \/ AllocateBegins \/ ScanEntry \/ Reclaim \/ EvictStaleConsumers \/ CommitSlot
           \/ PublishSeq \/ Abort \/ Close
  BY ZenonT(60), <1>4 DEF AllocateBegins, ScanEntry, Reclaim, EvictStaleConsumers, CommitSlot,
              PublishSeq, Abort, Close
<1>5. ASSUME NEW c \in Consumer,
             \/ AttachBegins(c) \/ AttachStep(c) \/ ReceiveStep(c) \/ DropSample(c) \/ FindQuiet(c)
             \/ Detached(c) \/ HeartbeatExpires(c) \/ WatermarkVisible(c)
      PROVE  prod' = prod
  BY Zenon, <1>5 DEF AttachBegins, AttachStep, ClaimEntry, Activate, Announce, ClampToOldest,
              ReceiveStep, TryNextBegins, ReadWriteSeq, ReadClosed, Pin, Advance, UnpinMismatch,
              CheckPid, DropSample, FindQuiet, Detached, HeartbeatExpires, WatermarkVisible
<1>6. ASSUME NEW p, Kill(p) \/ (p \in Consumer /\ (Release(p) \/ Seek(p)))
      PROVE  prod'.pc = prod.pc
  BY ZenonT(60), <1>1, <1>6 DEF Kill, Release, Seek, ProdRec
<1>7. CASE PollProducers \/ BrokerEvicts \/ UNCHANGED vars
  BY ZenonT(60), <1>7 DEF PollProducers, BrokerEvicts, vars
<1> QED BY ZenonT(60), <1>2, <1>3, <1>4, <1>5, <1>6, <1>7 DEF Next, ProducerStep

(* OverflowPolicy::Block, for every ring: a call of acquire_slot takes a     *)
(* message out of the ring only when every consumer that had attached when   *)
(* the call read the consumer epoch, and has neither left nor called seek    *)
(* since, has moved past it.                                                 *)
THEOREM BlockAlwaysHoldsBack == Spec => BlockHoldsBack
<1>1. Init => BInv
  BY ZenonT(60), ConsultationInit
<1>2. IInv /\ WInv /\ BInv /\ [Next]_vars => BInv'
  BY ZenonT(60), ConsultationKept
<1>3. IInv /\ BInv /\ [Next]_vars
        => [(~prod.may_overwrite /\ prod.pc = "check" /\ prod'.pc = "reclaim")
              => \A c \in prod.owed : cons[c].cursor > slot[Mine].seq]_vars
  <2> SUFFICES ASSUME IInv, BInv, [Next]_vars, ~prod.may_overwrite, prod.pc = "check", prod'.pc = "reclaim",
                      NEW c \in prod.owed
               PROVE  cons[c].cursor > slot[Mine].seq
    BY ZenonT(60)
  <2>1. prod.todo = {} /\ c \in Consumer
    BY ZenonT(60), GateClosesLast, TableTypes DEF ProdRec
  <2> QED BY ZenonT(60), <2>1 DEF BInv, Consulted
<1> QED BY <1>1, <1>2, <1>3, Inductive, WindowInductive, PTL DEF Spec, BlockHoldsBack
=============================================================================
