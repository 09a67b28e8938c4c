------------------------------- MODULE ShmRing -------------------------------
(***************************************************************************)
(* One shared-memory ring of astrs-shm: a segment with SlotCount slots, one  *)
(* producer, and consumers that attach, receive zero-copy samples, detach    *)
(* and are killed.                                                           *)
(*                                                                           *)
(* The granularity is that of the shared atomics: every action performs at   *)
(* most one access that another participant can tell apart from its          *)
(* neighbours (a CAS on a slot's refcount, a load of write_seq, a store of a *)
(* cursor).  Words that only their owner touches are folded into the action  *)
(* that next touches a shared one.                                           *)
(*                                                                           *)
(* reclaimed_seq is stored and loaded Relaxed, so a consumer may read an old *)
(* value of it; `view' is the oldest value the consumer may still read.  The *)
(* producer's Release stores (a slot's gate opening, write_seq) carry the    *)
(* watermark of their moment, `mark', and the Acquire loads that read them   *)
(* raise the consumer's view to it.                                          *)
(***************************************************************************)
EXTENDS Integers, FiniteSets

CONSTANTS
    Consumer,       \* consumer processes; each lives and dies at most once
    Handle,         \* Samples of one slot that one process may hold at once
    SlotCount,      \* slots of the ring
    MaxConsumers,   \* entries of the consumer table
    Policies,       \* the OverflowPolicy of a segment: FALSE is Block, TRUE is Overwrite
    MaxSeq,         \* bound: messages the producer publishes
    MaxEpoch,       \* bound: no attach begins once consumer_epoch reaches it
    Killable,       \* processes that may be killed: consumers and "producer"
    MaySeek,        \* whether consumers call seek()
    StaleLoads      \* whether a Relaxed load may return an overtaken value

ASSUME RingAssumption ==
    /\ SlotCount \in Nat \ {0} /\ MaxConsumers \in Nat \ {0}
    /\ MaxSeq \in Nat /\ MaxEpoch \in Nat
    /\ Policies \subseteq BOOLEAN /\ MaySeek \in BOOLEAN /\ StaleLoads \in BOOLEAN
    /\ IsFiniteSet(Consumer) /\ IsFiniteSet(Handle) /\ "producer" \notin Consumer
    /\ Killable \subseteq Consumer \cup {"producer"}

VARIABLES
    slot,    \* slot headers: state, seq, refcount; mark is what its release carries
    bytes,   \* the sequence whose payload the data region holds, 0 if none whole
    hdr,     \* write_seq, reclaimed_seq, closed, consumer_epoch; mark as for slots
    entry,   \* consumer table: state, cursor, owner (the pid word)
    prod,    \* the Producer and the call it is in
    cons,    \* each Consumer and the call it is in
    pins,    \* the pins taken and not released, per slot
    proc     \* "alive", "dead", or "stale": dead with an expired heartbeat

vars == <<slot, bytes, hdr, entry, prod, cons, pins, proc>>

SENTINEL == -1                       \* REFCOUNT_SENTINEL: the gate is closed
Slots    == 0 .. SlotCount - 1
Entries  == 0 .. MaxConsumers - 1
Nobody   == "nobody"

AttachPc == {"detached", "claim", "activate", "announce"}
RecvPc   == {"seq", "closed", "pin", "pinned", "mispinned"}
ConsPc   == AttachPc \cup {"clamp", "idle", "quiet", "leaving"} \cup RecvPc

(* Every word of the segment is in its range; in particular a published      *)
(* cursor is never 0 and never past write_seq by more than one (resolve).    *)
TypeOK ==
    /\ slot \in [Slots -> [state: {"free", "writing", "ready"}, seq: 0 .. MaxSeq,
                           refcount: {SENTINEL} \cup Nat, mark: 0 .. MaxSeq]]
    /\ bytes \in [Slots -> 0 .. MaxSeq]
    /\ hdr \in [write_seq: 0 .. MaxSeq, reclaimed_seq: 0 .. MaxSeq,
                mark: 0 .. MaxSeq, closed: BOOLEAN, epoch: Nat]
    /\ entry \in [Entries -> [state: {"empty", "claiming", "active"},
                              cursor: 0 .. MaxSeq + 1, owner: Consumer \cup {Nobody}]]
    /\ prod \in [pc: {"idle", "scan", "check", "evict", "reclaim", "writing", "publish"},
                 next_seq: 1 .. MaxSeq + 1, active: SUBSET Entries, todo: SUBSET Entries,
                 epoch: Nat, valid: BOOLEAN, retried: BOOLEAN,
                 owed: SUBSET Consumer, may_overwrite: BOOLEAN]
    /\ cons \in [Consumer -> [pc: ConsPc, cursor: 1 .. MaxSeq + 1, entry: Entries,
                              view: 0 .. MaxSeq,
                              out: {"none", "sample", "empty", "lagged", "closed", "gone"}]]
    /\ pins \in [Slots -> SUBSET (Consumer \X Handle)]
    /\ proc \in [Consumer \cup {"producer"} -> {"alive", "dead", "stale"}]

slot_index_for_seq(s) == (s - 1) % SlotCount

Later(s, t) == IF s > t THEN s ELSE t

-----------------------------------------------------------------------------

NotAttached == [pc |-> "detached", cursor |-> 1, entry |-> 0, view |-> 0, out |-> "none"]

Init ==
    /\ slot = [i \in Slots |-> [state |-> "free", seq |-> 0, refcount |-> SENTINEL, mark |-> 0]]
    /\ bytes = [i \in Slots |-> 0]
    /\ hdr = [write_seq |-> 0, reclaimed_seq |-> 0, mark |-> 0, closed |-> FALSE, epoch |-> 0]
    /\ entry = [e \in Entries |-> [state |-> "empty", cursor |-> 0, owner |-> Nobody]]
    /\ \E policy \in Policies :
          prod = [pc |-> "idle", next_seq |-> 1, active |-> {}, todo |-> {}, epoch |-> 0,
                  valid |-> FALSE, retried |-> FALSE, owed |-> {}, may_overwrite |-> policy]
    /\ cons = [c \in Consumer |-> NotAttached]
    /\ pins = [i \in Slots |-> {}]
    /\ proc = [p \in Consumer \cup {"producer"} |-> "alive"]

-----------------------------------------------------------------------------
(* Producer: try_allocate, acquire_slot, commit, abort, close.              *)

Mine == slot_index_for_seq(prod.next_seq)    \* the slot next_seq will use

is_occupied(e) == entry[e].state \in {"claiming", "active"}

Attached(c) == cons[c].pc \notin AttachPc \cup {"leaving"} /\ proc[c] = "alive"

(* begin_write: the window is open, the payload region is in flux.          *)
BeginWrite(s) ==
    /\ slot' = [slot EXCEPT ![Mine] = [s EXCEPT !.state = "writing"]]
    /\ bytes' = [bytes EXCEPT ![Mine] = 0]

(* Mutated form: the cache is never invalidated by the consumer epoch.      *)
RefreshActiveIgnoresEpoch(valid, retrying) ==
    prod' = [prod EXCEPT !.pc = IF valid THEN "check" ELSE "scan",
                         !.active = IF valid THEN @ ELSE {},
                         !.todo = IF valid THEN prod.active ELSE Entries,
                         !.epoch = hdr.epoch, !.valid = TRUE, !.retried = retrying,
                         !.owed = {c \in Consumer : Attached(c)}]

(* refresh_active reads the epoch and decides whether the cached list of    *)
(* occupied entries still stands.                                           *)
RefreshActive(valid, retrying) ==
    LET cached == valid /\ prod.epoch = hdr.epoch
    IN  prod' = [prod EXCEPT !.pc = IF cached THEN "check" ELSE "scan",
                             !.active = IF cached THEN @ ELSE {},
                             !.todo = IF cached THEN prod.active ELSE Entries,
                             !.epoch = hdr.epoch, !.valid = TRUE,
                             !.retried = retrying,
                             !.owed = {c \in Consumer : Attached(c)}]

AllocateBegins ==
    /\ proc["producer"] = "alive" /\ prod.pc = "idle"
    /\ ~hdr.closed /\ prod.next_seq <= MaxSeq
    /\ \/ /\ slot[Mine].state = "free"
          /\ BeginWrite(slot[Mine])
          /\ prod' = [prod EXCEPT !.pc = "writing"]
       \/ /\ slot[Mine].state = "ready"
          /\ RefreshActive(prod.valid, FALSE)
          /\ UNCHANGED <<slot, bytes>>
    /\ UNCHANGED <<hdr, entry, cons, pins, proc>>

ScanEntry ==
    /\ proc["producer"] = "alive" /\ prod.pc = "scan"
    /\ \E e \in prod.todo :
       LET active == IF is_occupied(e) THEN prod.active \cup {e} ELSE prod.active
           rest   == prod.todo \ {e}
       IN  prod' = [prod EXCEPT !.active = active,
                                !.pc = IF rest = {} THEN "check" ELSE "scan",
                                !.todo = IF rest = {} THEN active ELSE rest]
    /\ UNCHANGED <<slot, bytes, hdr, entry, cons, pins, proc>>

CursorPassed(e) ==
    is_occupied(e) => /\ entry[e].cursor # 0
                      /\ entry[e].cursor > slot[Mine].seq

(* acquire_slot returned false: one eviction pass, then one retry.          *)
AcquireFails ==
    prod' = [prod EXCEPT !.pc = IF prod.retried THEN "idle" ELSE "evict",
                         !.todo = {}, !.retried = FALSE, !.owed = {}]

CheckCursor ==
    /\ proc["producer"] = "alive" /\ prod.pc = "check" /\ prod.todo # {}
    /\ \E e \in prod.todo :
          \/ /\ CursorPassed(e)
             /\ prod' = [prod EXCEPT !.todo = @ \ {e}]
          \/ /\ ~CursorPassed(e) /\ prod.may_overwrite
             /\ prod' = [prod EXCEPT !.todo = {}]
          \/ /\ ~CursorPassed(e) /\ ~prod.may_overwrite
             /\ AcquireFails
    /\ UNCHANGED <<slot, bytes, hdr, entry, cons, pins, proc>>

(* Mutated form: the gate is closed by a store instead of the 0 -> SENTINEL CAS. *)
TryCloseGateUnchecked ==
    /\ proc["producer"] = "alive" /\ prod.pc = "check" /\ prod.todo = {}
    /\ slot' = [slot EXCEPT ![Mine].refcount = SENTINEL, ![Mine].state = "free"]
    /\ prod' = [prod EXCEPT !.pc = "reclaim", !.retried = FALSE, !.owed = {}]
    /\ UNCHANGED <<bytes, hdr, entry, cons, pins, proc>>

(* try_close_gate, and set_free on the slot it won.                         *)
TryCloseGate ==
    /\ proc["producer"] = "alive" /\ prod.pc = "check" /\ prod.todo = {}
    /\ IF slot[Mine].refcount = 0
       THEN /\ slot' = [slot EXCEPT ![Mine].refcount = SENTINEL, ![Mine].state = "free"]
            /\ prod' = [prod EXCEPT !.pc = "reclaim", !.retried = FALSE, !.owed = {}]
       ELSE /\ AcquireFails
            /\ UNCHANGED slot
    /\ UNCHANGED <<bytes, hdr, entry, cons, pins, proc>>

(* Mutated form: the watermark stops one short of the resident sequence.    *)
ReclaimOneShort ==
    /\ proc["producer"] = "alive" /\ prod.pc = "reclaim"
    /\ hdr' = [hdr EXCEPT !.reclaimed_seq = Later(@, slot[Mine].seq - 1)]
    /\ BeginWrite(slot[Mine])
    /\ prod' = [prod EXCEPT !.pc = "writing"]
    /\ UNCHANGED <<entry, cons, pins, proc>>

(* set_reclaimed_seq(resident), then begin_write.                           *)
Reclaim ==
    /\ proc["producer"] = "alive" /\ prod.pc = "reclaim"
    /\ hdr' = [hdr EXCEPT !.reclaimed_seq = Later(@, slot[Mine].seq)]
    /\ BeginWrite(slot[Mine])
    /\ prod' = [prod EXCEPT !.pc = "writing"]
    /\ UNCHANGED <<entry, cons, pins, proc>>

(* Mutated form: the age of the heartbeat is compared the wrong way round.  *)
EvictableFresh(e) == /\ entry[e].state = "active"
                     /\ entry[e].owner \in Consumer
                     /\ proc[entry[e].owner] = "dead"

Evictable(e) == /\ entry[e].state = "active"
                /\ entry[e].owner \in Consumer
                /\ proc[entry[e].owner] = "stale"

Evict(E) == [e \in Entries |-> IF e \in E
                               THEN [state |-> "empty", cursor |-> 0, owner |-> Nobody]
                               ELSE entry[e]]

EvictStaleConsumers ==
    /\ proc["producer"] = "alive" /\ prod.pc = "evict"
    /\ LET E == {e \in Entries : Evictable(e)}
       IN  /\ entry' = Evict(E)
           /\ IF E = {} THEN prod' = [prod EXCEPT !.pc = "idle"]
              ELSE RefreshActive(FALSE, TRUE)
    /\ UNCHANGED <<slot, bytes, hdr, cons, pins, proc>>

(* Mutated form: the gate opens without a release, so it carries no mark.   *)
CommitSlotRelaxed ==
    /\ proc["producer"] = "alive" /\ prod.pc = "writing"
    /\ slot' = [slot EXCEPT ![Mine] = [state |-> "ready", seq |-> prod.next_seq,
                                       refcount |-> 0, mark |-> 0]]
    /\ bytes' = [bytes EXCEPT ![Mine] = prod.next_seq]
    /\ prod' = [prod EXCEPT !.pc = "publish"]
    /\ UNCHANGED <<hdr, entry, cons, pins, proc>>

(* SampleMut::commit: SlotHeader::publish stores the facts and opens the    *)
(* gate last, then publish_seq makes the message visible.                   *)
CommitSlot ==
    /\ proc["producer"] = "alive" /\ prod.pc = "writing"
    /\ slot' = [slot EXCEPT ![Mine] = [state |-> "ready", seq |-> prod.next_seq,
                                       refcount |-> 0, mark |-> hdr.reclaimed_seq]]
    /\ bytes' = [bytes EXCEPT ![Mine] = prod.next_seq]
    /\ prod' = [prod EXCEPT !.pc = "publish"]
    /\ UNCHANGED <<hdr, entry, cons, pins, proc>>

PublishSeq ==
    /\ proc["producer"] = "alive" /\ prod.pc = "publish"
    /\ hdr' = [hdr EXCEPT !.write_seq = prod.next_seq, !.mark = hdr.reclaimed_seq]
    /\ prod' = [prod EXCEPT !.pc = "idle", !.next_seq = @ + 1]
    /\ UNCHANGED <<slot, bytes, entry, cons, pins, proc>>

Abort ==
    /\ proc["producer"] = "alive" /\ prod.pc = "writing"
    /\ slot' = [slot EXCEPT ![Mine].state = "free"]
    /\ prod' = [prod EXCEPT !.pc = "idle"]
    /\ UNCHANGED <<bytes, hdr, entry, cons, pins, proc>>

Close ==
    /\ proc["producer"] = "alive" /\ prod.pc = "idle" /\ ~hdr.closed
    /\ hdr' = [hdr EXCEPT !.closed = TRUE]
    /\ UNCHANGED <<slot, bytes, entry, prod, cons, pins, proc>>

-----------------------------------------------------------------------------
(* Consumer: attach, try_next, check_producer_liveness, seek, detach.       *)

Go(c, pc) == [cons[c] EXCEPT !.pc = pc]

(* A Relaxed load of reclaimed_seq may return any value not yet overtaken   *)
(* by what this consumer has synchronised with.                             *)
ReclaimedReads(c) ==
    IF StaleLoads THEN cons[c].view .. hdr.reclaimed_seq ELSE {hdr.reclaimed_seq}

(* Acquiring a release that carries mark raises the view to it.             *)
Acquired(c, mark) == Later(mark, cons[c].view)

(* StartPosition::resolve over the watermarks just read.                    *)
Resolve(requested, reclaimed, write_seq) ==
    LET oldest == reclaimed + 1
        newest == write_seq + 1
        lower  == Later(requested, oldest)
    IN  IF lower > newest /\ newest >= oldest THEN newest ELSE lower

(* attach reads closed and both watermarks and settles its start position.  *)
AttachBegins(c) ==
    /\ proc[c] = "alive" /\ cons[c].pc = "detached" /\ ~hdr.closed
    /\ hdr.epoch < MaxEpoch
    /\ \E r \in ReclaimedReads(c), start \in {1, MaxSeq + 1} :
          cons' = [cons EXCEPT ![c] = [Go(c, "claim") EXCEPT
                       !.cursor = Resolve(start, r, hdr.write_seq),
                       !.view = Later(r, Acquired(c, hdr.mark)), !.out = "none"]]
    /\ UNCHANGED <<slot, bytes, hdr, entry, prod, pins, proc>>

(* try_claim wins an empty entry, or the table is full and attach fails.    *)
ClaimEntry(c) ==
    /\ proc[c] = "alive" /\ cons[c].pc = "claim"
    /\ \/ \E e \in Entries :
             /\ entry[e].state = "empty"
             /\ entry' = [entry EXCEPT ![e] = [state |-> "claiming", cursor |-> 0, owner |-> c]]
             /\ cons' = [cons EXCEPT ![c] = [Go(c, "activate") EXCEPT !.entry = e]]
       \/ /\ \A e \in Entries : entry[e].state # "empty"
          /\ cons' = [cons EXCEPT ![c] = NotAttached]
          /\ UNCHANGED entry
    /\ UNCHANGED <<slot, bytes, hdr, prod, pins, proc>>

Activate(c) ==
    /\ proc[c] = "alive" /\ cons[c].pc = "activate"
    /\ entry' = [entry EXCEPT ![cons[c].entry].state = "active",
                              ![cons[c].entry].cursor = cons[c].cursor]
    /\ cons' = [cons EXCEPT ![c] = Go(c, "announce")]
    /\ UNCHANGED <<slot, bytes, hdr, prod, pins, proc>>

(* header.consumer_attached(): bump the epoch the producer's cache is keyed by. *)
Announce(c) ==
    /\ proc[c] = "alive" /\ cons[c].pc = "announce"
    /\ hdr' = [hdr EXCEPT !.epoch = @ + 1]
    /\ cons' = [cons EXCEPT ![c] = Go(c, "clamp")]
    /\ UNCHANGED <<slot, bytes, entry, prod, pins, proc>>

(* set_cursor: the local cursor and the word the producer reads.            *)
SetCursor(c, record, s) ==
    /\ cons' = [cons EXCEPT ![c] = [record EXCEPT !.cursor = s]]
    /\ entry' = [entry EXCEPT ![cons[c].entry].cursor = s]

ClampToOldest(c) ==
    /\ proc[c] = "alive" /\ cons[c].pc = "clamp"
    /\ \E r \in ReclaimedReads(c) :
          SetCursor(c, [Go(c, "idle") EXCEPT !.view = r], Later(cons[c].cursor, r + 1))
    /\ UNCHANGED <<slot, bytes, hdr, prod, pins, proc>>

(* try_next, first load: behind the watermark the gap is reported at once.  *)
TryNextBegins(c) ==
    /\ proc[c] = "alive" /\ cons[c].pc = "idle"
    /\ \E r \in ReclaimedReads(c) :
          LET viewed == [cons[c] EXCEPT !.view = r]
          IN  \/ /\ cons[c].cursor <= r
                 /\ SetCursor(c, [viewed EXCEPT !.out = "lagged"], r + 1)
              \/ /\ cons[c].cursor > r
                 /\ cons' = [cons EXCEPT ![c] = [viewed EXCEPT !.pc = "seq", !.out = "none"]]
                 /\ UNCHANGED entry
    /\ UNCHANGED <<slot, bytes, hdr, prod, pins, proc>>

(* Mutated form: the newest message is taken for an empty ring.             *)
ReadWriteSeqOffByOne(c) ==
    /\ proc[c] = "alive" /\ cons[c].pc = "seq"
    /\ cons' = [cons EXCEPT ![c] =
          [Go(c, IF cons[c].cursor >= hdr.write_seq THEN "closed" ELSE "pin")
              EXCEPT !.view = Acquired(c, hdr.mark)]]
    /\ UNCHANGED <<slot, bytes, hdr, entry, prod, pins, proc>>

(* Second load: is there anything at the cursor?                            *)
ReadWriteSeq(c) ==
    /\ proc[c] = "alive" /\ cons[c].pc = "seq"
    /\ cons' = [cons EXCEPT ![c] =
          [Go(c, IF cons[c].cursor > hdr.write_seq THEN "closed" ELSE "pin")
              EXCEPT !.view = Acquired(c, hdr.mark)]]
    /\ UNCHANGED <<slot, bytes, hdr, entry, prod, pins, proc>>

(* Third load, only when the second found nothing: Closed or Empty?         *)
ReadClosed(c) ==
    /\ proc[c] = "alive" /\ cons[c].pc = "closed"
    /\ cons' = [cons EXCEPT ![c] =
          [Go(c, "idle") EXCEPT !.out = IF hdr.closed THEN "closed" ELSE "empty"]]
    /\ UNCHANGED <<slot, bytes, hdr, entry, prod, pins, proc>>

Wanted(c) == slot_index_for_seq(cons[c].cursor)

(* pin(): the CAS loop either finds the sentinel and the loop of try_next   *)
(* starts over (or its budget is spent: Empty), or counts this reader in.   *)
Pin(c) ==
    /\ proc[c] = "alive" /\ cons[c].pc = "pin"
    /\ LET i == Wanted(c)
       IN  \/ /\ slot[i].refcount = SENTINEL
              /\ \E out \in {"none", "empty"} :
                    cons' = [cons EXCEPT ![c] = [Go(c, "idle") EXCEPT !.out = out]]
              /\ UNCHANGED <<slot, pins>>
           \/ /\ slot[i].refcount # SENTINEL
              /\ slot' = [slot EXCEPT ![i].refcount = @ + 1]
              /\ \E h \in Handle :
                    /\ <<c, h>> \notin pins[i]
                    /\ pins' = [pins EXCEPT ![i] = @ \cup {<<c, h>>}]
              /\ cons' = [cons EXCEPT ![c] =
                    [Go(c, IF slot[i].seq = cons[c].cursor THEN "pinned" ELSE "mispinned")
                        EXCEPT !.view = Acquired(c, slot[i].mark)]]
    /\ UNCHANGED <<bytes, hdr, entry, prod, proc>>

(* The pin found the wanted message: advance the cursor, return the Sample. *)
Advance(c) ==
    /\ proc[c] = "alive" /\ cons[c].pc = "pinned"
    /\ SetCursor(c, [Go(c, "idle") EXCEPT !.out = "sample"], cons[c].cursor + 1)
    /\ UNCHANGED <<slot, bytes, hdr, prod, pins, proc>>

Unpin(c, i, h) ==
    /\ <<c, h>> \in pins[i]
    /\ pins' = [pins EXCEPT ![i] = @ \ {<<c, h>>}]
    /\ slot' = [slot EXCEPT ![i].refcount = @ - 1]

(* The slot was recycled under the reader: release and go round again.      *)
UnpinMismatch(c) ==
    /\ proc[c] = "alive" /\ cons[c].pc = "mispinned"
    /\ \E h \in Handle : Unpin(c, Wanted(c), h)
    /\ cons' = [cons EXCEPT ![c] = Go(c, "idle")]
    /\ UNCHANGED <<bytes, hdr, entry, prod, proc>>

(* Drop for Sample, on any thread of the process, also after detach.        *)
DropSample(c) ==
    /\ proc[c] = "alive"
    /\ \E i \in Slots, h \in Handle :
          /\ cons[c].pc \in {"pinned", "mispinned"} => i # Wanted(c)
          /\ Unpin(c, i, h)
    /\ UNCHANGED <<bytes, hdr, entry, prod, cons, proc>>

(* check_producer_liveness after an Empty receive: quiet ring, then pid.    *)
FindQuiet(c) ==
    /\ proc[c] = "alive" /\ cons[c].pc = "idle" /\ cons[c].out = "empty"
    /\ ~hdr.closed /\ cons[c].cursor > hdr.write_seq
    /\ cons' = [cons EXCEPT ![c] = [Go(c, "quiet") EXCEPT !.view = Acquired(c, hdr.mark)]]
    /\ UNCHANGED <<slot, bytes, hdr, entry, prod, pins, proc>>

CheckPid(c) ==
    /\ proc[c] = "alive" /\ cons[c].pc = "quiet"
    /\ IF proc["producer"] = "alive"
       THEN /\ cons' = [cons EXCEPT ![c] = Go(c, "idle")]
            /\ UNCHANGED hdr
       ELSE /\ cons' = [cons EXCEPT ![c] = [Go(c, "idle") EXCEPT !.out = "gone"]]
            /\ hdr' = [hdr EXCEPT !.closed = TRUE]
    /\ UNCHANGED <<slot, bytes, entry, prod, pins, proc>>

Seek(c) ==
    /\ MaySeek /\ proc[c] = "alive" /\ cons[c].pc = "idle"
    /\ \E r \in ReclaimedReads(c), s \in 1 .. MaxSeq + 1 :
          SetCursor(c, [cons[c] EXCEPT !.view = Later(r, Acquired(c, hdr.mark))],
                    Resolve(s, r, hdr.write_seq))
    /\ prod' = [prod EXCEPT !.owed = @ \ {c}]
    /\ UNCHANGED <<slot, bytes, hdr, pins, proc>>

(* detach: release the entry, then bump the epoch.                          *)
Release(c) ==
    /\ proc[c] = "alive" /\ cons[c].pc = "idle"
    /\ entry' = [entry EXCEPT ![cons[c].entry] =
                    [state |-> "empty", cursor |-> 0, owner |-> Nobody]]
    /\ cons' = [cons EXCEPT ![c] = Go(c, "leaving")]
    /\ prod' = [prod EXCEPT !.owed = @ \ {c}]
    /\ UNCHANGED <<slot, bytes, hdr, pins, proc>>

Detached(c) ==
    /\ proc[c] = "alive" /\ cons[c].pc = "leaving"
    /\ hdr' = [hdr EXCEPT !.epoch = @ + 1]
    /\ cons' = [cons EXCEPT ![c] = NotAttached]
    /\ UNCHANGED <<slot, bytes, entry, prod, pins, proc>>

-----------------------------------------------------------------------------
(* kill -9, the passing of time, and the daemon's broker.  A killed process *)
(* takes its own memory with it and leaves the segment as it stands.        *)

Kill(p) ==
    /\ p \in Killable /\ proc[p] = "alive"
    /\ proc' = [proc EXCEPT ![p] = "dead"]
    /\ prod' = [prod EXCEPT !.owed = @ \ {p}]
    /\ cons' = [c \in Consumer |-> IF c = p THEN NotAttached ELSE cons[c]]
    /\ UNCHANGED <<slot, bytes, hdr, entry, pins>>

HeartbeatExpires(c) ==
    /\ c \in Consumer /\ proc[c] = "dead"
    /\ proc' = [proc EXCEPT ![c] = "stale"]
    /\ UNCHANGED <<slot, bytes, hdr, entry, prod, cons, pins>>

(* A store becomes visible to every thread in finite time.                  *)
WatermarkVisible(c) ==
    /\ StaleLoads /\ proc[c] = "alive" /\ Attached(c)
    /\ cons[c].view < hdr.reclaimed_seq
    /\ cons' = [cons EXCEPT ![c].view = hdr.reclaimed_seq]
    /\ UNCHANGED <<slot, bytes, hdr, entry, prod, pins, proc>>

(* SegmentBroker::poll_producers.                                           *)
PollProducers ==
    /\ proc["producer"] # "alive" /\ ~hdr.closed
    /\ hdr' = [hdr EXCEPT !.closed = TRUE]
    /\ UNCHANGED <<slot, bytes, entry, prod, cons, pins, proc>>

(* SegmentBroker::evict_stale_consumers.                                    *)
BrokerEvicts ==
    /\ \E e \in Entries : Evictable(e)
    /\ entry' = Evict({e \in Entries : Evictable(e)})
    /\ UNCHANGED <<slot, bytes, hdr, prod, cons, pins, proc>>

-----------------------------------------------------------------------------

ProducerStep == \/ AllocateBegins \/ ScanEntry \/ CheckCursor \/ TryCloseGate \/ Reclaim
                \/ EvictStaleConsumers \/ CommitSlot \/ PublishSeq

AttachStep(c) == ClaimEntry(c) \/ Activate(c) \/ Announce(c) \/ ClampToOldest(c)

ReceiveStep(c) == \/ TryNextBegins(c) \/ ReadWriteSeq(c) \/ ReadClosed(c) \/ Pin(c)
                  \/ Advance(c) \/ UnpinMismatch(c) \/ CheckPid(c)

Next ==
    \/ ProducerStep \/ Abort \/ Close
    \/ \E c \in Consumer : \/ AttachBegins(c) \/ AttachStep(c) \/ ReceiveStep(c)
                           \/ DropSample(c) \/ FindQuiet(c) \/ Seek(c)
                           \/ Release(c) \/ Detached(c) \/ HeartbeatExpires(c)
                           \/ WatermarkVisible(c)
    \/ \E p \in Killable : Kill(p)
    \/ PollProducers \/ BrokerEvicts

Spec == Init /\ [][Next]_vars

(* A producer that keeps sending, consumers whose threads sit in recv() and  *)
(* drop what they receive, and time that passes.  recv() reaches the         *)
(* liveness check after every wait that no doorbell cut short.               *)
Fairness ==
    /\ WF_vars(ProducerStep)
    /\ \A c \in Consumer : /\ WF_vars(AttachStep(c) \/ ReceiveStep(c) \/ Detached(c))
                           /\ WF_vars(DropSample(c))
                           /\ SF_vars(FindQuiet(c))
                           /\ WF_vars(HeartbeatExpires(c)) /\ WF_vars(WatermarkVisible(c))

FairSpec == Spec /\ Fairness

-----------------------------------------------------------------------------

(* Zero-copy soundness.  While any reader has a slot pinned, through a       *)
(* Sample or in the middle of try_next, the slot is READY, its refcount      *)
(* counts exactly the pins, and the payload region holds the whole of the    *)
(* message its header names; a slot that is not READY has its gate closed    *)
(* (slot.rs, "state != READY implies refcount == SENTINEL").                 *)
PinnedIsIntact ==
    /\ \A i \in Slots :
          /\ pins[i] # {} => slot[i].state = "ready" /\ bytes[i] = slot[i].seq
          /\ slot[i].refcount = IF slot[i].state = "ready" THEN Cardinality(pins[i])
                                                           ELSE SENTINEL
    /\ \A c \in Consumer :
          cons[c].pc = "pinned" => /\ bytes[Wanted(c)] = cons[c].cursor
                                   /\ \E h \in Handle : <<c, h>> \in pins[Wanted(c)]

(* The resident window.  Every sequence above the watermark and up to        *)
(* write_seq sits READY in its own slot, so a consumer that loaded           *)
(* write_seq >= cursor can pin it (SampleMut::commit's ordering); the one    *)
(* exception is the message the producer is reclaiming at this instant.      *)
ResidentWindow ==
    \A s \in hdr.reclaimed_seq + 1 .. hdr.write_seq :
        LET i == slot_index_for_seq(s)
        IN  slot[i].seq = s /\ (slot[i].state = "ready" \/ (prod.pc = "reclaim" /\ i = Mine))

(* A reader whose pin landed on a recycled slot will see a watermark at or   *)
(* past its cursor on its next turn of try_next's loop, so the gap is        *)
(* reported and the loop does not spin: the Relaxed watermark is carried by  *)
(* the Acquire of the pin.                                                   *)
MispinReportsLag ==
    \A c \in Consumer : cons[c].pc = "mispinned" => cons[c].cursor <= cons[c].view

(* OverflowPolicy::Block.  acquire_slot takes a message out of the ring only *)
(* if every consumer that had finished attaching when the call looked at the *)
(* consumer epoch, is still attached and has not called seek since, has      *)
(* moved its cursor past it.                                                 *)
BlockHoldsBack ==
    [][(~prod.may_overwrite /\ prod.pc = "check" /\ prod'.pc = "reclaim")
          => \A c \in prod.owed : cons[c].cursor > slot[Mine].seq]_vars

(* "Crashed consumers cannot wedge the ring": a producer that keeps sending  *)
(* keeps getting slots, whatever happens to its consumers.                   *)
NoWedge ==
    []<>(prod.pc = "writing" \/ hdr.closed \/ proc["producer"] # "alive"
           \/ prod.next_seq > MaxSeq)

(* What a dead consumer leaves that nobody clears up: an entry it was        *)
(* claiming, or a pin.                                                       *)
Abandoned ==
    \/ \E e \in Entries :
          /\ entry[e].state = "claiming"
          /\ \E c \in Consumer : entry[e].owner = c /\ proc[c] # "alive"
    \/ \E i \in Slots : \E p \in pins[i] : proc[p[1]] # "alive"

(* A producer that keeps sending keeps getting slots: backpressure ends once *)
(* readers drain and drop their Samples, and once the entry of a dead one is *)
(* evicted, unless it died claiming its entry or with a slot pinned, or some *)
(* consumer goes back over the ring again and again.                         *)
BackpressureEnds ==
    <>[][\A c \in Consumer : ~Seek(c)]_vars
        => []<>(prod.pc = "writing" \/ hdr.closed \/ proc["producer"] # "alive"
                  \/ prod.next_seq > MaxSeq \/ Abandoned)

(* The producer died after it closed the gate of a slot and before it stored *)
(* the watermark: the message there can neither be pinned nor reported lost. *)
Stranded(s) ==
    /\ proc["producer"] # "alive" /\ prod.pc = "reclaim"
    /\ slot_index_for_seq(s) = Mine

(* A message published at an attached consumer's cursor does not stay there: *)
(* try_next delivers it or reports it lagged, also after the producer's      *)
(* death, unless that stranded it.                                           *)
CursorMoves ==
    \A c \in Consumer, s \in 1 .. MaxSeq :
        (Attached(c) /\ cons[c].cursor = s /\ s <= hdr.write_seq)
            ~> (cons[c].cursor # s \/ ~Attached(c) \/ Stranded(s))
=============================================================================
