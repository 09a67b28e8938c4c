-------------------------------- MODULE Wal ---------------------------------
(***************************************************************************)
(* WalLog, the file-backed log store of astrs-raft: an append-only file of  *)
(* checksummed records, a snapshot sidecar beside it, and a mirror in memory *)
(* that is rebuilt from both by open.                                        *)
(*                                                                           *)
(* A call is the sequence of steps it makes on the mirror and on the disk    *)
(* (job).  The process may be killed between any two of them or inside a     *)
(* write, which leaves a partial record; a power cut also loses what was not *)
(* forced to disk.  A call that reports an I/O error is taken to be the last *)
(* one, as RaftReplica::run asks for, so it is a kill at that step.  A       *)
(* rename is atomic, and durable once it returns.                            *)
(*                                                                           *)
(* An entry is its term (its index is its place), a hard state a number that *)
(* grows, and of a snapshot's data only whether it is there.                 *)
(***************************************************************************)
EXTENDS Integers, Sequences, SequencesExt

CONSTANTS
    Policies,     \* FsyncPolicy values: [every: the interval, 0 for Never; safe: is_crash_safe]
    MaxTerm,      \* bound: terms, and hard states
    MaxIndex,     \* bound: log indices
    MaxCalls      \* bound: calls between the creation of the log and the end

VARIABLES
    policy,
    up,           \* "open", "down", or "refused": open returned an error
    mirror,       \* MemoryLog; meaningless unless open
    prologue,     \* of the file: "absent" (there is no file), "torn" or "whole"
    file,         \* the records in the file
    synced,       \* how many of them are known to be on disk
    unsynced,     \* writes since the last fsync
    sidecar,      \* the snapshot in the sidecar; index 0 if there is none
    job,          \* what is left to do of the call in progress
    calls,
    promised      \* history: what the store may come back with, by what calls have reported

vars == <<policy, up, mirror, prologue, file, synced, unsynced, sidecar, job, calls, promised>>

-----------------------------------------------------------------------------
(* MemoryLog.  ok is FALSE once an operation has returned an error.         *)

NoSnapshot == [index |-> 0, term |-> 0, data |-> TRUE]

Fresh == [ok |-> TRUE, hard |-> 0, snap |-> NoSnapshot, ents |-> <<>>]

first_index(v) == v.snap.index + 1
last_index(v)  == v.snap.index + Len(v.ents)
last_term(v)   == IF v.ents = <<>> THEN v.snap.term ELSE v.ents[Len(v.ents)]

append(v, index, term) ==
    IF index = last_index(v) + 1 THEN [v EXCEPT !.ents = Append(@, term)] ELSE [v EXCEPT !.ok = FALSE]

truncate_from(v, index) ==
    LET n == index - first_index(v)
    IN  IF n < 0 THEN [v EXCEPT !.ok = FALSE]
        ELSE [v EXCEPT !.ents = SubSeq(@, 1, IF n < Len(@) THEN n ELSE Len(@))]

save_snapshot(v, snap) ==
    LET n == snap.index - v.snap.index
    IN  IF n < 0 THEN [v EXCEPT !.ok = FALSE]
        ELSE [v EXCEPT !.snap = snap, !.ents = SubSeq(@, n + 1, Len(@))]

install_snapshot(v, snap) == [v EXCEPT !.snap = snap, !.ents = <<>>]

-----------------------------------------------------------------------------
(* The records, and open.                                                   *)

EntryRecord(index, term) == [tag |-> "entry", index |-> index, term |-> term]
HardRecord(hard)         == [tag |-> "hard", hard |-> hard]
TruncateRecord(index)    == [tag |-> "truncate", index |-> index]
SnapshotRecord(snap)     == [tag |-> "snapshot", index |-> snap.index, term |-> snap.term]
Torn                     == [tag |-> "torn"]

apply_record(v, r) ==
    CASE ~v.ok -> v
      [] v.ok /\ r.tag = "entry" ->
            LET t == IF r.index <= last_index(v) THEN truncate_from(v, r.index) ELSE v
            IN  IF t.ok THEN append(t, r.index, r.term) ELSE t
      [] v.ok /\ r.tag = "hard" -> [v EXCEPT !.hard = r.hard]
      [] v.ok /\ r.tag = "truncate" ->
            IF r.index < first_index(v) THEN v ELSE truncate_from(v, r.index)
      [] v.ok /\ r.tag = "snapshot" ->
            IF v.snap.index >= r.index THEN v
            ELSE save_snapshot(v, [index |-> r.index, term |-> r.term, data |-> FALSE])

(* The records before the first one that is incomplete or fails its         *)
(* checksum: where replay stops, and where the repair cuts the file.         *)
Complete(recs) ==
    LET bad == {i \in 1 .. Len(recs) : recs[i].tag = "torn"}
    IN  IF bad = {} THEN recs ELSE SubSeq(recs, 1, (CHOOSE i \in bad : \A j \in bad : i <= j) - 1)

replay(recs, snap) == FoldLeft(apply_record, install_snapshot(Fresh, snap), Complete(recs))

(* Mutated form: replay stops at a torn record and leaves it in the file.   *)
RepairedNot(recs) == recs

Repaired(recs) == Complete(recs)

(* What open makes of the disk.  A file whose prologue is torn is emptied   *)
(* but gets no new prologue: a record written to it later is taken for the   *)
(* prologue by the next open, unless it is itself cut off before byte 10.    *)
Recoveries ==
    IF prologue # "torn" THEN {replay(file, sidecar)}
    ELSE LET empty == install_snapshot(Fresh, sidecar)
         IN  (IF file = <<>> \/ file = <<Torn>> THEN {empty} ELSE {})
             \cup (IF file # <<>> THEN {[empty EXCEPT !.ok = FALSE]} ELSE {})

Open ==
    /\ up # "open"
    /\ \E v \in Recoveries :
          \/ /\ v.ok
             /\ up' = "open" /\ mirror' = v
             /\ prologue' = IF prologue = "absent" THEN "whole" ELSE prologue
             /\ file' = IF prologue = "torn" THEN <<>> ELSE Repaired(file)
             /\ synced' = IF Complete(file) = file THEN synced ELSE Len(file')
             /\ unsynced' = 0 /\ job' = <<>>
          \/ /\ ~v.ok
             /\ up' = "refused"
             /\ UNCHANGED <<mirror, prologue, file, synced, unsynced, job>>
    /\ UNCHANGED <<policy, sidecar, calls, promised>>

(* A crash while open creates the file.                                     *)
CrashInCreation ==
    /\ up = "down" /\ prologue = "absent"
    /\ prologue' = "torn"
    /\ UNCHANGED <<policy, up, mirror, file, synced, unsynced, sidecar, job, calls, promised>>

-----------------------------------------------------------------------------
(* The steps of a call.                                                     *)

Write(r)      == [do |-> "write", rec |-> r]
Sync          == [do |-> "sync"]
Mirror(v)     == [do |-> "mirror", view |-> v]
Sidecar(snap) == [do |-> "sidecar", snap |-> snap]
Regenerate    == [do |-> "regenerate"]

should_sync(p, writes) == p.every # 0 /\ writes >= p.every

(* Mutated form: the hard state is forgotten.                               *)
RegeneratedSoft(v) ==
    (IF v.snap.index > 0 THEN <<SnapshotRecord(v.snap)>> ELSE <<>>)
    \o [i \in 1 .. Len(v.ents) |-> EntryRecord(v.snap.index + i, v.ents[i])]

(* What regenerate writes: boundary, hard state, the surviving entries.     *)
Regenerated(v) ==
    (IF v.snap.index > 0 THEN <<SnapshotRecord(v.snap)>> ELSE <<>>)
    \o <<HardRecord(v.hard)>>
    \o [i \in 1 .. Len(v.ents) |-> EntryRecord(v.snap.index + i, v.ents[i])]

Disk == <<prologue, file, synced, unsynced, sidecar>>

(* One step on the mirror or the disk; the call returns after its last.     *)
Step ==
    LET s == Head(job)
    IN  /\ up = "open" /\ job # <<>>
        /\ \/ /\ s.do = "mirror"
              /\ mirror' = s.view /\ job' = Tail(job)
              /\ UNCHANGED Disk
           \/ /\ s.do = "write"
              /\ file' = Append(file, s.rec) /\ unsynced' = unsynced + 1
              /\ job' = IF should_sync(policy, unsynced + 1) THEN <<Sync>> \o Tail(job) ELSE Tail(job)
              /\ UNCHANGED <<mirror, prologue, synced, sidecar>>
           \/ /\ s.do = "sync"
              /\ synced' = Len(file) /\ unsynced' = 0 /\ job' = Tail(job)
              /\ UNCHANGED <<mirror, prologue, file, sidecar>>
           \/ /\ s.do = "sidecar"
              /\ sidecar' = s.snap /\ job' = Tail(job)
              /\ UNCHANGED <<mirror, prologue, file, synced, unsynced>>
           \/ /\ s.do = "regenerate"
              /\ prologue' = "whole" /\ file' = Regenerated(mirror)
              /\ synced' = Len(file') /\ unsynced' = 0 /\ job' = Tail(job)
              /\ UNCHANGED <<mirror, sidecar>>
        /\ promised' = IF job' = <<>> THEN {mirror'} ELSE promised
        /\ UNCHANGED <<policy, up, calls>>

-----------------------------------------------------------------------------
(* The calls RaftNode makes.                                                *)

(* After(v) is what a crash inside the call may leave of it, on a store     *)
(* that held v.                                                              *)
Begin(steps, After(_)) ==
    /\ up = "open" /\ job = <<>> /\ calls < MaxCalls
    /\ calls' = calls + 1
    /\ job' = steps
    /\ promised' = promised \cup {v \in UNION {After(u) : u \in promised} : v.ok}
    /\ UNCHANGED <<policy, up, mirror, Disk>>

(* The term and the vote.                                                   *)
SaveHardState ==
    \E hard \in mirror.hard + 1 .. MaxTerm :
        LET With(v) == [v EXCEPT !.hard = hard]
        IN  Begin(<<Write(HardRecord(hard)), Mirror(With(mirror))>>, LAMBDA v : {With(v)})

(* One entry or two, the next ones.  A crash may keep the first alone.      *)
AppendEntries ==
    \E s, t \in last_term(mirror) .. MaxTerm :
        LET i == last_index(mirror) + 1
            One(v) == append(v, i, s)
            Two(v) == append(One(v), i + 1, t)
        IN  /\ s > 0 /\ i <= MaxIndex
            /\ \/ Begin(<<Write(EntryRecord(i, s)), Mirror(One(mirror))>>, LAMBDA v : {One(v)})
               \/ /\ s <= t /\ i + 1 <= MaxIndex
                  /\ Begin(<<Write(EntryRecord(i, s)), Write(EntryRecord(i + 1, t)), Mirror(Two(mirror))>>,
                           LAMBDA v : {One(v), Two(v)})

TruncateFrom ==
    \E i \in first_index(mirror) .. last_index(mirror) :
        Begin(<<Mirror(truncate_from(mirror, i)), Write(TruncateRecord(i))>>,
              LAMBDA v : {truncate_from(v, i)})

Compact(v) == <<Mirror(v), Sidecar(v.snap), Regenerate>>

(* A snapshot of an entry the log holds: compaction.                        *)
SaveSnapshot ==
    \E i \in first_index(mirror) .. last_index(mirror) :
        LET snap == [index |-> i, term |-> mirror.ents[i - mirror.snap.index], data |-> TRUE]
        IN  Begin(Compact(save_snapshot(mirror, snap)), LAMBDA v : {save_snapshot(v, snap)})

(* A leader's snapshot, of more than this replica has committed.            *)
InstallSnapshot ==
    \E i \in first_index(mirror) .. MaxIndex, t \in 1 .. MaxTerm :
        LET snap == [index |-> i, term |-> t, data |-> TRUE]
        IN  Begin(Compact(install_snapshot(mirror, snap)), LAMBDA v : {install_snapshot(v, snap)})

-----------------------------------------------------------------------------
(* Crashes.                                                                 *)

Writing == job # <<>> /\ Head(job).do = "write"

(* The process dies; the kernel keeps what was written, whole or in part.   *)
Kill ==
    /\ up = "open" /\ up' = "down"
    /\ \/ file' = file
       \/ Writing /\ file' = Append(file, Torn)
    /\ UNCHANGED <<policy, mirror, prologue, synced, unsynced, sidecar, job, calls, promised>>

(* The machine dies: of what was not forced to disk some prefix is left,    *)
(* and perhaps part of the next record.  Policies other than Always do not   *)
(* claim to survive it.                                                      *)
PowerCut ==
    /\ policy.safe
    /\ up = "open" /\ up' = "down"
    /\ \E n \in synced .. Len(file) :
          /\ \/ file' = SubSeq(file, 1, n)
             \/ (n < Len(file) \/ Writing) /\ file' = Append(SubSeq(file, 1, n), Torn)
          /\ synced' = Len(file')
    /\ UNCHANGED <<policy, mirror, prologue, unsynced, sidecar, job, calls, promised>>

-----------------------------------------------------------------------------

Init ==
    /\ policy \in Policies
    /\ up = "down" /\ mirror = Fresh
    /\ prologue = "absent" /\ file = <<>> /\ synced = 0 /\ unsynced = 0 /\ sidecar = NoSnapshot
    /\ job = <<>> /\ calls = 0 /\ promised = {Fresh}

Next ==
    \/ Open \/ CrashInCreation \/ Kill \/ PowerCut
    \/ SaveHardState \/ AppendEntries \/ TruncateFrom \/ SaveSnapshot \/ InstallSnapshot
    \/ Step

Spec == Init /\ [][Next]_vars

-----------------------------------------------------------------------------
(* Properties.                                                              *)

(* "Everything an Ok append reported is there after a restart": a store     *)
(* that opens holds what the last call to return had made of it, and of a    *)
(* call that a crash cut short all, nothing or a first part, whatever was    *)
(* torn and wherever (open, replay, apply_record, set_len).                  *)
Durable ==
    up = "open" /\ job = <<>> => mirror \in promised

(* The file is the authority: between calls, opening it would give back     *)
(* exactly the mirror reads are served from (apply_record, regenerate).      *)
FileIsAuthority ==
    up = "open" /\ job = <<>> /\ prologue = "whole" => replay(file, sidecar) = mirror

(* A crash leaves a log that opens.  One during creation leaves a file that  *)
(* is "treated as a fresh one to be rewritten" (replay), one inside a        *)
(* compaction "the old complete log" (regenerate).                           *)
Reopens == up # "refused"
=============================================================================
