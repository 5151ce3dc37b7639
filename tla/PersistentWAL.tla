--------------------------- MODULE PersistentWAL ---------------------------
(***************************************************************************)
(* The commit protocol of the persistent image store: the write-ahead log  *)
(* metadata.wal, the two snapshot slots metadata.0 and metadata.1, the      *)
(* durability barriers (Fsync, FsyncDir, SyncFS, Close), the compaction of  *)
(* a long log into a snapshot, and what opening the store recovers.         *)
(*                                                                          *)
(* A persistent state is a function from record keys to values: a key is    *)
(* one inode record or directory entry of persistentImageState, a value its *)
(* contents (absence is a value too).  A delta is a partial function.       *)
(*                                                                          *)
(* Every file has two contents: what a reader of the running host sees      *)
(* (wal, slot, marks) and what stable storage holds (walDisk, slotDisk,     *)
(* marksDisk).  Killing the process keeps the first; a power failure falls  *)
(* back towards the second.  Syncing the store's directory makes its names  *)
(* stable on POSIX; on Windows it does nothing.                             *)
(***************************************************************************)
EXTENDS Integers, Sequences

CONSTANTS
  Keys,          \* record keys of the persistent state
  Values,        \* contents of a record
  Absent,        \* the contents of a record that does not exist
  Hosts,         \* the hosts the store may run on
  MaxSeq,        \* bound on sequence numbers
  MaxLog,        \* bound on the records of the log
  MaxCrashes     \* bound on crashes

FaultPoints == {"attach", "append", "wal-write", "wal-sync", "reclaim", "stage", "publish",
                "dir-sync", "reset-open", "reset-sync"}

\* A host: its platform, which of its operations may report an error, and how
\* an attachment may end on it without Close.
Host == [windows : BOOLEAN, faults : SUBSET FaultPoints, crashes : SUBSET {"process", "power"}]

ASSUME ValuesAssumption == Absent \in Values
ASSUME HostsAssumption == Hosts \subseteq Host
ASSUME BoundsAssumption == MaxSeq \in Nat /\ MaxSeq >= 2 /\ MaxLog \in Nat /\ MaxCrashes \in Nat

State == [Keys -> Values]
Delta == UNION {[K -> Values] : K \in SUBSET Keys}

\* applyPersistentImageDelta: the records a delta names replace the old ones.
Apply(s, d) == [k \in Keys |-> IF k \in DOMAIN d THEN d[k] ELSE s[k]]

Empty == [k \in Keys |-> Absent]
Barrier == [k \in {} |-> Absent]

Torn == [seq |-> 0, delta |-> Barrier]
None == [seq |-> 0, state |-> Empty]
Record == [seq : Nat, delta : Delta]
Snapshot == [seq : Nat, state : State]
Slots == {0, 1}
Markers == {"INITIALIZED", "DIRTY"}

VARIABLES
  host,             \* the host this store is on
  wal, walDisk,     \* metadata.wal: visible and stable contents
  slot, slotDisk,   \* metadata.0, metadata.1: visible and stable contents
  marks, marksDisk, \* INITIALIZED and DIRTY: those that exist, visibly and stably
  pc,               \* where the attachment is
  op,               \* the operation that is running
  delta,            \* the delta it appends
  sequence,         \* persistentImageStore.sequence
  metadataSlot,     \* persistentImageStore.metadataSlot
  durable,          \* persistentImageStore.durableState
  live,             \* the file system's state in memory
  pending,          \* persistentImageStore.pending: keys changed in memory
  pos,              \* replayWAL's position in the log
  crashes,          \* crashes so far
  used,             \* ghost: an attachment has been handed to a caller
  promise,          \* ghost: the states the callers may find after a crash
  hist              \* ghost: hist[n] is the state sequence number n stands for

names == <<slot, slotDisk, marks, marksDisk>>
disk == <<wal, walDisk, slot, slotDisk, marks, marksDisk>>
memory == <<op, delta, sequence, metadataSlot, durable, live, pending, pos>>
ghost == <<crashes, used, promise, hist>>
vars == <<host, wal, walDisk, slot, slotDisk, marks, marksDisk, pc, op, delta, sequence,
          metadataSlot, durable, live, pending, pos, crashes, used, promise, hist>>

Init ==
  /\ host \in Hosts
  /\ wal = <<>> /\ walDisk = <<>>
  /\ slot = [i \in Slots |-> None] /\ slotDisk = [i \in Slots |-> None]
  /\ marks = {} /\ marksDisk = {}
  /\ pc = "closed" /\ op = "none" /\ delta = Barrier
  /\ sequence = 0 /\ metadataSlot = 0
  /\ durable = Empty /\ live = Empty /\ pending = {}
  /\ pos = 1 /\ crashes = 0 /\ used = FALSE
  /\ promise = {Empty} /\ hist = [n \in 0..MaxSeq |-> Empty]

-----------------------------------------------------------------------------
(* The host. *)

Windows == host.windows
Faults == host.faults
CrashKinds == host.crashes

\* syncPersistentDirectory: the names in the directory become stable on POSIX;
\* on Windows nothing happens and nothing can fail.
SyncDir ==
  IF Windows THEN UNCHANGED <<slotDisk, marksDisk>>
             ELSE slotDisk' = slot /\ marksDisk' = marks

SyncDirMayFail == ~Windows /\ "dir-sync" \in Faults

\* The store is closed and what it had in memory is gone.
Detach ==
  /\ pc' = "closed"
  /\ op' = "none" /\ delta' = Barrier
  /\ sequence' = 0 /\ metadataSlot' = 0
  /\ durable' = Empty /\ live' = Empty /\ pending' = {} /\ pos' = 1

-----------------------------------------------------------------------------
(* Opening the store. *)

Published == {i \in Slots : slot[i] # None}

\* load: the valid slot with the highest sequence, slot 0 on a tie.
IsBest(i) ==
  /\ i \in Published
  /\ \A j \in Published : slot[j].seq <= slot[i].seq
  /\ \A j \in Published : slot[j].seq = slot[i].seq => i <= j

\* openPersistentImageStore up to replayWAL.
OpenLoad ==
  /\ pc = "closed"
  /\ \E i \in Slots :
       /\ IsBest(i)
       /\ metadataSlot' = i
       /\ sequence' = slot[i].seq
       /\ durable' = slot[i].state
  /\ op' = "none" /\ delta' = Barrier /\ pos' = 1
  /\ pc' = "replay"
  /\ UNCHANGED <<disk, live, pending, ghost>>

\* ensureEmptyUninitialized: nothing may hint at an earlier file system.
MayInitialize == "INITIALIZED" \notin marks /\ wal = <<>>

\* NewPersistentImageFS on a store without metadata: checkpoint an empty one.
OpenInit ==
  /\ pc = "closed" /\ Published = {} /\ MayInitialize
  /\ metadataSlot' = 0 /\ sequence' = 0
  /\ durable' = Empty /\ live' = Empty /\ pending' = {}
  /\ op' = "init" /\ delta' = Barrier
  /\ pc' = "recovered"
  /\ UNCHANGED <<disk, pos, ghost>>

\* ensureEmptyUninitialized refuses; the store stays closed.
OpenRefused ==
  /\ pc = "closed" /\ Published = {} /\ ~MayInitialize
  /\ pc' = "refused"
  /\ UNCHANGED <<disk, memory, ghost>>

\* The user tries again.
Retry ==
  /\ pc = "refused"
  /\ pc' = "closed"
  /\ UNCHANGED <<disk, memory, ghost>>

\* replayWAL on one intact record: already in the snapshot, or next in order.
Replayable == pos <= Len(wal) /\ wal[pos] # Torn
Covered == wal[pos].seq <= slot[metadataSlot].seq
Skips == Replayable /\ Covered /\ sequence = slot[metadataSlot].seq
Applies == Replayable /\ ~Covered /\ wal[pos].seq = sequence + 1

ReplaySkip ==
  /\ pc = "replay" /\ Skips
  /\ pos' = pos + 1
  /\ UNCHANGED <<disk, pc, op, delta, sequence, metadataSlot, durable, live, pending, ghost>>

ReplayApply ==
  /\ pc = "replay" /\ Applies
  /\ durable' = Apply(durable, wal[pos].delta)
  /\ sequence' = sequence + 1
  /\ pos' = pos + 1
  /\ UNCHANGED <<disk, pc, op, delta, metadataSlot, live, pending, ghost>>

\* How much of the log replayWAL keeps: all it replayed, or nothing when every
\* intact record was already in the snapshot.
Kept == IF ~Replayable /\ sequence = slot[metadataSlot].seq THEN 0 ELSE pos - 1

\* replayWAL's end: the rest of the log, if any, is quarantined (the log is
\* truncated and synced).
ReplayEnd ==
  /\ pc = "replay" /\ ~Skips /\ ~Applies
  /\ wal' = SubSeq(wal, 1, Kept)
  /\ walDisk' = IF Kept < Len(wal) THEN wal' ELSE walDisk
  /\ pos' = 1
  /\ pc' = "recovered"
  /\ UNCHANGED <<names, op, delta, sequence, metadataSlot, durable, live, pending, ghost>>

\* quarantineWALTail truncates the log and cannot sync it.
QuarantineFails ==
  /\ pc = "replay" /\ ~Skips /\ ~Applies /\ Kept < Len(wal) /\ "wal-sync" \in Faults
  /\ wal' = SubSeq(wal, 1, Kept)
  /\ Detach
  /\ UNCHANGED <<walDisk, names, ghost>>

\* recoverIncompleteAttachment: the DIRTY marker an attachment left behind is
\* renamed away and the directory synced.
RecoverIncomplete ==
  /\ pc = "recovered"
  /\ marks' = marks \ {"DIRTY"}
  /\ pc' = IF "DIRTY" \in marks THEN "renamed" ELSE "opened"
  /\ UNCHANGED <<wal, walDisk, slot, slotDisk, marksDisk, memory, ghost>>

\* NewPersistentImageFS restores the state, or checkpoints an empty one.
Restore ==
  /\ pc = "opened"
  /\ live' = durable /\ pending' = {}
  /\ pc' = IF op = "init" THEN "append" ELSE "restored"
  /\ UNCHANGED <<disk, op, delta, sequence, metadataSlot, durable, pos, ghost>>

\* markInitialized: a marker that exists is left as it is.
MarkInitialized ==
  /\ pc = "restored"
  /\ marks' = marks \cup {"INITIALIZED"}
  /\ pc' = IF "INITIALIZED" \in marks THEN "initialized" ELSE "marked"
  /\ UNCHANGED <<wal, walDisk, slot, slotDisk, marksDisk, memory, ghost>>

\* markAttached.
MarkAttached ==
  /\ pc = "initialized"
  /\ marks' = marks \cup {"DIRTY"}
  /\ pc' = "dirtied"
  /\ UNCHANGED <<wal, walDisk, slot, slotDisk, marksDisk, memory, ghost>>

\* The directory sync that recoverIncompleteAttachment and markInitialized end with.
MarkSync ==
  /\ \/ pc = "renamed" /\ pc' = "opened"
     \/ pc = "marked" /\ pc' = "initialized"
  /\ SyncDir
  /\ UNCHANGED <<wal, walDisk, slot, marks, memory, ghost>>

\* The one that markAttached ends with; the caller gets its file system.  A
\* state read from stable storage is one the next crash has to bring back.
Attach ==
  /\ pc = "dirtied"
  /\ SyncDir
  /\ pc' = "attached" /\ used' = TRUE
  /\ promise' = IF wal = walDisk /\ slotDisk' = slot THEN promise \cap {durable} ELSE promise
  /\ UNCHANGED <<wal, walDisk, slot, marks, memory, crashes, hist>>

\* Any of these steps fails and the store is closed again.
OpenFails ==
  /\ \/ pc \in {"replay", "recovered", "opened", "restored", "marked", "initialized"}
        /\ "attach" \in Faults
     \/ pc \in {"renamed", "marked", "dirtied"} /\ SyncDirMayFail
  /\ Detach
  /\ UNCHANGED <<disk, ghost>>

-----------------------------------------------------------------------------
(* The attached file system: mutations stay in memory until a barrier. *)

\* Create, Write, SetAttr, Rename, Unlink...: the record and its pending mark.
MutateUnmarked(k, v) ==
  /\ pc = "attached" /\ live[k] # v
  /\ live' = [live EXCEPT ![k] = v]
  /\ UNCHANGED <<disk, pc, op, delta, sequence, metadataSlot, durable, pending, pos, ghost>>

Mutate(k, v) ==
  /\ pc = "attached" /\ live[k] # v
  /\ live' = [live EXCEPT ![k] = v]
  /\ pending' = pending \cup {k}
  /\ UNCHANGED <<disk, pc, op, delta, sequence, metadataSlot, durable, pos, ghost>>

Only(K) == [k \in K |-> live[k]]

\* A barrier starts appendDelta(delta, true) with mutationMu held.
Start(name, d) ==
  /\ pc = "attached" /\ sequence + 2 <= MaxSeq /\ Len(wal) < MaxLog
  /\ op' = name /\ delta' = d
  /\ promise' = promise \cup {Apply(s, d) : s \in promise}
  /\ pc' = "append"
  /\ UNCHANGED <<disk, sequence, metadataSlot, durable, live, pending, pos, crashes, used, hist>>

\* Fsync: one inode's record, pending or not.
Fsync(k) == Start("fsync", Only({k}))

\* FsyncDir: the pending records except those of files with dirty data, which
\* keep their durable contents.  Nothing pending: nothing is appended.
FsyncDir(K) == pending # {} /\ K \subseteq pending /\ Start("fsyncdir", Only(K))

FsyncDirClean ==
  /\ pc = "attached" /\ pending = {}
  /\ op' = "fsyncdir" /\ delta' = Barrier
  /\ pc' = "maybe"
  /\ UNCHANGED <<disk, sequence, metadataSlot, durable, live, pending, pos, ghost>>

\* SyncFS and Close: everything pending, or a bare barrier record.
SyncFS == Start("syncfs", Only(pending))
Close == Start("close", Only(pending))

\* The operation returns and the attachment goes on.
Resume ==
  /\ pc' = "attached"
  /\ op' = "none" /\ delta' = Barrier
  /\ UNCHANGED <<sequence, metadataSlot, durable, live, pending, pos>>

\* NewPersistentImageFS and Close give the store up when a step fails.
Final == op \in {"close", "init"}

Fail ==
  /\ IF Final THEN Detach ELSE Resume
  /\ UNCHANGED <<marks, marksDisk, ghost>>

AppendFails ==
  /\ pc = "append" /\ "append" \in Faults
  /\ Fail /\ UNCHANGED <<wal, walDisk, slot, slotDisk>>

\* appendDelta's header or payload write fails part way.
AppendTears ==
  /\ pc = "append" /\ "wal-write" \in Faults
  /\ wal' = Append(wal, Torn)
  /\ Fail /\ UNCHANGED <<walDisk, slot, slotDisk>>

AppendWrite ==
  /\ pc = "append"
  /\ wal' = Append(wal, [seq |-> sequence + 1, delta |-> delta])
  /\ hist' = [hist EXCEPT ![sequence + 1] = Apply(durable, delta)]
  /\ pc' = "written"
  /\ UNCHANGED <<walDisk, slot, slotDisk, marks, marksDisk, memory, crashes, used, promise>>

AppendSyncFails ==
  /\ pc = "written" /\ "wal-sync" \in Faults
  /\ Fail /\ UNCHANGED <<wal, walDisk, slot, slotDisk>>

AppendSyncMissing ==
  /\ pc = "written"
  /\ sequence' = sequence + 1
  /\ durable' = Apply(durable, delta)
  /\ pending' = pending \ DOMAIN delta
  /\ pc' = IF Final THEN "save" ELSE "maybe"
  /\ UNCHANGED <<disk, op, delta, metadataSlot, live, pos, ghost>>

\* file.Sync, then the in-memory sequence, durable state and pending marks.
AppendSync ==
  /\ pc = "written"
  /\ walDisk' = wal
  /\ sequence' = sequence + 1
  /\ durable' = Apply(durable, delta)
  /\ pending' = pending \ DOMAIN delta
  /\ pc' = IF Final THEN "save" ELSE "maybe"
  /\ UNCHANGED <<wal, slot, slotDisk, marks, marksDisk, op, delta, metadataSlot, live, pos, ghost>>

\* Success: the caller may rely on the delta from now on.
Acknowledge == promise' = {Apply(s, delta) : s \in promise}

\* Reclaiming the data that the record made obsolete fails.
ReclaimFails ==
  /\ pc = "maybe" /\ "reclaim" \in Faults
  /\ Fail /\ UNCHANGED <<wal, walDisk, slot, slotDisk>>

\* maybeCheckpointPersistentLocked: the log is short, or it is compacted.
Return ==
  /\ pc = "maybe"
  /\ Acknowledge
  /\ Resume
  /\ UNCHANGED <<disk, crashes, used, hist>>

Compact ==
  /\ pc = "maybe" /\ sequence + 1 <= MaxSeq
  /\ pc' = "save"
  /\ UNCHANGED <<disk, memory, ghost>>

-----------------------------------------------------------------------------
(* save: a snapshot is staged, renamed into the other slot, made durable. *)

NextSlot == metadataSlot + 1
SameSlot == metadataSlot
OtherSlot == 1 - metadataSlot

\* Close and initialization save the live state, compaction the durable one.
SavedLive == [seq |-> sequence + 1, state |-> live]
Saved == [seq |-> sequence + 1,
          state |-> IF Final THEN live ELSE durable]

\* Staging, syncing and verifying the temporary file fails.
StageFails ==
  /\ pc = "save" /\ "stage" \in Faults
  /\ Fail /\ UNCHANGED <<wal, walDisk, slot, slotDisk>>

\* replacePersistentFile on Windows removes the target first.
RemoveSlot ==
  /\ pc = "save" /\ Windows
  /\ slot' = [slot EXCEPT ![OtherSlot] = None]
  /\ pc' = "removed"
  /\ UNCHANGED <<wal, walDisk, slotDisk, marks, marksDisk, memory, ghost>>

Replacing == IF Windows THEN "removed" ELSE "save"

PublishFails ==
  /\ pc = Replacing /\ "publish" \in Faults
  /\ Fail /\ UNCHANGED <<wal, walDisk, slot, slotDisk>>

Publish ==
  /\ pc = Replacing
  /\ slot' = [slot EXCEPT ![OtherSlot] = Saved]
  /\ hist' = [hist EXCEPT ![sequence + 1] = Saved.state]
  /\ pc' = "published"
  /\ UNCHANGED <<wal, walDisk, slotDisk, marks, marksDisk, memory, crashes, used, promise>>

DirSyncFails ==
  /\ pc = "published" /\ SyncDirMayFail
  /\ Fail /\ UNCHANGED <<wal, walDisk, slot, slotDisk>>

DirSync ==
  /\ pc = "published"
  /\ SyncDir
  /\ sequence' = sequence + 1
  /\ metadataSlot' = OtherSlot
  /\ durable' = Saved.state
  /\ pc' = "saved"
  /\ UNCHANGED <<wal, walDisk, slot, marks, op, delta, live, pending, pos, ghost>>

-----------------------------------------------------------------------------
(* resetWAL: the log is truncated and synced, then the directory. *)

ResetFails ==
  /\ \/ pc = "saved" /\ "reset-open" \in Faults /\ UNCHANGED walDisk
     \/ pc = "truncated" /\ "reset-sync" \in Faults /\ UNCHANGED walDisk
     \/ pc = "truncated" /\ SyncDirMayFail /\ walDisk' = wal
  /\ Fail /\ UNCHANGED <<wal, slot, slotDisk>>

ResetTruncate ==
  /\ pc = "saved"
  /\ wal' = <<>>
  /\ pc' = "truncated"
  /\ UNCHANGED <<walDisk, names, memory, ghost>>

\* The reset is the last step of a checkpoint: the barrier returns, and Close
\* and initialization go on with the markers.
ResetSync ==
  /\ pc = "truncated"
  /\ walDisk' = wal
  /\ SyncDir
  /\ Acknowledge
  /\ pc' = CASE op = "close" -> "clean" [] op = "init" -> "restored" [] OTHER -> "attached"
  /\ op' = "none" /\ delta' = Barrier
  /\ UNCHANGED <<wal, slot, marks, sequence, metadataSlot, durable, live, pending, pos,
                 crashes, used, hist>>

\* markClean: Close removes DIRTY and syncs the directory.  The store is
\* closed whether or not that succeeds.
MarkClean ==
  /\ pc = "clean"
  /\ marks' = marks \ {"DIRTY"}
  /\ pc' = "cleaned"
  /\ UNCHANGED <<wal, walDisk, slot, slotDisk, marksDisk, memory, ghost>>

CleanSync ==
  /\ pc = "cleaned"
  /\ SyncDir
  /\ Detach
  /\ UNCHANGED <<wal, walDisk, slot, marks, ghost>>

CleanFails ==
  /\ \/ pc = "clean" /\ "attach" \in Faults
     \/ pc = "cleaned" /\ SyncDirMayFail
  /\ Detach
  /\ UNCHANGED <<disk, ghost>>

-----------------------------------------------------------------------------
(* Crashes. *)

\* What a power failure leaves of the log: the stable contents, or those and
\* some of the appended records, the last of them possibly torn.  A
\* truncation that was not synced may or may not have happened.
IsAppended == Len(walDisk) <= Len(wal) /\ SubSeq(wal, 1, Len(walDisk)) = walDisk

AfterPower ==
  {walDisk} \cup
  {SubSeq(wal, 1, n) : n \in (IF IsAppended THEN Len(walDisk) ELSE 0)..Len(wal)} \cup
  {Append(SubSeq(wal, 1, n), Torn) :
     n \in (IF IsAppended THEN Len(walDisk) ELSE 0)..(Len(wal) - 1)}

Crash ==
  /\ crashes < MaxCrashes
  /\ crashes' = crashes + 1
  /\ Detach
  /\ UNCHANGED <<used, promise, hist>>

ProcessCrash ==
  /\ pc # "closed" /\ "process" \in CrashKinds
  /\ Crash
  /\ UNCHANGED disk

\* Each name is on stable storage or not, independently.
PowerFailure ==
  /\ "power" \in CrashKinds
  /\ Crash
  /\ \E w \in AfterPower : wal' = w /\ walDisk' = w
  /\ \E lost \in SUBSET {i \in Slots : slot[i] # slotDisk[i]} :
       /\ slot' = [i \in Slots |-> IF i \in lost THEN slotDisk[i] ELSE slot[i]]
       /\ slotDisk' = slot'
  /\ \E kept \in SUBSET ((marks \cup marksDisk) \ (marks \cap marksDisk)) :
       /\ marks' = (marks \cap marksDisk) \cup kept
       /\ marksDisk' = marks'

-----------------------------------------------------------------------------

Open == OpenLoad \/ OpenInit \/ OpenRefused \/ Retry
Replay == ReplaySkip \/ ReplayApply \/ ReplayEnd \/ QuarantineFails
Attachment ==
  RecoverIncomplete \/ Restore \/ MarkInitialized \/ MarkAttached \/ MarkSync \/ Attach \/ OpenFails
Begin ==
  \/ \E k \in Keys : Fsync(k)
  \/ \E K \in SUBSET Keys : FsyncDir(K)
  \/ FsyncDirClean
  \/ SyncFS
  \/ Close
AppendDelta == AppendFails \/ AppendTears \/ AppendWrite \/ AppendSyncFails \/ AppendSync
Settle == ReclaimFails \/ Return \/ Compact
Save == StageFails \/ RemoveSlot \/ PublishFails \/ Publish \/ DirSyncFails \/ DirSync
Reset == ResetFails \/ ResetTruncate \/ ResetSync
Clean == MarkClean \/ CleanSync \/ CleanFails

Step ==
  \/ Open
  \/ Replay
  \/ Attachment
  \/ \E k \in Keys, v \in Values : Mutate(k, v)
  \/ Begin
  \/ AppendDelta
  \/ Settle
  \/ Save
  \/ Reset
  \/ Clean
  \/ ProcessCrash
  \/ PowerFailure

Next == Step /\ UNCHANGED host

Spec == Init /\ [][Next]_vars

-----------------------------------------------------------------------------
(* Properties. *)

Pcs == {"closed", "refused", "replay", "recovered", "renamed", "opened", "restored", "marked",
        "initialized", "dirtied", "attached", "append", "written", "maybe",
        "save", "removed", "published", "saved", "truncated", "clean", "cleaned"}
Ops == {"none", "init", "fsync", "fsyncdir", "syncfs", "close"}

\* Every variable has its type.
TypeOK ==
  /\ wal \in Seq(Record) /\ walDisk \in Seq(Record)
  /\ slot \in [Slots -> Snapshot] /\ slotDisk \in [Slots -> Snapshot]
  /\ host \in Hosts /\ marks \in SUBSET Markers /\ marksDisk \in SUBSET Markers
  /\ pc \in Pcs /\ op \in Ops /\ delta \in Delta
  /\ sequence \in Nat /\ metadataSlot \in Slots
  /\ durable \in State /\ live \in State /\ pending \in SUBSET Keys
  /\ pos \in Nat \ {0} /\ (pc = "replay" => pos <= Len(wal) + 1)
  /\ crashes \in Nat /\ used \in BOOLEAN
  /\ promise \in SUBSET State /\ hist \in [0..MaxSeq -> State]

\* What a barrier acknowledged is never lost and nothing else appears: once the
\* store is attached, its durable state is one the callers were promised (the
\* last acknowledged state, or one a barrier since then was writing).
Durability == pc = "attached" => durable \in promise

\* A barrier that fails forgets nothing: as long as the store is attached, a
\* record whose live contents differ from the durable ones is still pending.
NothingForgotten ==
  pc = "attached" => \A k \in Keys : k \notin pending => live[k] = durable[k]

\* The hosts a used store may rely on: on Windows, whose directory sync does
\* nothing, a power failure may take both snapshots.
Sheltered == Windows => "power" \notin CrashKinds

\* Once NewPersistentImageFS has succeeded, the store can always be opened
\* again: whatever fails and wherever a process is killed or, on POSIX, the
\* power fails, one of the two slots holds a snapshot.  (Before that a power
\* failure can leave INITIALIZED without a snapshot and a store that refuses
\* to open, but no caller has been given anything in it.)
UsedReopens == Sheltered /\ used => pc # "refused"

-----------------------------------------------------------------------------
(* The inductive invariant behind Durability, for a store on POSIX whose log *)
(* writes, log syncs and directory syncs do not fail and which only power    *)
(* failures interrupt.                                                       *)

Reliable ==
  \A h \in Hosts :
    /\ ~h.windows
    /\ h.faults \cap {"wal-write", "wal-sync", "dir-sync"} = {}
    /\ "process" \notin h.crashes

\* The first len records of log w, read over a snapshot with sequence s: the
\* first c are covered by the snapshot, the others lead from h[s] to h[n].
Reads(h, w, c, len, s, n) ==
  /\ c <= len /\ n = s + len - c
  /\ \A p \in 1..c : 1 <= w[p].seq /\ w[p].seq <= s
  /\ \A p \in (c + 1)..len :
       /\ w[p].seq = s + p - c
       /\ h[s + p - c] = Apply(h[s + p - c - 1], w[p].delta)

Older(x, s) == x = None \/ x.seq < s

\* Stable storage: slot m and the log bring back hist[n], a promised state.
\* Only the very last record can be torn, and only right after a crash.
StableInv(m, n, c, len) ==
  /\ slot[m] = slotDisk[m]
  /\ hist[slot[m].seq] = slot[m].state
  /\ Older(slotDisk[1 - m], slot[m].seq)
  /\ Reads(hist, walDisk, c, len, slot[m].seq, n)
  /\ \/ len = Len(walDisk)
     \/ /\ Len(walDisk) = len + 1 /\ walDisk[len + 1] = Torn
        /\ wal = walDisk /\ pc \in {"closed", "refused", "replay"}
  /\ hist[n] \in promise

InFlight == [seq |-> sequence + 1, delta |-> delta]

\* The visible files differ from the stable ones by the step in progress, or
\* by a truncation of a log that the snapshot covers.
VisibleInv(m, n) ==
  /\ IF pc = "written"
     THEN \/ wal = Append(walDisk, InFlight)
          \/ n = slot[m].seq /\ wal = <<InFlight>>
     ELSE \/ wal = walDisk
          \/ n = slot[m].seq /\ wal = <<>>
  /\ IF pc = "published"
     THEN slot[1 - m] = Saved
     ELSE Older(slot[1 - m], slot[m].seq)

Busy == {"append", "written", "maybe", "save", "removed", "published", "saved", "truncated"}
Committed == {"maybe", "save", "removed", "published", "saved", "truncated"}

\* replayWAL has reached the state of the records before pos.
ReplayInv(m, c, len) ==
  /\ metadataSlot = m /\ op = "none"
  /\ pos <= (IF wal = walDisk THEN len ELSE 0) + 1
  /\ sequence = slot[m].seq + (IF pos - 1 <= c THEN 0 ELSE pos - 1 - c)
  /\ durable = hist[sequence]

\* From replayWAL to the end of NewPersistentImageFS, and Close's last steps.
Restored == {"restored", "marked", "initialized", "dirtied"}
Attaching == {"recovered", "renamed", "opened"} \cup Restored
Closing == {"clean", "cleaned"}

\* The attached store agrees with stable storage.
AttachedInv(m, n) ==
  /\ metadataSlot = m /\ sequence = n /\ durable = hist[n]
  /\ pc \in Busy \cup {"attached"} =>
       \A k \in Keys : k \notin pending => live[k] = durable[k]
  /\ pc \in Restored => live = durable
  /\ pc \in Attaching /\ op = "init" => n + 2 <= MaxSeq /\ delta = Barrier /\ durable \in promise
  /\ pc \in {"append", "written"} =>
       /\ sequence + 2 <= MaxSeq
       /\ DOMAIN delta \subseteq Keys
       /\ \A k \in DOMAIN delta : delta[k] = live[k]
       /\ Apply(durable, delta) \in promise
       /\ Final => Apply(durable, delta) = live
  /\ pc = "written" => hist[n + 1] = Apply(durable, delta)
  /\ pc \in Committed =>
       /\ Apply(durable, delta) = durable
       /\ Final => live = durable
  /\ pc \in {"save", "removed", "published"} => sequence + 1 <= MaxSeq
  /\ pc = "maybe" => ~Final
  /\ pc = "published" => hist[n + 1] = Saved.state
  /\ pc \in {"saved", "truncated"} => n = slot[m].seq

MemoryInv(m, n, c, len) ==
  /\ pc = "replay" => ReplayInv(m, c, len)
  /\ pc \in Busy \cup Attaching \cup {"attached"} => AttachedInv(m, n)

Inv(m, n, c, len) ==
  /\ StableInv(m, n, c, len)
  /\ VisibleInv(m, n)
  /\ MemoryInv(m, n, c, len)

\* Durability and all it rests on.
IInv ==
  /\ TypeOK
  /\ \E m \in Slots, n \in 0..MaxSeq, len \in 0..Len(walDisk) :
       \E c \in 0..len : Inv(m, n, c, len)

\* The inductive invariant behind NothingForgotten, whatever fails.
CoverInv ==
  /\ TypeOK
  /\ pc \in Busy \cup Restored \cup {"attached"} =>
       \A k \in Keys : k \notin pending => live[k] = durable[k]
  /\ pc = "replay" => op = "none"
  /\ pc \in Attaching /\ op = "init" => delta = Barrier
  /\ pc \in {"append", "written"} => \A k \in DOMAIN delta : delta[k] = live[k]
=============================================================================
