------------------------ MODULE PersistentStoreProofs -----------------------
(***************************************************************************)
(* Proofs about the commit protocol of the persistent image store and what *)
(* opening it finds, for any keys and values, number of barriers, length   *)
(* of the log and number of crashes.                                       *)
(*                                                                         *)
(* Type correctness and NothingForgotten hold whatever fails, UsedReopens  *)
(* too but for power failures on Windows, whose directory sync does        *)
(* nothing.  Durability, AlwaysRecoverable and the refinement of the       *)
(* atomic DurableStore are proved for Reliable hosts: POSIX, power         *)
(* failures at any step, and every fault but those of the log's own writes *)
(* and syncs and of the syncs of its directory.                            *)
(*                                                                         *)
(* Durability speaks of attached stores only, and is far from inductive.   *)
(* IInv names the barrier n whose effect a power failure would bring back  *)
(* (At(n)): the newest stable snapshot and the stable log read on to       *)
(* exactly that barrier, and it is the last acknowledged one or the one    *)
(* being acknowledged.  The visible files may run ahead of it, by at most  *)
(* the barrier being made and the snapshot being published.  CoverInv is   *)
(* the strengthening of NothingForgotten: a record that is not marked      *)
(* pending is as the last barrier has it, and a delta on its way to the    *)
(* log holds the live values.  OpenInv is that of UsedReopens: a store     *)
(* that was handed out always has a snapshot that is visible and, on       *)
(* POSIX, stable, and publishing another one only replaces the other slot. *)
(*                                                                         *)
(* The last part says what load and replayWAL compute: the newest slot,    *)
(* and for each key the last record that is read on to, so that a log      *)
(* which reads on to barrier n yields the state of barrier n (OpenedIs).   *)
(* By At(n) the recovered state is then that of barrier n, and each action *)
(* either keeps n or is the one step that commits.                         *)
(***************************************************************************)
EXTENDS PersistentStore, TLAPS, WellFoundedInduction

-----------------------------------------------------------------------------
(* Logs as sequences. *)

\* An append adds one record and keeps the others.
LEMMA Appending ==
  ASSUME NEW S, NEW w \in Seq(S), NEW r \in S
  PROVE  /\ Append(w, r) \in Seq(S) /\ Len(Append(w, r)) = Len(w) + 1
         /\ \A p \in 1..Len(w) : Append(w, r)[p] = w[p]
         /\ Append(w, r)[Len(w) + 1] = r
OBVIOUS

\* Logs with the same records are the same.
LEMMA SameLogs ==
  ASSUME NEW S, NEW v \in Seq(S), NEW w \in Seq(S), Len(v) = Len(w),
         \A p \in 1..Len(v) : v[p] = w[p]
  PROVE  v = w
OBVIOUS

\* Truncating a log to its length keeps it, to nothing empties it.
LEMMA Prefixes ==
  ASSUME NEW S, NEW w \in Seq(S)
  PROVE  SubSeq(w, 1, Len(w)) = w /\ SubSeq(w, 1, 0) = <<>>
OBVIOUS

\* The empty log is the one without records.
LEMMA EmptyLogs ==
  ASSUME NEW S
  PROVE  /\ <<>> \in Seq(S) /\ Len(<<>>) = 0
         /\ \A w \in Seq(S) : w # <<>> => Len(w) \in Nat \ {0}
OBVIOUS

-----------------------------------------------------------------------------
(* Deltas and states. *)

\* applyPersistentImageDelta yields a state and sets exactly the named records.
LEMMA ApplyState ==
  ASSUME NEW s \in State, NEW d \in Delta
  PROVE  /\ Apply(s, d) \in State
         /\ \A k \in Keys : Apply(s, d)[k] = IF k \in DOMAIN d THEN d[k] ELSE s[k]
<1>1. PICK K \in SUBSET Keys : d \in [K -> Values]
  BY Zenon DEF Delta
<1>2. \A k \in DOMAIN d : d[k] \in Values
  BY <1>1, Zenon
<1> QED
  BY <1>2, Zenon DEF Apply, State

\* Applying a delta twice is applying it once.
LEMMA ApplyIdempotent ==
  ASSUME NEW s \in State, NEW d \in Delta
  PROVE  Apply(Apply(s, d), d) = Apply(s, d)
BY ApplyState, Zenon DEF Apply, State

\* The delta of a set of records holds their live contents.
LEMMA OnlyDelta ==
  ASSUME live \in State, NEW K \in SUBSET Keys
  PROVE  /\ Only(K) \in Delta
         /\ DOMAIN Only(K) = K
         /\ \A k \in K : Only(K)[k] = live[k]
BY DEF Only, Delta, State

\* The state of an empty image is a state, and an empty delta is a delta.
LEMMA EmptyState == Empty \in State /\ Barrier \in Delta
BY ValuesAssumption, Zenon DEF Empty, Barrier, State, Delta

\* A torn record and an absent snapshot have the types of records and snapshots.
LEMMA Sentinels == Torn \in Record /\ None \in Snapshot
BY EmptyState, Zenon DEF Torn, None, Record, Snapshot

-----------------------------------------------------------------------------
(* Type correctness. *)

\* Closing the store leaves its fields well typed.
LEMMA DetachType ==
  ASSUME Detach
  PROVE  /\ pc' \in Pcs \ {"replay"} /\ op' \in Ops /\ delta' \in Delta
         /\ sequence' \in Nat /\ metadataSlot' \in Slots
         /\ durable' \in State /\ live' \in State /\ pending' \in SUBSET Keys
         /\ pos' \in Nat \ {0}
BY EmptyState DEF Detach, Pcs, Ops, Slots

\* A barrier that ends lets the attachment go on with well typed fields.
LEMMA ResumeType ==
  ASSUME TypeOK, Resume
  PROVE  /\ pc' \in Pcs \ {"replay"} /\ op' \in Ops /\ delta' \in Delta
         /\ sequence' \in Nat /\ metadataSlot' \in Slots
         /\ durable' \in State /\ live' \in State /\ pending' \in SUBSET Keys
         /\ pos' \in Nat \ {0}
BY EmptyState, Zenon DEF Resume, TypeOK, Pcs, Ops

\* A barrier that fails leaves the fields of the store well typed.
LEMMA FailType ==
  ASSUME TypeOK, Fail
  PROVE  /\ pc' \in Pcs \ {"replay"} /\ op' \in Ops /\ delta' \in Delta
         /\ sequence' \in Nat /\ metadataSlot' \in Slots
         /\ durable' \in State /\ live' \in State /\ pending' \in SUBSET Keys
         /\ pos' \in Nat \ {0}
         /\ marks' \in SUBSET Markers /\ marksDisk' \in SUBSET Markers
         /\ crashes' \in Nat /\ used' \in BOOLEAN
         /\ promise' \in SUBSET State /\ hist' \in [0..MaxSeq -> State]
<1>1. CASE Final
  BY <1>1, DetachType, Zenon DEF Fail, ghost, TypeOK
<1>2. CASE ~Final
  BY <1>2, ResumeType, Zenon DEF Fail, ghost, TypeOK
<1> QED
  BY <1>1, <1>2, Zenon

\* Syncing the directory leaves the stable names well typed.
LEMMA SyncDirType ==
  ASSUME TypeOK, SyncDir
  PROVE  slotDisk' \in [Slots -> Snapshot] /\ marksDisk' \in SUBSET Markers
BY Zenon DEF SyncDir, TypeOK

\* A prefix of a log is a log.
LEMMA SubSeqRecords ==
  ASSUME NEW w \in Seq(Record), NEW n \in 0..Len(w)
  PROVE  SubSeq(w, 1, n) \in Seq(Record)
OBVIOUS

\* A barrier that starts promises a state.
LEMMA StartType ==
  ASSUME TypeOK, host' \in Hosts, NEW name \in Ops, NEW d \in Delta, Start(name, d)
  PROVE  TypeOK'
<1>1. promise' \in SUBSET State
  BY ApplyState DEF Start, TypeOK
<1> QED
  BY <1>1, Zenon DEF Start, TypeOK, disk, Pcs

\* A barrier that is acknowledged promises a state.
LEMMA AcknowledgeType ==
  ASSUME TypeOK, Acknowledge
  PROVE  promise' \in SUBSET State
BY ApplyState DEF Acknowledge, TypeOK

\* What a power failure leaves of the log is a log.
LEMMA AfterPowerType ==
  ASSUME TypeOK
  PROVE  AfterPower \subseteq Seq(Record)
<1>1. ASSUME NEW n \in 0..Len(wal) PROVE SubSeq(wal, 1, n) \in Seq(Record)
  BY <1>1, SubSeqRecords, Zenon DEF TypeOK
<1>2. ASSUME NEW n \in 0..Len(wal) PROVE Append(SubSeq(wal, 1, n), Torn) \in Seq(Record)
  BY <1>1, <1>2, Sentinels
<1> DEFINE low == IF IsAppended THEN Len(walDisk) ELSE 0
<1>3. low \in Nat /\ Len(wal) \in Nat
  BY DEF TypeOK
<1>4. low..Len(wal) \subseteq 0..Len(wal) /\ low..(Len(wal) - 1) \subseteq 0..Len(wal)
  BY <1>3
<1> HIDE DEF low
<1>5. AfterPower = {walDisk} \cup {SubSeq(wal, 1, n) : n \in low..Len(wal)}
                   \cup {Append(SubSeq(wal, 1, n), Torn) : n \in low..(Len(wal) - 1)}
  BY Zenon DEF AfterPower, low
<1> QED
  BY <1>1, <1>2, <1>4, <1>5, Zenon DEF TypeOK

\* The store is well typed before it is opened.
LEMMA TypeInit == Init => TypeOK
<1> SUFFICES ASSUME Init PROVE TypeOK
  OBVIOUS
<1>1. slot \in [Slots -> Snapshot] /\ slotDisk \in [Slots -> Snapshot]
  BY Sentinels, Zenon DEF Init
<1>2. promise \in SUBSET State /\ hist \in [0..MaxSeq -> State]
  BY EmptyState, Zenon DEF Init
<1> QED
  BY <1>1, <1>2, EmptyState DEF Init, TypeOK, Pcs, Ops, Slots

\* Every step of the store keeps its types.
LEMMA TypeStep == TypeOK /\ [Next]_vars => TypeOK'
<1> SUFFICES ASSUME TypeOK, [Next]_vars PROVE TypeOK'
  OBVIOUS
<1>h. host' \in Hosts
  BY Zenon DEF Next, vars, TypeOK
<1> USE <1>h
<1>1. CASE UNCHANGED vars
  BY <1>1, Zenon DEF vars, TypeOK
<1>2. CASE OpenLoad
  <2>1. PICK i \in Slots : /\ IsBest(i) /\ metadataSlot' = i
                           /\ sequence' = slot[i].seq /\ durable' = slot[i].state
    BY <1>2, Zenon DEF OpenLoad
  <2>2. slot[i] \in Snapshot
    BY <2>1 DEF IsBest, Published, TypeOK
  <2>3. /\ metadataSlot' \in Slots
        /\ sequence' \in Nat /\ durable' \in State
    BY <2>1, <2>2 DEF Snapshot
  <2>4. /\ pc' = "replay" /\ op' = "none" /\ delta' = Barrier /\ pos' = 1
        /\ UNCHANGED <<disk, live, pending, ghost>>
    BY <1>2, Zenon DEF OpenLoad
  <2>5. pc' \in Pcs /\ op' \in Ops /\ delta' \in Delta
    BY <2>4 DEF Pcs, Ops, Barrier, Delta
  <2>6. pos' \in Nat \ {0} /\ pos' <= Len(wal) + 1
    BY <2>4 DEF TypeOK
  <2> QED
    BY <2>3, <2>4, <2>5, <2>6, Zenon DEF TypeOK, disk, ghost
<1>3. CASE OpenInit
  BY <1>3, EmptyState, Zenon DEF OpenInit, TypeOK, disk, ghost, Pcs, Ops, Slots
<1>4. CASE OpenRefused \/ Retry
  BY <1>4, Zenon DEF OpenRefused, Retry, TypeOK, disk, memory, ghost, Pcs
<1>5. CASE ReplaySkip
  BY <1>5 DEF ReplaySkip, Skips, Replayable, TypeOK, disk, ghost
<1>6. CASE ReplayApply
  <2>1. wal[pos] \in Record
    BY <1>6 DEF ReplayApply, Applies, Replayable, TypeOK
  <2>2. Apply(durable, wal[pos].delta) \in State
    BY <2>1, ApplyState, Zenon DEF Record, TypeOK
  <2> QED
    BY <1>6, <2>2 DEF ReplayApply, Applies, Replayable, TypeOK, disk, ghost
<1>7. CASE ReplayEnd
  <2>1. Kept \in 0..Len(wal)
    BY <1>7 DEF ReplayEnd, Kept, Replayable, TypeOK
  <2>2. SubSeq(wal, 1, Kept) \in Seq(Record)
    BY <2>1, SubSeqRecords, Zenon DEF TypeOK
  <2> QED
    BY <1>7, <2>2 DEF ReplayEnd, TypeOK, names, ghost, Pcs
<1>27. CASE QuarantineFails
  <2>1. Kept \in 0..Len(wal)
    BY <1>27 DEF QuarantineFails, Kept, Replayable, TypeOK
  <2>2. SubSeq(wal, 1, Kept) \in Seq(Record)
    BY <2>1, SubSeqRecords, Zenon DEF TypeOK
  <2> QED
    BY <1>27, <2>2, DetachType, Zenon DEF QuarantineFails, TypeOK, names, ghost
<1>28. CASE RecoverIncomplete \/ MarkInitialized \/ MarkAttached \/ MarkClean
  <2>1. marks' \in SUBSET Markers
    BY <1>28, Zenon DEF RecoverIncomplete, MarkInitialized, MarkAttached, MarkClean, Markers, TypeOK
  <2> QED
    BY <1>28, <2>1, Zenon
    DEF RecoverIncomplete, MarkInitialized, MarkAttached, MarkClean, TypeOK, memory, ghost, Pcs
<1>29. CASE Restore
  BY <1>29, Zenon DEF Restore, TypeOK, disk, ghost, Pcs
<1>30. CASE MarkSync
  BY <1>30, SyncDirType, Zenon DEF MarkSync, TypeOK, memory, ghost, Pcs
<1>8. CASE Attach
  BY <1>8, SyncDirType, Zenon DEF Attach, TypeOK, memory, Pcs
<1>31. CASE OpenFails \/ CleanFails
  BY <1>31, DetachType, Zenon DEF OpenFails, CleanFails, TypeOK, disk, ghost
<1>32. CASE CleanSync
  BY <1>32, SyncDirType, DetachType, Zenon DEF CleanSync, TypeOK, ghost
<1>9. ASSUME NEW k \in Keys, NEW v \in Values, Mutate(k, v) PROVE TypeOK'
  BY <1>9, Zenon DEF Mutate, TypeOK, disk, ghost, State
<1>10. ASSUME NEW k \in Keys, Fsync(k) PROVE TypeOK'
  <2>1. Only({k}) \in Delta
    BY OnlyDelta, Zenon DEF TypeOK
  <2> QED
    BY <1>10, <2>1, StartType, Zenon DEF Fsync, Ops
<1>11. ASSUME NEW K \in SUBSET Keys, FsyncDir(K) PROVE TypeOK'
  <2>1. Only(K) \in Delta
    BY OnlyDelta, Zenon DEF TypeOK
  <2> QED
    BY <1>11, <2>1, StartType, Zenon DEF FsyncDir, Ops
<1>12. CASE FsyncDirClean
  BY <1>12, EmptyState, Zenon DEF FsyncDirClean, TypeOK, disk, ghost, Pcs, Ops
<1>13. CASE SyncFS \/ Close
  <2>1. Only(pending) \in Delta
    BY OnlyDelta, Zenon DEF TypeOK
  <2> QED
    BY <1>13, <2>1, StartType, Zenon DEF SyncFS, Close, Ops
<1>14. CASE AppendFails \/ AppendSyncFails \/ ReclaimFails \/ StageFails
            \/ PublishFails \/ DirSyncFails \/ ResetFails
  <2>1. Fail /\ walDisk' \in {wal, walDisk} /\ UNCHANGED <<wal, slot, slotDisk>>
    BY <1>14, Zenon DEF AppendFails, AppendSyncFails, ReclaimFails, StageFails,
                 PublishFails, DirSyncFails, ResetFails
  <2> QED
    BY <2>1, FailType, Zenon DEF TypeOK
<1>15. CASE AppendTears
  <2>1. Append(wal, Torn) \in Seq(Record)
    BY Sentinels DEF TypeOK
  <2> QED
    BY <1>15, <2>1, FailType, Zenon DEF AppendTears, TypeOK
<1>16. CASE AppendWrite
  <2>1. [seq |-> sequence + 1, delta |-> delta] \in Record
    BY DEF TypeOK, Record
  <2>2. Append(wal, [seq |-> sequence + 1, delta |-> delta]) \in Seq(Record)
    BY <2>1 DEF TypeOK
  <2>3. Apply(durable, delta) \in State
    BY ApplyState, Zenon DEF TypeOK
  <2>4. hist' \in [0..MaxSeq -> State]
    BY <1>16, <2>3, Zenon DEF AppendWrite, TypeOK
  <2> QED
    BY <1>16, <2>2, <2>4, Zenon DEF AppendWrite, TypeOK, memory, Pcs
<1>17. CASE AppendSync
  <2>1. Apply(durable, delta) \in State
    BY ApplyState, Zenon DEF TypeOK
  <2> QED
    BY <1>17, <2>1 DEF AppendSync, TypeOK, ghost, Pcs
<1>18. CASE Return
  <2>1. promise' \in SUBSET State
    BY <1>18, AcknowledgeType, Zenon DEF Return
  <2> QED
    BY <1>18, <2>1, ResumeType, Zenon DEF Return, TypeOK, disk
<1>19. CASE Compact
  BY <1>19, Zenon DEF Compact, TypeOK, disk, memory, ghost, Pcs
<1>20. CASE RemoveSlot
  BY <1>20, Sentinels, Zenon DEF RemoveSlot, TypeOK, memory, ghost, Pcs
<1>21. CASE Publish
  <2>1. Saved \in Snapshot
    BY DEF Saved, Snapshot, TypeOK
  <2>2. Saved.state \in State
    BY <2>1, Zenon DEF Snapshot
  <2>3. slot' \in [Slots -> Snapshot] /\ hist' \in [0..MaxSeq -> State]
    BY <1>21, <2>1, <2>2, Zenon DEF Publish, TypeOK
  <2> QED
    BY <1>21, <2>3, Zenon DEF Publish, TypeOK, memory, Pcs
<1>22. CASE DirSync
  <2>1. Saved.state \in State
    BY Zenon DEF Saved, TypeOK
  <2> QED
    BY <1>22, <2>1, SyncDirType DEF DirSync, TypeOK, ghost, Pcs, OtherSlot, Slots
<1>23. CASE ResetTruncate
  BY <1>23 DEF ResetTruncate, TypeOK, names, memory, ghost, Pcs
<1>24. CASE ResetSync
  <2>1. promise' \in SUBSET State
    BY <1>24, AcknowledgeType, Zenon DEF ResetSync
  <2>2. pc' \in Pcs \ {"replay"} /\ op' \in Ops /\ delta' \in Delta
    BY <1>24, EmptyState DEF ResetSync, Pcs, Ops
  <2> QED
    BY <1>24, <2>1, <2>2, SyncDirType, Zenon DEF ResetSync, TypeOK
<1>25. CASE ProcessCrash
  BY <1>25, DetachType DEF ProcessCrash, Crash, TypeOK, disk
<1>26. CASE PowerFailure
  <2>1. AfterPower \subseteq Seq(Record)
    BY AfterPowerType, Zenon
  <2>2. wal' \in Seq(Record) /\ walDisk' \in Seq(Record)
    BY <1>26, <2>1, Zenon DEF PowerFailure
  <2>3. slot' \in [Slots -> Snapshot] /\ slotDisk' \in [Slots -> Snapshot]
    BY <1>26, Zenon DEF PowerFailure, TypeOK
  <2>4. marks' \in SUBSET Markers /\ marksDisk' \in SUBSET Markers
    BY <1>26, Zenon DEF PowerFailure, TypeOK
  <2> QED
    BY <1>26, <2>2, <2>3, <2>4, DetachType DEF PowerFailure, Crash, TypeOK
<1> QED
  BY <1>1, <1>2, <1>3, <1>4, <1>5, <1>6, <1>7, <1>8, <1>9, <1>10, <1>11, <1>12,
     <1>13, <1>14, <1>15, <1>16, <1>17, <1>18, <1>19, <1>20, <1>21, <1>22, <1>23,
     <1>24, <1>25, <1>26, <1>27, <1>28, <1>29, <1>30, <1>31, <1>32, ZenonT(60)
  DEF Next, Step, Open, Replay, Attachment, Begin, AppendDelta, Settle, Save, Reset, Clean

\* Every variable keeps its type, whatever fails and whatever crashes.
THEOREM TypeCorrect == Spec => []TypeOK
BY TypeInit, TypeStep, PTL DEF Spec

-----------------------------------------------------------------------------
(* Durability. *)

\* The inductive invariant holds before the store is opened.
LEMMA InvInit == Init => IInv
<1> SUFFICES ASSUME Init PROVE IInv
  OBVIOUS
<1>1. Inv(0, 0, 0, 0)
  BY BoundsAssumption DEF Init, Inv, StableInv, VisibleInv, MemoryInv, Reads, Older, None, Slots, Busy,
                           Attaching, Restored
<1> QED
  BY <1>1, TypeInit, BoundsAssumption DEF IInv, Init, Slots

\* A step that leaves the files alone keeps what they bring back.
LEMMA StableFrame ==
  ASSUME NEW m, NEW n, NEW c, NEW len, StableInv(m, n, c, len),
         UNCHANGED <<wal, walDisk, slot, slotDisk, hist>>, hist[n] \in promise',
         len = Len(walDisk) \/ pc' \in {"closed", "refused", "replay"}
  PROVE  StableInv(m, n, c, len)'
BY Zenon DEF StableInv, Reads, Older

\* The same for a step that changes the visible log only.
LEMMA StableKept ==
  ASSUME NEW m, NEW n, NEW c, NEW len, StableInv(m, n, c, len), len = Len(walDisk),
         UNCHANGED <<walDisk, slot, slotDisk, hist>>, hist[n] \in promise'
  PROVE  StableInv(m, n, c, len)'
BY Zenon DEF StableInv, Reads, Older

\* A step that leaves the log and the slots alone keeps what is visible in them.
LEMMA VisibleFrame ==
  ASSUME NEW m, NEW n, VisibleInv(m, n), UNCHANGED <<wal, walDisk, slot>>,
         pc \notin {"written", "published"}, pc' \notin {"written", "published"}
  PROVE  VisibleInv(m, n)'
BY Zenon DEF VisibleInv, Older

\* Nothing is read from an empty log.
LEMMA EmptyReads ==
  ASSUME NEW h, NEW n \in Nat
  PROVE  Reads(h, <<>>, 0, 0, n, n)
BY DEF Reads

\* Reading depends on the first len records and on the states up to n only.
LEMMA ReadsFrame ==
  ASSUME NEW h, NEW g, NEW w, NEW v, NEW c \in Nat, NEW len \in Nat, NEW s \in Nat, NEW n \in Nat,
         Reads(h, w, c, len, s, n),
         \A p \in 1..len : v[p] = w[p],
         \A i \in 0..n : g[i] = h[i]
  PROVE  Reads(g, v, c, len, s, n)
<1>1. c <= len /\ n = s + len - c
  BY Zenon DEF Reads
<1>2. \A p \in 1..c : 1 <= v[p].seq /\ v[p].seq <= s
  BY <1>1 DEF Reads
<1>3. ASSUME NEW p \in (c + 1)..len
      PROVE  /\ v[p].seq = s + p - c
             /\ g[s + p - c] = Apply(g[s + p - c - 1], v[p].delta)
  <2>1. p \in 1..len /\ s + p - c \in 0..n /\ s + p - c - 1 \in 0..n
    BY <1>1
  <2> QED
    BY <1>1, <2>1, Zenon DEF Reads
<1> QED
  BY <1>1, <1>2, <1>3, Zenon DEF Reads

\* One more record in order leads one state further.
LEMMA ReadsAppend ==
  ASSUME NEW h, NEW w, NEW v, NEW c \in Nat, NEW len \in Nat, NEW s \in Nat, NEW n \in Nat,
         Reads(h, w, c, len, s, n),
         \A p \in 1..len : v[p] = w[p],
         v[len + 1].seq = n + 1,
         h[n + 1] = Apply(h[n], v[len + 1].delta)
  PROVE  Reads(h, v, c, len + 1, s, n + 1)
<1>1. c <= len /\ n = s + len - c
  BY Zenon DEF Reads
<1>2. Reads(h, v, c, len, s, n)
  BY ReadsFrame, Zenon
<1>3. ASSUME NEW p \in (c + 1)..(len + 1)
      PROVE  /\ v[p].seq = s + p - c
             /\ h[s + p - c] = Apply(h[s + p - c - 1], v[p].delta)
  <2>1. CASE p = len + 1
    <3>1. s + p - c = n + 1 /\ s + p - c - 1 = n
      BY <1>1, <2>1
    <3> QED
      BY <2>1, <3>1, Zenon
  <2>2. CASE p # len + 1
    <3>1. p \in (c + 1)..len
      BY <2>2
    <3> QED
      BY <1>2, <3>1, Zenon DEF Reads
  <2> QED
    BY <2>1, <2>2, Zenon
<1>4. \A p \in 1..c : 1 <= v[p].seq /\ v[p].seq <= s
  BY <1>2, Zenon DEF Reads
<1>5. c <= len + 1 /\ n + 1 = s + (len + 1) - c
  BY <1>1
<1> QED
  BY <1>3, <1>4, <1>5, Zenon DEF Reads

\* A snapshot newer than the last record covers the whole log.
LEMMA ReadsCovered ==
  ASSUME NEW h, NEW w, NEW c \in Nat, NEW len \in Nat, NEW s \in Nat, NEW n \in Nat,
         NEW t \in Nat, n <= t, Reads(h, w, c, len, s, n),
         \A p \in 1..len : w[p].seq \in Nat
  PROVE  Reads(h, w, len, len, t, t)
<1>1. c <= len /\ n = s + len - c
  BY Zenon DEF Reads
<1>2. ASSUME NEW p \in 1..len PROVE 1 <= w[p].seq /\ w[p].seq <= t
  <2>1. CASE p <= c
    <3>1. p \in 1..c
      BY <2>1
    <3>2. 1 <= w[p].seq /\ w[p].seq <= s
      BY <3>1, Zenon DEF Reads
    <3>3. w[p].seq \in Nat
      OBVIOUS
    <3> QED
      BY <1>1, <3>2, <3>3
  <2>2. CASE c < p
    <3>1. p \in (c + 1)..len
      BY <2>2
    <3>2. w[p].seq = s + p - c
      BY <3>1, Zenon DEF Reads
    <3> QED
      BY <1>1, <2>2, <3>2
  <2> QED
    BY <2>1, <2>2
<1> QED
  BY <1>2 DEF Reads

\* Appending to an empty log gives a log of one record.
LEMMA AppendEmpty == ASSUME NEW x PROVE Append(<<>>, x) = <<x>>
OBVIOUS

\* A log of length zero is the empty log.
LEMMA EmptyLog ==
  ASSUME NEW w \in Seq(Record), Len(w) = 0
  PROVE  w = <<>>
BY EmptyLogs, Zenon

\* The numbers that the invariant is about are natural numbers.
LEMMA Numbers ==
  ASSUME TypeOK, NEW m \in Slots, NEW n \in 0..MaxSeq, NEW len \in 0..Len(walDisk),
         NEW c \in 0..len
  PROVE  /\ wal \in Seq(Record) /\ walDisk \in Seq(Record)
         /\ Len(wal) \in Nat /\ Len(walDisk) \in Nat
         /\ n \in Nat /\ len \in Nat /\ c \in Nat /\ MaxSeq \in Nat
         /\ n <= MaxSeq /\ len <= Len(walDisk) /\ c <= len
         /\ slot[m].seq \in Nat /\ slot[1 - m].seq \in Nat
         /\ slotDisk[m].seq \in Nat /\ slotDisk[1 - m].seq \in Nat
         /\ sequence \in Nat /\ pos \in Nat /\ pos >= 1
<1>1. /\ wal \in Seq(Record) /\ walDisk \in Seq(Record)
      /\ sequence \in Nat /\ pos \in Nat /\ pos >= 1
  BY DEF TypeOK
<1>2. Len(wal) \in Nat /\ Len(walDisk) \in Nat
  BY <1>1
<1>3. 1 - m \in Slots
  BY DEF Slots
<1>4. /\ slot[m] \in Snapshot /\ slot[1 - m] \in Snapshot
      /\ slotDisk[m] \in Snapshot /\ slotDisk[1 - m] \in Snapshot
  BY <1>3, Zenon DEF TypeOK
<1> QED
  BY <1>1, <1>2, <1>4, BoundsAssumption DEF Snapshot

\* What the first k records of a log are.
LEMMA SubSeqWhole ==
  ASSUME NEW w \in Seq(Record), NEW k \in 0..Len(w)
  PROVE  /\ SubSeq(w, 1, k) \in Seq(Record) /\ Len(SubSeq(w, 1, k)) = k
         /\ \A p \in 1..k : SubSeq(w, 1, k)[p] = w[p]
         /\ k = Len(w) => SubSeq(w, 1, k) = w
         /\ k = 0 => SubSeq(w, 1, k) = <<>>
<1>1. Len(w) \in Nat
  OBVIOUS
<1> QED
  BY <1>1, Prefixes

\* What a power failure leaves of a log that was being appended to: the stable
\* contents, the visible ones, or the stable ones and a torn record.
LEMMA PowerAppended ==
  ASSUME TypeOK, NEW r \in Record, wal = Append(walDisk, r), NEW w \in AfterPower
  PROVE  w = walDisk \/ w = Append(walDisk, r) \/ w = Append(walDisk, Torn)
<1>1. walDisk \in Seq(Record) /\ wal \in Seq(Record) /\ Len(walDisk) \in Nat
      /\ Len(wal) = Len(walDisk) + 1 /\ \A p \in 1..Len(walDisk) : wal[p] = walDisk[p]
  BY Appending DEF TypeOK
<1>2. SubSeq(wal, 1, Len(walDisk)) = walDisk
  <2>1. /\ SubSeq(wal, 1, Len(walDisk)) \in Seq(Record)
        /\ Len(SubSeq(wal, 1, Len(walDisk))) = Len(walDisk)
        /\ \A p \in 1..Len(walDisk) : SubSeq(wal, 1, Len(walDisk))[p] = walDisk[p]
    BY <1>1, SubSeqWhole
  <2> QED
    BY <1>1, <2>1, SameLogs, Zenon
<1>3. SubSeq(wal, 1, Len(wal)) = wal
  BY <1>1, Prefixes, Zenon
<1>4. IsAppended
  BY <1>1, <1>2 DEF IsAppended
<1>5. \/ w = walDisk
      \/ \E k \in Len(walDisk)..Len(wal) : w = SubSeq(wal, 1, k)
      \/ \E k \in Len(walDisk)..(Len(wal) - 1) : w = Append(SubSeq(wal, 1, k), Torn)
  BY <1>4, Zenon DEF AfterPower
<1>6. \A k \in Len(walDisk)..Len(wal) : k = Len(walDisk) \/ k = Len(wal)
  BY <1>1
<1>7. \A k \in Len(walDisk)..(Len(wal) - 1) : k = Len(walDisk)
  BY <1>1
<1> QED
  BY <1>2, <1>3, <1>5, <1>6, <1>7, Zenon

\* A power failure keeps a log that is on stable storage.
LEMMA PowerKept ==
  ASSUME TypeOK, wal = walDisk, NEW w \in AfterPower
  PROVE  w = walDisk
<1>1. walDisk \in Seq(Record) /\ Len(walDisk) \in Nat
  BY DEF TypeOK
<1>2. SubSeq(wal, 1, Len(wal)) = wal
  BY <1>1, Prefixes, Zenon
<1>3. IsAppended
  BY <1>1, <1>2 DEF IsAppended
<1>4. \/ w = walDisk
      \/ \E k \in Len(walDisk)..Len(wal) : w = SubSeq(wal, 1, k)
      \/ \E k \in Len(walDisk)..(Len(wal) - 1) : w = Append(SubSeq(wal, 1, k), Torn)
  BY <1>3, Zenon DEF AfterPower
<1>5. \A k \in Len(walDisk)..Len(wal) : k = Len(wal)
  BY <1>1
<1>6. Len(walDisk)..(Len(wal) - 1) = {}
  BY <1>1
<1> QED
  BY <1>2, <1>4, <1>5, <1>6, Zenon

\* The same for a log that was truncated, without and with a record after it.
LEMMA PowerTruncated ==
  ASSUME TypeOK, NEW w \in AfterPower
  PROVE  /\ wal = <<>> => w = walDisk \/ w = <<>>
         /\ \A r \in Record : wal = <<r>> => w = walDisk \/ w = <<>> \/ w = <<r>> \/ w = <<Torn>>
<1> DEFINE low == IF IsAppended THEN Len(walDisk) ELSE 0
<1>1. low \in Nat /\ wal \in Seq(Record) /\ Len(wal) \in Nat
  BY DEF TypeOK
<1>2. \/ w = walDisk
      \/ \E k \in low..Len(wal) : w = SubSeq(wal, 1, k)
      \/ \E k \in low..(Len(wal) - 1) : w = Append(SubSeq(wal, 1, k), Torn)
  BY Zenon DEF AfterPower
<1> HIDE DEF low
<1>3. ASSUME wal = <<>> PROVE w = walDisk \/ w = <<>>
  <2>1. Len(wal) = 0
    BY <1>3, Zenon
  <2>2. low..(Len(wal) - 1) = {} /\ \A k \in low..Len(wal) : k = 0
    BY <1>1, <2>1
  <2>3. SubSeq(wal, 1, 0) = <<>>
    BY <1>1, <2>1, SubSeqWhole
  <2> QED
    BY <1>2, <2>2, <2>3, Zenon
<1>4. ASSUME NEW r \in Record, wal = <<r>>
      PROVE  w = walDisk \/ w = <<>> \/ w = <<r>> \/ w = <<Torn>>
  <2>1. Len(wal) = 1
    BY <1>4, Zenon
  <2>2. (\A k \in low..(Len(wal) - 1) : k = 0) /\ \A k \in low..Len(wal) : k = 0 \/ k = 1
    BY <1>1, <2>1
  <2>3. SubSeq(wal, 1, 0) = <<>> /\ SubSeq(wal, 1, 1) = wal
    BY <1>1, <2>1, SubSeqWhole
  <2>4. Append(<<>>, Torn) = <<Torn>>
    BY AppendEmpty, Zenon
  <2> QED
    BY <1>2, <1>4, <2>2, <2>3, <2>4, Zenon
<1> QED
  BY <1>3, <1>4, Zenon

\* What a reliable host does not do, and what its directory syncs do.
LEMMA HostFacts ==
  ASSUME Reliable, TypeOK
  PROVE  /\ ~Windows /\ Sheltered /\ ~SyncDirMayFail
         /\ "wal-write" \notin Faults /\ "wal-sync" \notin Faults
         /\ "process" \notin CrashKinds
         /\ SyncDir => slotDisk' = slot
<1>1. host \in Hosts
  BY Zenon DEF TypeOK
<1>2. /\ ~host.windows /\ "process" \notin host.crashes
      /\ host.faults \cap {"wal-write", "wal-sync", "dir-sync"} = {}
  BY <1>1, Zenon DEF Reliable
<1> QED
  BY <1>2, Zenon DEF Windows, Sheltered, SyncDirMayFail, Faults, CrashKinds, SyncDir

\* Stable storage stands for sequence number n.
At(n) ==
  \E m \in Slots, len \in 0..Len(walDisk) : \E c \in 0..len : Inv(m, n, c, len)

(* What every action of the protocol starts from. *)
Known(m, n, c, len) == TypeOK /\ TypeOK' /\ Inv(m, n, c, len)

\* The parts of the invariant for one choice of slot, sequence number and log prefix.
LEMMA KnownParts ==
  ASSUME NEW m, NEW n, NEW c, NEW len, Known(m, n, c, len)
  PROVE  /\ StableInv(m, n, c, len) /\ VisibleInv(m, n) /\ MemoryInv(m, n, c, len)
         /\ hist[n] \in promise
         /\ len = Len(walDisk) \/ pc \in {"closed", "refused", "replay"}
BY Zenon DEF Known, Inv, StableInv

\* A step that leaves the stable log alone keeps the choice.
LEMMA SameWitness ==
  ASSUME NEW m \in Slots, NEW n \in 0..MaxSeq, NEW len \in 0..Len(walDisk), NEW c \in 0..len,
         TypeOK', Inv(m, n, c, len)', UNCHANGED walDisk
  PROVE  IInv' /\ At(n)'
BY Zenon DEF IInv, At

\* What is at a sequence number satisfies the invariant.
LEMMA AtInv ==
  ASSUME NEW n \in 0..MaxSeq, TypeOK', At(n)'
  PROVE  IInv'
BY Zenon DEF IInv, At

-----------------------------------------------------------------------------
(* Opening, replaying, attaching and mutating. *)

\* Nothing happens.
LEMMA Stutter ==
  ASSUME Reliable, NEW m \in Slots, NEW n \in 0..MaxSeq, NEW len \in 0..Len(walDisk),
         NEW c \in 0..len, Known(m, n, c, len),
         UNCHANGED vars
  PROVE  IInv'
<1>parts. /\ StableInv(m, n, c, len) /\ VisibleInv(m, n) /\ MemoryInv(m, n, c, len)
          /\ hist[n] \in promise
          /\ len = Len(walDisk) \/ pc \in {"closed", "refused", "replay"}
  BY KnownParts
<1>same. ASSUME Inv(m, n, c, len)', UNCHANGED walDisk PROVE IInv'
  BY <1>same, SameWitness, Zenon DEF Known
<1>1. StableInv(m, n, c, len)'
  BY <1>parts, StableFrame, Zenon DEF vars
<1>2. VisibleInv(m, n)'
  BY <1>parts, Zenon DEF vars, VisibleInv, Older, InFlight, Saved, Final
<1>3. MemoryInv(m, n, c, len)'
  BY <1>parts, ZenonT(60) DEF vars, MemoryInv, ReplayInv, AttachedInv, Final, Saved
<1> QED
  BY <1>same, <1>1, <1>2, <1>3, Zenon DEF Inv, vars

\* Opening takes the newest slot, which is the stable one.
LEMMA OpenLoadStep ==
  ASSUME Reliable, NEW m \in Slots, NEW n \in 0..MaxSeq, NEW len \in 0..Len(walDisk),
         NEW c \in 0..len, Known(m, n, c, len),
         OpenLoad
  PROVE  IInv'
<1>type. TypeOK /\ TypeOK'
  BY Zenon DEF Known
<1>parts. /\ StableInv(m, n, c, len) /\ VisibleInv(m, n) /\ MemoryInv(m, n, c, len)
          /\ hist[n] \in promise
          /\ len = Len(walDisk) \/ pc \in {"closed", "refused", "replay"}
  BY KnownParts
<1>same. ASSUME Inv(m, n, c, len)', UNCHANGED walDisk PROVE IInv'
  BY <1>same, SameWitness, Zenon DEF Known
<1>1. StableInv(m, n, c, len)'
  BY <1>parts, StableFrame, Zenon DEF OpenLoad, disk, ghost
<1>2. VisibleInv(m, n)'
  BY <1>parts, VisibleFrame, Zenon DEF OpenLoad, disk
<1>3. PICK i \in Slots : IsBest(i) /\ metadataSlot' = i /\ sequence' = slot[i].seq
                         /\ durable' = slot[i].state
  BY Zenon DEF OpenLoad
<1>4. i = m
  <2>1. Older(slot[1 - m], slot[m].seq)
    BY <1>parts, Zenon DEF VisibleInv, OpenLoad
  <2>2. slot[m] \in Snapshot /\ slot[1 - m] \in Snapshot /\ slot[m].seq \in Nat
        /\ slot[1 - m].seq \in Nat
    <3>1. slot \in [Slots -> Snapshot] /\ 1 - m \in Slots
      BY <1>type DEF TypeOK, Slots
    <3> QED
      BY <3>1, Numbers, Zenon DEF Known
  <2>3. i = m \/ i = 1 - m
    BY DEF Slots
  <2>4. ASSUME i = 1 - m PROVE FALSE
    <3>1. slot[1 - m] # None
      BY <1>3, <2>4, Zenon DEF IsBest, Published
    <3>2. slot[1 - m].seq < slot[m].seq
      BY <2>1, <3>1, Zenon DEF Older
    <3>3. slot[m] # None
      BY <2>2, <3>2 DEF None
    <3>4. slot[m].seq <= slot[1 - m].seq
      BY <1>3, <2>4, <3>3, Zenon DEF IsBest, Published
    <3> QED
      BY <2>2, <3>2, <3>4
  <2> QED
    BY <2>3, <2>4, Zenon
<1>5. slot[m].seq \in Nat /\ hist[slot[m].seq] = slot[m].state
  BY <1>type, <1>parts, Zenon DEF TypeOK, Snapshot, StableInv
<1>6. ReplayInv(m, c, len)'
  BY <1>3, <1>4, <1>5, SMTT(30) DEF OpenLoad, ReplayInv, disk, ghost
<1>7. MemoryInv(m, n, c, len)'
  BY <1>6, Zenon DEF OpenLoad, MemoryInv, Busy, Attaching, Restored
<1> QED
  BY <1>same, <1>1, <1>2, <1>7, Zenon DEF Inv, OpenLoad, disk

\* A refused open changes no file.
LEMMA OpenRefusedStep ==
  ASSUME Reliable, NEW m \in Slots, NEW n \in 0..MaxSeq, NEW len \in 0..Len(walDisk),
         NEW c \in 0..len, Known(m, n, c, len),
         OpenRefused \/ Retry
  PROVE  IInv'
<1>parts. /\ StableInv(m, n, c, len) /\ VisibleInv(m, n) /\ MemoryInv(m, n, c, len)
          /\ hist[n] \in promise
          /\ len = Len(walDisk) \/ pc \in {"closed", "refused", "replay"}
  BY KnownParts
<1>same. ASSUME Inv(m, n, c, len)', UNCHANGED walDisk PROVE IInv'
  BY <1>same, SameWitness, Zenon DEF Known
<1>1. StableInv(m, n, c, len)'
  BY <1>parts, StableFrame, Zenon DEF OpenRefused, Retry, disk, ghost
<1>2. VisibleInv(m, n)'
  BY <1>parts, VisibleFrame, Zenon DEF OpenRefused, Retry, disk
<1>3. MemoryInv(m, n, c, len)'
  BY Zenon DEF OpenRefused, Retry, MemoryInv, Busy, Attaching, Restored
<1> QED
  BY <1>same, <1>1, <1>2, <1>3, Zenon DEF Inv, OpenRefused, Retry, disk

\* Creation writes the first snapshot.
LEMMA OpenInitStep ==
  ASSUME Reliable, NEW m \in Slots, NEW n \in 0..MaxSeq, NEW len \in 0..Len(walDisk),
         NEW c \in 0..len, Known(m, n, c, len),
         OpenInit
  PROVE  IInv'
<1>type. TypeOK /\ TypeOK'
  BY Zenon DEF Known
<1>parts. /\ StableInv(m, n, c, len) /\ VisibleInv(m, n) /\ MemoryInv(m, n, c, len)
          /\ hist[n] \in promise
          /\ len = Len(walDisk) \/ pc \in {"closed", "refused", "replay"}
  BY KnownParts
<1>nums. /\ wal \in Seq(Record) /\ walDisk \in Seq(Record)
         /\ Len(wal) \in Nat /\ Len(walDisk) \in Nat
         /\ n \in Nat /\ len \in Nat /\ c \in Nat /\ MaxSeq \in Nat
         /\ n <= MaxSeq /\ len <= Len(walDisk) /\ c <= len
         /\ slot[m].seq \in Nat /\ slot[1 - m].seq \in Nat
         /\ slotDisk[m].seq \in Nat /\ slotDisk[1 - m].seq \in Nat
         /\ sequence \in Nat /\ pos \in Nat /\ pos >= 1
  BY Numbers, Zenon DEF Known
<1>1. slot[0] = None /\ slot[1] = None /\ wal = <<>> /\ pc = "closed"
  BY Zenon DEF OpenInit, Published, Slots, MayInitialize
<1>2. slot[m] = None /\ slot[m].seq = 0 /\ hist[0] = Empty
  BY <1>parts, <1>1 DEF StableInv, None, Slots
<1>3. walDisk = <<>>
  <2>1. walDisk \in Seq(Record) /\ len \in Nat /\ c \in Nat
    BY <1>type DEF TypeOK
  <2>2. CASE wal # walDisk
    <3>1. n = 0 /\ len = Len(walDisk)
      BY <1>parts, <1>1, <1>2, <2>2, Zenon DEF VisibleInv, StableInv
    <3>2. Reads(hist, walDisk, c, len, 0, 0)
      BY <1>parts, <1>2, <3>1, Zenon DEF StableInv
    <3>3. c = len
      BY <2>1, <3>2 DEF Reads
    <3>4. ASSUME c > 0 PROVE FALSE
      <4>1. walDisk[1] \in Record
        BY <2>1, <3>1, <3>3, <3>4
      <4>2. 1 <= walDisk[1].seq /\ walDisk[1].seq <= 0 /\ walDisk[1].seq \in Nat
        BY <2>1, <3>2, <3>4, <4>1 DEF Reads, Record
      <4> QED
        BY <4>2
    <3>5. Len(walDisk) = 0
      BY <2>1, <3>1, <3>3, <3>4
    <3> QED
      BY <2>1, <3>5, EmptyLog, Zenon
  <2> QED
    BY <1>1, <2>2, Zenon
<1>4. slotDisk[0] = None /\ slotDisk[1] = None
  <2>1. slotDisk[m] = None /\ Older(slotDisk[1 - m], 0)
    BY <1>parts, <1>2, Zenon DEF StableInv
  <2>2. slotDisk[1 - m].seq \in Nat
    BY <1>nums, Zenon
  <2>3. slotDisk[1 - m] = None
    BY <2>1, <2>2 DEF Older
  <2> QED
    BY <2>1, <2>3 DEF Slots
<1>5. hist[n] = Empty /\ Empty \in promise
  <2>1. n = 0
    <3>1. len = 0 /\ c = 0
      BY <1>3, SMTT(30)
    <3> QED
      BY <1>parts, <1>2, <3>1, SMTT(30) DEF StableInv, Reads
  <2> QED
    BY <1>parts, <1>2, <2>1, Zenon
<1>6. Apply(Empty, Barrier) = Empty
  BY ZenonT(60) DEF Apply, Empty, Barrier
<1>7. StableInv(0, 0, 0, 0)' /\ VisibleInv(0, 0)'
  BY <1>1, <1>2, <1>3, <1>4, <1>5, SMTT(30)
  DEF OpenInit, StableInv, VisibleInv, Reads, Older, None, disk, ghost
<1>8. AttachedInv(0, 0)'
  BY <1>2, <1>5, <1>6, BoundsAssumption, SMTT(30)
  DEF OpenInit, AttachedInv, Busy, Committed, Final, Barrier, Empty, disk, ghost
<1>9. MemoryInv(0, 0, 0, 0)'
  BY <1>8, Zenon DEF OpenInit, MemoryInv
<1>10. Inv(0, 0, 0, 0)'
  BY <1>7, <1>9, Zenon DEF Inv
<1> QED
  BY <1>type, <1>3, <1>10, BoundsAssumption DEF IInv, OpenInit, disk, Slots

\* Recovery moves through the log, and does not end before the last record that it can use.
LEMMA ReplayStep ==
  ASSUME Reliable, NEW m \in Slots, NEW n \in 0..MaxSeq, NEW len \in 0..Len(walDisk),
         NEW c \in 0..len, Known(m, n, c, len),
         Replayable /\ (ReplaySkip \/ ReplayApply \/ ReplayEnd)
  PROVE  At(n)'
<1>type. TypeOK /\ TypeOK'
  BY Zenon DEF Known
<1>parts. /\ StableInv(m, n, c, len) /\ VisibleInv(m, n) /\ MemoryInv(m, n, c, len)
          /\ hist[n] \in promise
          /\ len = Len(walDisk) \/ pc \in {"closed", "refused", "replay"}
  BY KnownParts
<1>nums. /\ wal \in Seq(Record) /\ walDisk \in Seq(Record)
         /\ Len(wal) \in Nat /\ Len(walDisk) \in Nat
         /\ n \in Nat /\ len \in Nat /\ c \in Nat /\ MaxSeq \in Nat
         /\ n <= MaxSeq /\ len <= Len(walDisk) /\ c <= len
         /\ slot[m].seq \in Nat /\ slot[1 - m].seq \in Nat
         /\ slotDisk[m].seq \in Nat /\ slotDisk[1 - m].seq \in Nat
         /\ sequence \in Nat /\ pos \in Nat /\ pos >= 1
  BY Numbers, Zenon DEF Known
<1>same. ASSUME Inv(m, n, c, len)', UNCHANGED walDisk PROVE At(n)'
  BY <1>same, SameWitness, Zenon DEF Known
<1>a. pc = "replay"
  BY Zenon DEF ReplaySkip, ReplayApply, ReplayEnd
<1>1. /\ metadataSlot = m /\ wal = walDisk /\ pos \in 1..len
      /\ sequence = slot[m].seq + (IF pos - 1 <= c THEN 0 ELSE pos - 1 - c)
      /\ durable = hist[sequence]
  <2>1. ReplayInv(m, c, len)
    BY <1>parts, <1>a, Zenon DEF MemoryInv
  <2>2. wal \in Seq(Record) /\ walDisk \in Seq(Record) /\ pos \in Nat \ {0}
    BY <1>type, ZenonT(60) DEF TypeOK
  <2>3. wal = walDisk
    BY <1>parts, <1>a, <2>2, SMTT(30) DEF VisibleInv, Replayable
  <2>4. pos <= len + 1 /\ (pos = len + 1 => Len(walDisk) = len + 1 /\ walDisk[len + 1] = Torn)
    BY <1>parts, <1>a, <2>1, <2>2, <2>3, SMTT(30) DEF ReplayInv, StableInv, Replayable
  <2> QED
    BY <2>1, <2>2, <2>3, <2>4, SMTT(30) DEF ReplayInv, Replayable
<1>2. /\ slot[m].seq \in Nat /\ wal[pos] \in Record /\ wal[pos].seq \in Nat
      /\ c \in Nat /\ pos \in Nat /\ len \in Nat
  <2>1. wal[pos] \in Record
    BY <1>nums, <1>1, SMTT(30)
  <2> QED
    BY <1>nums, <2>1, Zenon DEF Record
<1>3. /\ pos <= c => wal[pos].seq <= slot[m].seq
      /\ c < pos => /\ wal[pos].seq = slot[m].seq + pos - c
                    /\ hist[slot[m].seq + pos - c]
                         = Apply(hist[slot[m].seq + pos - c - 1], wal[pos].delta)
  <2>1. Reads(hist, wal, c, len, slot[m].seq, n)
    BY <1>parts, <1>1, Zenon DEF StableInv
  <2>2. pos <= c => pos \in 1..c
    BY <1>nums
  <2>3. c < pos => pos \in (c + 1)..len
    BY <1>nums, <1>1
  <2> QED
    BY <2>1, <2>2, <2>3, Zenon DEF Reads
<1>op. op = "none"
  BY <1>parts, <1>a, Zenon DEF MemoryInv, ReplayInv
<1>4. CASE ReplaySkip
  <2>1. pos <= c
    BY <1>1, <1>2, <1>3, <1>4, SMTT(30) DEF ReplaySkip, Skips, Covered
  <2>2. StableInv(m, n, c, len)'
    BY <1>parts, <1>4, StableFrame, Zenon DEF ReplaySkip, disk, ghost
  <2>3. VisibleInv(m, n)'
    BY <1>parts, <1>a, <1>4, VisibleFrame, ZenonT(60) DEF ReplaySkip, disk
  <2>4. ReplayInv(m, c, len)'
    BY <1>op, <1>1, <1>2, <1>4, <2>1, SMTT(30) DEF ReplaySkip, ReplayInv, disk, ghost
  <2>5. MemoryInv(m, n, c, len)'
    BY <1>a, <1>4, <2>4, Zenon DEF ReplaySkip, MemoryInv, Busy, Attaching, Restored
  <2> QED
    BY <1>same, <1>4, <2>2, <2>3, <2>5, ZenonT(60) DEF Inv, ReplaySkip, disk
<1>5. CASE ReplayApply
  <2>1. c < pos
    BY <1>1, <1>2, <1>3, <1>5, SMTT(30) DEF ReplayApply, Applies, Covered
  <2>2. StableInv(m, n, c, len)'
    BY <1>parts, <1>5, StableFrame, Zenon DEF ReplayApply, disk, ghost
  <2>3. VisibleInv(m, n)'
    BY <1>parts, <1>a, <1>5, VisibleFrame, Zenon DEF ReplayApply, disk
  <2>4. sequence = slot[m].seq + pos - c - 1
    BY <1>1, <1>2, <2>1, SMTT(30)
  <2>5. sequence' = slot[m].seq + pos - c /\ durable' = hist[sequence']
    <3>1. durable = hist[slot[m].seq + pos - c - 1]
      BY <1>1, <2>4, Zenon
    <3>2. sequence' = sequence + 1 /\ durable' = Apply(durable, wal[pos].delta)
      BY <1>5, Zenon DEF ReplayApply
    <3>3. sequence' = slot[m].seq + pos - c
      BY <1>2, <2>4, <3>2
    <3> QED
      BY <1>3, <2>1, <3>1, <3>2, <3>3, Zenon
  <2>6. ReplayInv(m, c, len)'
    <3>1. /\ metadataSlot' = m /\ wal' = walDisk' /\ pos' = pos + 1
          /\ op' = "none" /\ UNCHANGED <<walDisk, slot, hist>>
      BY <1>op, <1>1, <1>5, Zenon DEF ReplayApply, disk, ghost
    <3>2. pos \in Nat /\ len \in Nat /\ c \in Nat /\ pos \in 1..len
      BY <1>1, <1>2, Zenon
    <3>3. pos' \in 1..(len + 1) /\ pos' - 1 = pos /\ ~(pos <= c)
      BY <2>1, <3>1, <3>2
    <3>4. sequence' = slot[m].seq + (IF pos <= c THEN 0 ELSE pos - c)
      BY <1>2, <2>5, <3>2, <3>3, Zenon
    <3> QED
      BY <2>5, <3>1, <3>3, <3>4 DEF ReplayInv
  <2>7. MemoryInv(m, n, c, len)'
    BY <1>a, <1>5, <2>6, Zenon DEF ReplayApply, MemoryInv, Busy, Attaching, Restored
  <2> QED
    BY <1>same, <1>5, <2>2, <2>3, <2>7, ZenonT(60) DEF Inv, ReplayApply, disk
<1>6. CASE ReplayEnd
  <2>1. Skips \/ Applies
    BY <1>1, <1>2, <1>3, SMTT(30) DEF Skips, Applies, Covered
  <2> QED
    BY <1>6, <2>1, ZenonT(60) DEF ReplayEnd
<1> QED
  BY <1>4, <1>5, <1>6, Zenon

\* At the end of the log recovery has the state of the last record and drops what follows.
LEMMA ReplayEndStep ==
  ASSUME Reliable, NEW m \in Slots, NEW n \in 0..MaxSeq, NEW len \in 0..Len(walDisk),
         NEW c \in 0..len, Known(m, n, c, len),
         ~Replayable /\ ReplayEnd
  PROVE  At(n)'
<1>type. TypeOK /\ TypeOK'
  BY Zenon DEF Known
<1>parts. /\ StableInv(m, n, c, len) /\ VisibleInv(m, n) /\ MemoryInv(m, n, c, len)
          /\ hist[n] \in promise
          /\ len = Len(walDisk) \/ pc \in {"closed", "refused", "replay"}
  BY KnownParts
<1>nums. /\ wal \in Seq(Record) /\ walDisk \in Seq(Record)
         /\ Len(wal) \in Nat /\ Len(walDisk) \in Nat
         /\ n \in Nat /\ len \in Nat /\ c \in Nat /\ MaxSeq \in Nat
         /\ n <= MaxSeq /\ len <= Len(walDisk) /\ c <= len
         /\ slot[m].seq \in Nat /\ slot[1 - m].seq \in Nat
         /\ slotDisk[m].seq \in Nat /\ slotDisk[1 - m].seq \in Nat
         /\ sequence \in Nat /\ pos \in Nat /\ pos >= 1
  BY Numbers, Zenon DEF Known
<1>same. ASSUME Inv(m, n, c, len)', UNCHANGED walDisk PROVE At(n)'
  BY <1>same, SameWitness, Zenon DEF Known
<1>1. pc = "replay" /\ ReplayInv(m, c, len)
  BY <1>parts, Zenon DEF ReplayEnd, MemoryInv
<1>2. wal # walDisk => n = slot[m].seq /\ wal = <<>>
  BY <1>parts, <1>1, Zenon DEF VisibleInv
<1>3. wal = walDisk => pos = len + 1
  <2>1. ASSUME wal = walDisk, pos <= len PROVE FALSE
    <3>9. wal[pos] = Torn
      BY <1>nums, <2>1 DEF Replayable
    <3>1. Reads(hist, walDisk, c, len, slot[m].seq, n)
      BY <1>parts, Zenon DEF StableInv
    <3>2. CASE pos <= c
      <4>1. pos \in 1..c
        BY <1>nums, <3>2
      <4>2. 1 <= wal[pos].seq
        BY <2>1, <3>1, <4>1, Zenon DEF Reads
      <4> QED
        BY <4>2, <3>9 DEF Torn
    <3>3. CASE c < pos
      <4>1. pos \in (c + 1)..len
        BY <1>nums, <2>1, <3>3
      <4>2. wal[pos].seq = slot[m].seq + pos - c
        BY <2>1, <3>1, <4>1, Zenon DEF Reads
      <4> QED
        BY <1>nums, <4>2, <3>3, <3>9 DEF Torn
    <3> QED
      BY <1>nums, <3>2, <3>3, SMTT(30)
  <2> QED
    BY <1>nums, <1>1, <2>1, SMTT(30) DEF ReplayInv
<1>4. metadataSlot = m /\ sequence = n /\ durable = hist[n]
  <2>1. n = slot[m].seq + len - c
    BY <1>parts, ZenonT(60) DEF StableInv, Reads
  <2>2. CASE wal = walDisk
    BY <1>nums, <1>1, <1>3, <2>1, <2>2, SMTT(30) DEF ReplayInv
  <2>3. CASE wal # walDisk
    BY <1>nums, <1>1, <1>2, <2>3, SMTT(30) DEF ReplayInv
  <2> QED
    BY <2>2, <2>3, Zenon
<1>5. Kept = IF n = slot[m].seq THEN 0 ELSE pos - 1
  BY <1>4, Zenon DEF Kept
<1>6. AttachedInv(m, n)' /\ (\A cc, ll : MemoryInv(m, n, cc, ll)')
  <2>1. op # "init"
    BY <1>1, Zenon DEF ReplayInv
  <2> QED
    BY <1>4, <2>1, Zenon
    DEF ReplayEnd, AttachedInv, MemoryInv, Busy, Attaching, Restored, Committed, ghost
<1>7. Older(slot[1 - m], slot[m].seq)
  BY <1>parts, <1>1, Zenon DEF VisibleInv
<1>8. CASE n = slot[m].seq /\ Len(wal) > 0
  <2>1. wal' = <<>> /\ walDisk' = <<>>
    <3>1. Kept = 0 /\ Kept < Len(wal)
      BY <1>5, <1>8, Zenon
    <3>2. SubSeq(wal, 1, 0) = <<>>
      BY <1>nums, Prefixes
    <3> QED
      BY <3>1, <3>2, Zenon DEF ReplayEnd
  <2>a. Reads(hist, <<>>, 0, 0, n, n)
    BY EmptyReads
  <2>b. StableInv(m, n, 0, 0)'
    BY <1>nums, <1>parts, <1>8, <2>1, <2>a, Zenon
    DEF ReplayEnd, names, StableInv, Older, ghost
  <2>2. StableInv(m, n, 0, 0)' /\ VisibleInv(m, n)'
    BY <1>7, <1>8, <2>1, <2>b, Zenon DEF ReplayEnd, names, VisibleInv, Older
  <2>3. Inv(m, n, 0, 0)'
    BY <1>6, <2>2, Zenon DEF Inv
  <2> QED
    BY <2>1, <2>3 DEF At
<1>9. CASE n = slot[m].seq /\ Len(wal) = 0
  <2>1. wal' = <<>> /\ UNCHANGED walDisk
    <3>1. Kept = 0 /\ ~(Kept < Len(wal))
      BY <1>5, <1>9
    <3>2. SubSeq(wal, 1, 0) = <<>>
      BY <1>nums, Prefixes
    <3> QED
      BY <3>1, <3>2, Zenon DEF ReplayEnd
  <2>2. len = Len(walDisk)
    BY <1>nums, <1>parts, <1>9, SMTT(30) DEF StableInv
  <2>3. StableInv(m, n, c, len)' /\ VisibleInv(m, n)'
    BY <1>nums, <1>parts, <1>7, <1>9, <2>1, <2>2, Zenon
    DEF ReplayEnd, names, StableInv, VisibleInv, Reads, Older, ghost
  <2> QED
    BY <1>same, <1>6, <2>1, <2>3, Zenon DEF Inv
<1>10. CASE n # slot[m].seq
  <2>1. wal = walDisk /\ Kept = len
    BY <1>nums, <1>2, <1>3, <1>5, <1>10, SMTT(30)
  <2>2. wal' = SubSeq(walDisk, 1, len) /\ walDisk' = wal'
    <3>1. len < Len(wal) \/ (len = Len(wal) /\ SubSeq(wal, 1, len) = wal)
      BY <1>nums, <2>1, Prefixes
    <3> QED
      BY <2>1, <3>1, Zenon DEF ReplayEnd
  <2>3. Len(walDisk') = len /\ \A p \in 1..len : walDisk'[p] = walDisk[p]
    BY <1>nums, <2>2
  <2>a. Reads(hist, walDisk', c, len, slot[m].seq, n)
    BY <1>nums, <1>parts, <2>3, ReadsFrame, Zenon DEF StableInv
  <2>b. StableInv(m, n, c, len)'
    BY <1>nums, <1>parts, <2>3, <2>a, Zenon DEF ReplayEnd, names, StableInv, Older, ghost
  <2>4. StableInv(m, n, c, len)' /\ VisibleInv(m, n)'
    BY <1>7, <2>2, <2>b, Zenon DEF ReplayEnd, names, VisibleInv, Older
  <2>5. Inv(m, n, c, len)'
    BY <1>6, <2>4, Zenon DEF Inv
  <2>6. len \in 0..Len(walDisk') /\ c \in 0..len
    BY <1>nums, <2>3
  <2> QED
    BY <2>5, <2>6, Zenon DEF At
<1> QED
  BY <1>nums, <1>8, <1>9, <1>10

\* The markers, restoring the state and the directory syncs change nothing that
\* is stored in the slots and the log.
LEMMA MarksStep ==
  ASSUME Reliable, NEW m \in Slots, NEW n \in 0..MaxSeq, NEW len \in 0..Len(walDisk),
         NEW c \in 0..len, Known(m, n, c, len), pc \in Attaching,
         RecoverIncomplete \/ Restore \/ MarkInitialized \/ MarkAttached \/ MarkSync
  PROVE  IInv' /\ At(n)'
<1>type. TypeOK /\ TypeOK' /\ durable \in State
  BY Zenon DEF Known, TypeOK
<1>parts. /\ StableInv(m, n, c, len) /\ VisibleInv(m, n) /\ MemoryInv(m, n, c, len)
          /\ hist[n] \in promise
          /\ len = Len(walDisk) \/ pc \in {"closed", "refused", "replay"}
  BY KnownParts
<1>same. ASSUME Inv(m, n, c, len)', UNCHANGED walDisk PROVE IInv' /\ At(n)'
  BY <1>same, SameWitness, Zenon DEF Known
<1>1. AttachedInv(m, n) /\ len = Len(walDisk)
  BY <1>parts, Zenon DEF MemoryInv, Attaching, Restored
<1>2. /\ UNCHANGED <<wal, walDisk, slot, hist, promise, op, delta, sequence, metadataSlot, durable>>
      /\ slotDisk' = slotDisk \/ slotDisk' = slot
      /\ pc' \in Attaching \cup {"append"}
      /\ pc' = "append" => op = "init" /\ live' = durable /\ pending' = {}
      /\ pc' \in Restored => live' = durable
      /\ pc' # "append" => (op = "init" => pc' \in Attaching)
  <2>1. CASE RecoverIncomplete \/ MarkInitialized \/ MarkAttached
    BY <1>1, <2>1, Zenon
    DEF RecoverIncomplete, MarkInitialized, MarkAttached, memory, ghost, Attaching, Restored, AttachedInv
  <2>2. CASE Restore
    BY <2>2, Zenon DEF Restore, disk, ghost, Attaching, Restored
  <2>3. CASE MarkSync
    BY <1>1, <1>type, <2>3, HostFacts, Zenon
    DEF MarkSync, memory, ghost, Attaching, Restored, AttachedInv
  <2> QED
    BY <2>1, <2>2, <2>3
<1>3. Older(slot[1 - m], slot[m].seq)
  BY <1>parts, Zenon DEF VisibleInv, Attaching, Restored
<1>4. StableInv(m, n, c, len)'
  BY <1>parts, <1>1, <1>2, <1>3, Zenon DEF StableInv, Reads, Older
<1>5. VisibleInv(m, n)'
  BY <1>parts, <1>2, <1>3, Zenon DEF VisibleInv, Older, Attaching, Restored
<1>6. AttachedInv(m, n)'
  <2>1. CASE pc' = "append"
    <3>1. /\ n + 2 <= MaxSeq /\ delta = Barrier /\ durable \in promise
      BY <1>1, <1>2, <2>1, Zenon DEF AttachedInv
    <3>2. Apply(durable, Barrier) = durable /\ DOMAIN Barrier = {}
      BY <1>type, Zenon DEF Apply, Barrier, State
    <3> QED
      BY <1>1, <1>2, <2>1, <3>1, <3>2, Zenon
      DEF AttachedInv, Busy, Committed, Attaching, Restored, Final
  <2>2. CASE pc' \in Attaching
    BY <1>1, <1>2, <2>2, Zenon DEF AttachedInv, Busy, Committed, Attaching, Restored
  <2> QED
    BY <1>2, <2>1, <2>2
<1>7. MemoryInv(m, n, c, len)'
  BY <1>2, <1>6, Zenon DEF MemoryInv, Attaching, Restored
<1> QED
  BY <1>same, <1>2, <1>4, <1>5, <1>7, Zenon DEF Inv

\* Handing the file system to the caller settles what is promised.
LEMMA AttachStep ==
  ASSUME Reliable, NEW m \in Slots, NEW n \in 0..MaxSeq, NEW len \in 0..Len(walDisk),
         NEW c \in 0..len, Known(m, n, c, len),
         Attach
  PROVE  IInv'
<1>parts. /\ StableInv(m, n, c, len) /\ VisibleInv(m, n) /\ MemoryInv(m, n, c, len)
          /\ hist[n] \in promise
          /\ len = Len(walDisk) \/ pc \in {"closed", "refused", "replay"}
  BY KnownParts
<1>same. ASSUME Inv(m, n, c, len)', UNCHANGED walDisk PROVE IInv'
  BY <1>same, SameWitness, Zenon DEF Known
<1>1. AttachedInv(m, n) /\ pc = "dirtied" /\ len = Len(walDisk) /\ live = durable
  BY <1>parts, Zenon DEF Attach, MemoryInv, AttachedInv, Attaching, Restored
<1>2. hist[n] \in promise' /\ slotDisk' = slot /\ pc' = "attached"
      /\ UNCHANGED <<wal, walDisk, slot, hist, memory>>
  BY <1>parts, <1>1, HostFacts, Zenon DEF Attach, AttachedInv, Known
<1>3. Older(slot[1 - m], slot[m].seq)
  BY <1>parts, <1>1, Zenon DEF VisibleInv
<1>4. StableInv(m, n, c, len)' /\ VisibleInv(m, n)'
  BY <1>parts, <1>1, <1>2, <1>3, Zenon DEF StableInv, VisibleInv, Reads, Older
<1>5. MemoryInv(m, n, c, len)'
  BY <1>1, <1>2, Zenon DEF MemoryInv, AttachedInv, Busy, Committed, Attaching, Restored, memory
<1> QED
  BY <1>same, <1>2, <1>4, <1>5, Zenon DEF Inv

\* Closing the store again, and Close's marker.
LEMMA ClosingStep ==
  ASSUME Reliable, NEW m \in Slots, NEW n \in 0..MaxSeq, NEW len \in 0..Len(walDisk),
         NEW c \in 0..len, Known(m, n, c, len),
         OpenFails \/ Clean
  PROVE  IInv' /\ At(n)'
<1>parts. /\ StableInv(m, n, c, len) /\ VisibleInv(m, n) /\ MemoryInv(m, n, c, len)
          /\ hist[n] \in promise
          /\ len = Len(walDisk) \/ pc \in {"closed", "refused", "replay"}
  BY KnownParts
<1>same. ASSUME Inv(m, n, c, len)', UNCHANGED walDisk PROVE IInv' /\ At(n)'
  BY <1>same, SameWitness, Zenon DEF Known
<1>2. /\ UNCHANGED <<wal, walDisk, slot, hist, promise>>
      /\ slotDisk' = slotDisk \/ slotDisk' = slot
      /\ pc \notin {"written", "published"}
      /\ pc' = "closed" \/ (pc' = "cleaned" /\ pc = "clean")
  <2>1. CASE OpenFails \/ MarkClean \/ CleanFails
    BY <2>1, Zenon DEF OpenFails, MarkClean, CleanFails, Detach, disk, ghost
  <2>2. CASE CleanSync
    BY <2>2, HostFacts, Zenon DEF CleanSync, Detach, ghost, Known
  <2> QED
    BY <2>1, <2>2, Zenon DEF Clean
<1>3. Older(slot[1 - m], slot[m].seq)
  BY <1>parts, <1>2, Zenon DEF VisibleInv
<1>4. StableInv(m, n, c, len)'
  BY <1>parts, <1>2, <1>3, Zenon DEF StableInv, Reads, Older
<1>5. VisibleInv(m, n)'
  BY <1>parts, <1>2, <1>3, Zenon DEF VisibleInv, Older
<1>7. MemoryInv(m, n, c, len)'
  BY <1>2, Zenon DEF MemoryInv, Attaching, Restored, Busy
<1> QED
  BY <1>same, <1>2, <1>4, <1>5, <1>7, Zenon DEF Inv

\* A mutation changes memory and marks its record.
LEMMA MutateStep ==
  ASSUME Reliable, NEW m \in Slots, NEW n \in 0..MaxSeq, NEW len \in 0..Len(walDisk),
         NEW c \in 0..len, Known(m, n, c, len),
         NEW k \in Keys, NEW v \in Values, Mutate(k, v)
  PROVE  IInv'
<1>type. TypeOK /\ TypeOK'
  BY Zenon DEF Known
<1>parts. /\ StableInv(m, n, c, len) /\ VisibleInv(m, n) /\ MemoryInv(m, n, c, len)
          /\ hist[n] \in promise
          /\ len = Len(walDisk) \/ pc \in {"closed", "refused", "replay"}
  BY KnownParts
<1>same. ASSUME Inv(m, n, c, len)', UNCHANGED walDisk PROVE IInv'
  BY <1>same, SameWitness, Zenon DEF Known
<1>1. StableInv(m, n, c, len)'
  BY <1>parts, StableFrame, Zenon DEF Mutate, disk, ghost
<1>2. VisibleInv(m, n)'
  BY <1>parts, VisibleFrame, Zenon DEF Mutate, disk
<1>3. AttachedInv(m, n) /\ live \in State
  BY <1>type, <1>parts, Zenon DEF Mutate, MemoryInv, TypeOK
<1>4. \A j \in Keys : j \notin pending' => live'[j] = durable'[j]
  BY <1>3, Zenon DEF Mutate, AttachedInv, State
<1>5. AttachedInv(m, n)'
  BY <1>3, <1>4, Zenon DEF Mutate, AttachedInv, Busy, Attaching, Restored, Committed, disk, ghost
<1>6. MemoryInv(m, n, c, len)'
  BY <1>5, Zenon DEF Mutate, MemoryInv
<1> QED
  BY <1>same, <1>1, <1>2, <1>6, Zenon DEF Inv, Mutate, disk

\* A barrier promises the state it is about to write.
LEMMA StartStep ==
  ASSUME Reliable, NEW m \in Slots, NEW n \in 0..MaxSeq, NEW len \in 0..Len(walDisk),
         NEW c \in 0..len, Known(m, n, c, len),
         NEW name, NEW K \in SUBSET Keys, Start(name, Only(K)), name \in {"close", "init"} => K = pending
  PROVE  IInv'
<1>type. TypeOK /\ TypeOK'
  BY Zenon DEF Known
<1>parts. /\ StableInv(m, n, c, len) /\ VisibleInv(m, n) /\ MemoryInv(m, n, c, len)
          /\ hist[n] \in promise
          /\ len = Len(walDisk) \/ pc \in {"closed", "refused", "replay"}
  BY KnownParts
<1>same. ASSUME Inv(m, n, c, len)', UNCHANGED walDisk PROVE IInv'
  BY <1>same, SameWitness, Zenon DEF Known
<1>1. /\ AttachedInv(m, n) /\ pc = "attached" /\ pc' = "append" /\ delta' = Only(K)
      /\ op' = name
  BY <1>parts, Zenon DEF Start, MemoryInv
<1>2. live \in State /\ durable \in State
  BY <1>type, Zenon DEF TypeOK
<1>3. /\ Only(K) \in Delta /\ DOMAIN Only(K) = K
      /\ \A k \in K : Only(K)[k] = live[k]
  BY <1>2, OnlyDelta, Zenon
<1>4. hist[n] \in promise'
  BY <1>parts, Zenon DEF Start
<1>5. Apply(durable, Only(K)) \in promise'
  BY <1>parts, <1>1, Zenon DEF Start, AttachedInv
<1>6. name \in {"close", "init"} => Apply(durable, Only(K)) = live
  <2>1. ASSUME K = pending PROVE Apply(durable, Only(K)) = live
    <3>1. \A k \in Keys : k \notin pending => live[k] = durable[k]
      BY <1>1, Zenon DEF AttachedInv
    <3>2. \A k \in Keys : Apply(durable, Only(K))[k] = live[k]
      BY <1>2, <1>3, <2>1, <3>1, ApplyState, Zenon
    <3>3. Apply(durable, Only(K)) \in State
      BY <1>2, <1>3, ApplyState, Zenon
    <3> QED
      BY <1>2, <3>2, <3>3 DEF State
  <2> QED
    BY <2>1, Zenon
<1>7. StableInv(m, n, c, len)'
  BY <1>parts, <1>4, <1>1, StableFrame, Zenon DEF Start, disk
<1>8. VisibleInv(m, n)'
  BY <1>parts, <1>1, VisibleFrame, Zenon DEF Start, disk
<1>9. AttachedInv(m, n)'
  BY <1>1, <1>3, <1>5, <1>6, Zenon DEF Start, AttachedInv, Busy, Attaching, Restored, Committed, Final, disk
<1>10. MemoryInv(m, n, c, len)'
  BY <1>1, <1>9, Zenon DEF MemoryInv
<1> QED
  BY <1>same, <1>7, <1>8, <1>10, Zenon DEF Inv, Start, disk

-----------------------------------------------------------------------------
(* Barriers and compactions. *)

\* Every barrier.
LEMMA BeginStep ==
  ASSUME Reliable, NEW m \in Slots, NEW n \in 0..MaxSeq, NEW len \in 0..Len(walDisk),
         NEW c \in 0..len, Known(m, n, c, len),
         Begin
  PROVE  IInv'
<1>type. TypeOK /\ TypeOK'
  BY Zenon DEF Known
<1>parts. /\ StableInv(m, n, c, len) /\ VisibleInv(m, n) /\ MemoryInv(m, n, c, len)
          /\ hist[n] \in promise
          /\ len = Len(walDisk) \/ pc \in {"closed", "refused", "replay"}
  BY KnownParts
<1>same. ASSUME Inv(m, n, c, len)', UNCHANGED walDisk PROVE IInv'
  BY <1>same, SameWitness, Zenon DEF Known
<1>1. ASSUME NEW k \in Keys, Fsync(k) PROVE IInv'
  BY StartStep, <1>1, Zenon DEF Fsync
<1>2. ASSUME NEW K \in SUBSET Keys, FsyncDir(K) PROVE IInv'
  BY StartStep, <1>2, Zenon DEF FsyncDir
<1>3. CASE SyncFS \/ Close
  BY <1>type, StartStep, <1>3, Zenon DEF SyncFS, Close, TypeOK
<1>4. CASE FsyncDirClean
  <2>1. StableInv(m, n, c, len)'
    BY <1>parts, <1>4, StableFrame, Zenon DEF FsyncDirClean, disk, ghost
  <2>2. VisibleInv(m, n)'
    BY <1>parts, <1>4, VisibleFrame, Zenon DEF FsyncDirClean, disk
  <2>3. AttachedInv(m, n) /\ durable \in State
    BY <1>type, <1>parts, <1>4, Zenon DEF FsyncDirClean, MemoryInv, TypeOK
  <2>4. Apply(durable, Barrier) = durable
    BY <2>3, Zenon DEF Apply, Barrier, State
  <2>5. AttachedInv(m, n)'
    BY <1>4, <2>3, <2>4, Zenon DEF FsyncDirClean, AttachedInv, Busy, Attaching, Restored, Committed, Final, disk, ghost
  <2>6. MemoryInv(m, n, c, len)'
    BY <1>4, <2>5, Zenon DEF FsyncDirClean, MemoryInv
  <2> QED
    BY <1>same, <1>4, <2>1, <2>2, <2>6, Zenon DEF Inv, FsyncDirClean, disk
<1> QED
  BY <1>1, <1>2, <1>3, <1>4, Zenon DEF Begin

\* A failed step returns to the attached store or gives it up.
LEMMA FailStep ==
  ASSUME Reliable, NEW m \in Slots, NEW n \in 0..MaxSeq, NEW len \in 0..Len(walDisk),
         NEW c \in 0..len, Known(m, n, c, len),
         Fail, UNCHANGED <<wal, walDisk, slot, slotDisk>>, pc \in Busy \ {"written", "published"}
  PROVE  IInv'
<1>parts. /\ StableInv(m, n, c, len) /\ VisibleInv(m, n) /\ MemoryInv(m, n, c, len)
          /\ hist[n] \in promise
          /\ len = Len(walDisk) \/ pc \in {"closed", "refused", "replay"}
  BY KnownParts
<1>same. ASSUME Inv(m, n, c, len)', UNCHANGED walDisk PROVE IInv'
  BY <1>same, SameWitness, Zenon DEF Known
<1>1. AttachedInv(m, n)
  BY <1>parts, Zenon DEF MemoryInv
<1>2. pc' \in {"closed", "attached"} /\ UNCHANGED ghost
  BY Zenon DEF Fail, Detach, Resume
<1>3. len = Len(walDisk)
  BY <1>parts, Zenon DEF Busy
<1>4. StableInv(m, n, c, len)'
  BY <1>parts, <1>2, <1>3, StableFrame, Zenon DEF ghost
<1>5. VisibleInv(m, n)'
  BY <1>parts, <1>2, VisibleFrame, Zenon
<1>6. pc' = "attached" => AttachedInv(m, n)'
  BY <1>1, <1>2, Zenon DEF Fail, Detach, Resume, AttachedInv, Busy, Attaching, Restored, Committed, ghost
<1>7. MemoryInv(m, n, c, len)'
  BY <1>2, <1>6, Zenon DEF MemoryInv, Busy, Attaching, Restored
<1> QED
  BY <1>same, <1>4, <1>5, <1>7, Zenon DEF Inv

\* The failures that leave the files alone.
LEMMA FailsStep ==
  ASSUME Reliable, NEW m \in Slots, NEW n \in 0..MaxSeq, NEW len \in 0..Len(walDisk),
         NEW c \in 0..len, Known(m, n, c, len),
         AppendFails \/ ReclaimFails \/ StageFails \/ PublishFails \/ ResetFails
  PROVE  IInv'
<1>1. Fail /\ UNCHANGED <<wal, walDisk, slot, slotDisk>>
  BY HostFacts, Zenon DEF AppendFails, ReclaimFails, StageFails, PublishFails, ResetFails, Known
<1>2. pc \in Busy \ {"written", "published"}
  BY Zenon DEF AppendFails, ReclaimFails, StageFails, PublishFails, ResetFails, Replacing, Busy
<1> QED
  BY FailStep, <1>1, <1>2, Zenon

\* What Reliable excludes.
LEMMA UnreliableStep ==
  ASSUME Reliable, NEW m \in Slots, NEW n \in 0..MaxSeq, NEW len \in 0..Len(walDisk),
         NEW c \in 0..len, Known(m, n, c, len),
         AppendTears \/ AppendSyncFails \/ DirSyncFails \/ RemoveSlot \/ QuarantineFails
           \/ ProcessCrash
  PROVE  FALSE
BY HostFacts, Zenon
DEF AppendTears, AppendSyncFails, DirSyncFails, RemoveSlot, QuarantineFails, ProcessCrash, Known

\* The record is in the visible log only.
LEMMA AppendWriteStep ==
  ASSUME Reliable, NEW m \in Slots, NEW n \in 0..MaxSeq, NEW len \in 0..Len(walDisk),
         NEW c \in 0..len, Known(m, n, c, len),
         AppendWrite
  PROVE  IInv'
<1>type. TypeOK /\ TypeOK'
  BY Zenon DEF Known
<1>parts. /\ StableInv(m, n, c, len) /\ VisibleInv(m, n) /\ MemoryInv(m, n, c, len)
          /\ hist[n] \in promise
          /\ len = Len(walDisk) \/ pc \in {"closed", "refused", "replay"}
  BY KnownParts
<1>nums. /\ wal \in Seq(Record) /\ walDisk \in Seq(Record)
         /\ Len(wal) \in Nat /\ Len(walDisk) \in Nat
         /\ n \in Nat /\ len \in Nat /\ c \in Nat /\ MaxSeq \in Nat
         /\ n <= MaxSeq /\ len <= Len(walDisk) /\ c <= len
         /\ slot[m].seq \in Nat /\ slot[1 - m].seq \in Nat
         /\ slotDisk[m].seq \in Nat /\ slotDisk[1 - m].seq \in Nat
         /\ sequence \in Nat /\ pos \in Nat /\ pos >= 1
  BY Numbers, Zenon DEF Known
<1>same. ASSUME Inv(m, n, c, len)', UNCHANGED walDisk PROVE IInv'
  BY <1>same, SameWitness, Zenon DEF Known
<1>1. AttachedInv(m, n) /\ pc = "append" /\ len = Len(walDisk)
  BY <1>parts, Zenon DEF AppendWrite, MemoryInv, Busy
<1>2. sequence = n /\ n + 2 <= MaxSeq /\ durable = hist[n]
  BY <1>1, Zenon DEF AttachedInv
<1>3. hist \in [0..MaxSeq -> State]
  BY <1>type, Zenon DEF TypeOK
<1>4. (\A i \in 0..n : hist'[i] = hist[i]) /\ hist'[n + 1] = Apply(durable, delta)
  <2>1. hist' = [hist EXCEPT ![n + 1] = Apply(durable, delta)]
    BY <1>2, ZenonT(60) DEF AppendWrite
  <2>2. n + 1 \in 0..MaxSeq /\ \A i \in 0..n : i \in 0..MaxSeq /\ i # n + 1
    BY <1>nums, <1>2, SMTT(30)
  <2> QED
    BY <1>3, <2>1, <2>2, Zenon
<1>5. n = slot[m].seq + len - c /\ slot[m].seq \in 0..n
  BY <1>nums, <1>parts, SMTT(30) DEF StableInv, Reads
<1>6. Reads(hist', walDisk', c, len, slot[m].seq, n)
  BY <1>nums, <1>parts, <1>4, ReadsFrame, ZenonT(60) DEF StableInv, AppendWrite
<1>a. hist'[slot[m].seq] = hist[slot[m].seq] /\ hist'[n] = hist[n]
  <2>1. slot[m].seq \in 0..n /\ n \in 0..n
    BY <1>nums, <1>5, SMTT(30)
  <2> QED
    BY <1>4, <2>1, Zenon
<1>b. UNCHANGED <<walDisk, slot, slotDisk, promise>>
  BY Zenon DEF AppendWrite
<1>7. StableInv(m, n, c, len)'
  BY <1>parts, <1>1, <1>6, <1>a, <1>b, Zenon DEF StableInv, Older
<1>8. VisibleInv(m, n)'
  <2>1. UNCHANGED InFlight /\ wal' = Append(wal, InFlight)
    BY Zenon DEF AppendWrite, InFlight, memory
  <2>0. VisibleInv(m, n) /\ pc # "written" /\ pc # "published"
    BY <1>parts, <1>1, Zenon
  <2>2. wal = walDisk \/ (n = slot[m].seq /\ wal = <<>>)
    BY <2>0, Zenon DEF VisibleInv
  <2>3. wal' = Append(walDisk, InFlight) \/ (n = slot[m].seq /\ wal' = <<InFlight>>)
    BY <2>1, <2>2, AppendEmpty, ZenonT(60)
  <2>4. Older(slot[1 - m], slot[m].seq)
    BY <1>parts, <1>1, ZenonT(60) DEF VisibleInv
  <2> QED
    BY <2>1, <2>3, <2>4, Zenon DEF AppendWrite, VisibleInv, Older
<1>9. AttachedInv(m, n)'
  BY <1>nums, <1>1, <1>4, SMTT(30) DEF AppendWrite, AttachedInv, Busy, Attaching, Restored, Committed, Final, memory
<1>10. MemoryInv(m, n, c, len)'
  BY <1>9, Zenon DEF AppendWrite, MemoryInv
<1> QED
  BY <1>same, <1>7, <1>8, <1>10, Zenon DEF Inv, AppendWrite

\* A barrier without a snapshot returns.
LEMMA ReturnStep ==
  ASSUME Reliable, NEW m \in Slots, NEW n \in 0..MaxSeq, NEW len \in 0..Len(walDisk),
         NEW c \in 0..len, Known(m, n, c, len),
         Return
  PROVE  IInv'
<1>parts. /\ StableInv(m, n, c, len) /\ VisibleInv(m, n) /\ MemoryInv(m, n, c, len)
          /\ hist[n] \in promise
          /\ len = Len(walDisk) \/ pc \in {"closed", "refused", "replay"}
  BY KnownParts
<1>same. ASSUME Inv(m, n, c, len)', UNCHANGED walDisk PROVE IInv'
  BY <1>same, SameWitness, Zenon DEF Known
<1>1. AttachedInv(m, n) /\ pc = "maybe" /\ pc' = "attached" /\ len = Len(walDisk)
  BY <1>parts, Zenon DEF Return, Resume, MemoryInv, Busy
<1>2. hist[n] \in promise'
  <2>1. Apply(hist[n], delta) = hist[n]
    BY <1>1, Zenon DEF AttachedInv, Committed
  <2> QED
    BY <1>parts, <2>1, Zenon DEF Return, Acknowledge
<1>3. StableInv(m, n, c, len)'
  BY <1>parts, <1>1, <1>2, StableFrame, Zenon DEF Return, disk
<1>4. VisibleInv(m, n)'
  BY <1>parts, <1>1, VisibleFrame, Zenon DEF Return, disk
<1>5. AttachedInv(m, n)'
  BY <1>1, Zenon DEF Return, Resume, AttachedInv, Busy, Attaching, Restored, Committed, disk
<1>6. MemoryInv(m, n, c, len)'
  BY <1>1, <1>5, Zenon DEF MemoryInv
<1> QED
  BY <1>same, <1>3, <1>4, <1>6, Zenon DEF Inv, Return, disk

\* A snapshot begins.
LEMMA CompactStep ==
  ASSUME Reliable, NEW m \in Slots, NEW n \in 0..MaxSeq, NEW len \in 0..Len(walDisk),
         NEW c \in 0..len, Known(m, n, c, len),
         Compact
  PROVE  IInv'
<1>parts. /\ StableInv(m, n, c, len) /\ VisibleInv(m, n) /\ MemoryInv(m, n, c, len)
          /\ hist[n] \in promise
          /\ len = Len(walDisk) \/ pc \in {"closed", "refused", "replay"}
  BY KnownParts
<1>same. ASSUME Inv(m, n, c, len)', UNCHANGED walDisk PROVE IInv'
  BY <1>same, SameWitness, Zenon DEF Known
<1>1. AttachedInv(m, n) /\ pc = "maybe" /\ pc' = "save" /\ len = Len(walDisk)
  BY <1>parts, Zenon DEF Compact, MemoryInv, Busy
<1>2. StableInv(m, n, c, len)'
  BY <1>parts, <1>1, StableFrame, Zenon DEF Compact, disk, ghost
<1>3. VisibleInv(m, n)'
  BY <1>parts, <1>1, VisibleFrame, Zenon DEF Compact, disk
<1>4. AttachedInv(m, n)'
  BY <1>1, Zenon DEF Compact, AttachedInv, Busy, Attaching, Restored, Committed, Final, disk, memory, ghost
<1>5. MemoryInv(m, n, c, len)'
  BY <1>1, <1>4, Zenon DEF MemoryInv
<1> QED
  BY <1>same, <1>2, <1>3, <1>5, Zenon DEF Inv, Compact, disk

\* The snapshot is in the visible slot only.
LEMMA PublishStep ==
  ASSUME Reliable, NEW m \in Slots, NEW n \in 0..MaxSeq, NEW len \in 0..Len(walDisk),
         NEW c \in 0..len, Known(m, n, c, len),
         Publish
  PROVE  IInv'
<1>type. TypeOK /\ TypeOK'
  BY Zenon DEF Known
<1>parts. /\ StableInv(m, n, c, len) /\ VisibleInv(m, n) /\ MemoryInv(m, n, c, len)
          /\ hist[n] \in promise
          /\ len = Len(walDisk) \/ pc \in {"closed", "refused", "replay"}
  BY KnownParts
<1>nums. /\ wal \in Seq(Record) /\ walDisk \in Seq(Record)
         /\ Len(wal) \in Nat /\ Len(walDisk) \in Nat
         /\ n \in Nat /\ len \in Nat /\ c \in Nat /\ MaxSeq \in Nat
         /\ n <= MaxSeq /\ len <= Len(walDisk) /\ c <= len
         /\ slot[m].seq \in Nat /\ slot[1 - m].seq \in Nat
         /\ slotDisk[m].seq \in Nat /\ slotDisk[1 - m].seq \in Nat
         /\ sequence \in Nat /\ pos \in Nat /\ pos >= 1
  BY Numbers, Zenon DEF Known
<1>same. ASSUME Inv(m, n, c, len)', UNCHANGED walDisk PROVE IInv'
  BY <1>same, SameWitness, Zenon DEF Known
<1>1. AttachedInv(m, n) /\ pc \in {"save", "removed"} /\ pc' = "published" /\ len = Len(walDisk)
  BY <1>parts, Zenon DEF Publish, Replacing, MemoryInv, Busy
<1>2. metadataSlot = m /\ sequence = n /\ n + 1 <= MaxSeq /\ OtherSlot = 1 - m
  BY <1>1, Zenon DEF AttachedInv, OtherSlot
<1>3. /\ slot'[m] = slot[m] /\ slot'[1 - m] = Saved
      /\ UNCHANGED <<wal, walDisk, slotDisk, promise>>
  <2>1. slot \in [Slots -> Snapshot]
    BY <1>type, Zenon DEF TypeOK
  <2> QED
    BY <1>2, <2>1 DEF Publish, Slots
<1>4. hist \in [0..MaxSeq -> State]
  BY <1>type, Zenon DEF TypeOK
<1>5. (\A i \in 0..n : hist'[i] = hist[i]) /\ hist'[n + 1] = Saved.state
  BY <1>nums, <1>2, <1>4 DEF Publish
<1>6. n = slot[m].seq + len - c /\ slot[m].seq \in 0..n
  BY <1>nums, <1>parts, SMTT(30) DEF StableInv, Reads
<1>7. Reads(hist', walDisk', c, len, slot[m].seq, n)
  BY <1>nums, <1>parts, <1>3, <1>5, ReadsFrame, Zenon DEF StableInv
<1>8. hist'[slot[m].seq] = hist[slot[m].seq] /\ hist'[n] = hist[n]
  <2>1. slot[m].seq \in 0..n /\ n \in 0..n
    BY <1>nums, <1>6, SMTT(30)
  <2> QED
    BY <1>5, <2>1, Zenon
<1>9. StableInv(m, n, c, len)'
  BY <1>parts, <1>1, <1>3, <1>7, <1>8, Zenon DEF StableInv, Older
<1>10. UNCHANGED Saved
  BY Zenon DEF Publish, Saved, Final, memory
<1>11. VisibleInv(m, n)'
  BY <1>parts, <1>1, <1>3, <1>10, Zenon DEF VisibleInv
<1>12. AttachedInv(m, n)'
  BY <1>1, <1>2, <1>5, <1>8, <1>10, Zenon
  DEF Publish, AttachedInv, Busy, Attaching, Restored, Committed, Final, memory
<1>13. MemoryInv(m, n, c, len)'
  BY <1>1, <1>12, Zenon DEF MemoryInv
<1> QED
  BY <1>same, <1>3, <1>9, <1>11, <1>13, Zenon DEF Inv

\* The log is truncated in its visible form.
LEMMA ResetTruncateStep ==
  ASSUME Reliable, NEW m \in Slots, NEW n \in 0..MaxSeq, NEW len \in 0..Len(walDisk),
         NEW c \in 0..len, Known(m, n, c, len),
         ResetTruncate
  PROVE  IInv'
<1>parts. /\ StableInv(m, n, c, len) /\ VisibleInv(m, n) /\ MemoryInv(m, n, c, len)
          /\ hist[n] \in promise
          /\ len = Len(walDisk) \/ pc \in {"closed", "refused", "replay"}
  BY KnownParts
<1>same. ASSUME Inv(m, n, c, len)', UNCHANGED walDisk PROVE IInv'
  BY <1>same, SameWitness, Zenon DEF Known
<1>1. AttachedInv(m, n) /\ pc = "saved" /\ pc' = "truncated" /\ len = Len(walDisk)
  BY <1>parts, Zenon DEF ResetTruncate, MemoryInv, Busy
<1>2. /\ n = slot[m].seq /\ wal' = <<>>
      /\ UNCHANGED <<walDisk, slot, slotDisk, hist>> /\ UNCHANGED promise
      /\ UNCHANGED <<memory, ghost>>
  BY <1>1, Zenon DEF ResetTruncate, AttachedInv, names, ghost
<1>3. StableInv(m, n, c, len)'
  BY <1>parts, <1>1, <1>2, StableKept, Zenon
<1>o. Older(slot[1 - m], slot[m].seq)
  BY <1>parts, <1>1, Zenon DEF VisibleInv
<1>4. VisibleInv(m, n)'
  BY <1>1, <1>2, <1>o, Zenon DEF VisibleInv, Older
<1>5. AttachedInv(m, n)'
  BY <1>1, <1>2, Zenon DEF AttachedInv, Busy, Attaching, Restored, Committed, Final, memory, ghost
<1>6. MemoryInv(m, n, c, len)'
  BY <1>1, <1>5, Zenon DEF MemoryInv
<1> QED
  BY <1>same, <1>2, <1>3, <1>4, <1>6, Zenon DEF Inv

\* The truncation is stable.
LEMMA ResetSyncStep ==
  ASSUME Reliable, NEW m \in Slots, NEW n \in 0..MaxSeq, NEW len \in 0..Len(walDisk),
         NEW c \in 0..len, Known(m, n, c, len),
         ResetSync
  PROVE  At(n)'
<1>type. TypeOK /\ TypeOK'
  BY Zenon DEF Known
<1>parts. /\ StableInv(m, n, c, len) /\ VisibleInv(m, n) /\ MemoryInv(m, n, c, len)
          /\ hist[n] \in promise
          /\ len = Len(walDisk) \/ pc \in {"closed", "refused", "replay"}
  BY KnownParts
<1>nums. /\ wal \in Seq(Record) /\ walDisk \in Seq(Record)
         /\ Len(wal) \in Nat /\ Len(walDisk) \in Nat
         /\ n \in Nat /\ len \in Nat /\ c \in Nat /\ MaxSeq \in Nat
         /\ n <= MaxSeq /\ len <= Len(walDisk) /\ c <= len
         /\ slot[m].seq \in Nat /\ slot[1 - m].seq \in Nat
         /\ slotDisk[m].seq \in Nat /\ slotDisk[1 - m].seq \in Nat
         /\ sequence \in Nat /\ pos \in Nat /\ pos >= 1
  BY Numbers, Zenon DEF Known
<1>same. ASSUME Inv(m, n, c, len)', UNCHANGED walDisk PROVE At(n)'
  BY <1>same, SameWitness, Zenon DEF Known
<1>1. AttachedInv(m, n) /\ pc = "truncated" /\ len = Len(walDisk) /\ n = slot[m].seq
  BY <1>parts, Zenon DEF ResetSync, MemoryInv, AttachedInv, Busy
<1>2. /\ walDisk' = wal /\ slotDisk' = slot /\ pc' \in {"clean", "restored", "attached"}
      /\ UNCHANGED <<wal, slot, hist, sequence, metadataSlot, durable, live, pending>>
      /\ op' = "none" /\ (pc' = "restored" => op = "init")
  BY <1>type, HostFacts, Zenon DEF ResetSync
<1>3. hist[n] \in promise'
  <2>1. Apply(hist[n], delta) = hist[n]
    BY <1>1, Zenon DEF AttachedInv, Committed
  <2> QED
    BY <1>parts, <2>1, Zenon DEF ResetSync, Acknowledge
<1>4. Older(slot[1 - m], slot[m].seq) /\ (wal = walDisk \/ wal = <<>>)
  <2>1. VisibleInv(m, n) /\ pc # "written" /\ pc # "published"
    BY <1>parts, <1>1, Zenon
  <2> QED
    BY <2>1, Zenon DEF VisibleInv
<1>5. VisibleInv(m, n)'
  BY <1>2, <1>4, Zenon DEF VisibleInv, Older
<1>6. pc' # "clean" => AttachedInv(m, n)'
  BY <1>1, <1>2, Zenon DEF AttachedInv, Busy, Committed, Final, Attaching, Restored
<1>7. \A cc, ll : MemoryInv(m, n, cc, ll)'
  BY <1>2, <1>6, Zenon DEF MemoryInv, Busy, Attaching, Restored
<1>8. CASE wal = walDisk
  <2>1. UNCHANGED walDisk
    BY <1>2, <1>8, Zenon
  <2>2. StableInv(m, n, c, len)'
    BY <1>parts, <1>1, <1>2, <1>3, <1>4, <2>1, Zenon DEF StableInv, Reads, Older
  <2> QED
    BY <1>same, <1>5, <1>7, <2>1, <2>2, Zenon DEF Inv
<1>9. CASE wal = <<>>
  <2>1. Reads(hist, <<>>, 0, 0, n, n)
    BY <1>nums, EmptyReads, Zenon
  <2>2. StableInv(m, n, 0, 0)'
    BY <1>parts, <1>1, <1>2, <1>3, <1>4, <1>9, <2>1, EmptyLogs, Zenon DEF StableInv, Older
  <2>3. Inv(m, n, 0, 0)'
    BY <1>5, <1>7, <2>2, Zenon DEF Inv
  <2> QED
    BY <1>2, <1>9, <2>3 DEF At
<1> QED
  BY <1>4, <1>8, <1>9, Zenon

\* What is known while a record is written and not synced.
LEMMA WrittenFacts ==
  ASSUME Reliable, NEW m \in Slots, NEW n \in 0..MaxSeq, NEW len \in 0..Len(walDisk),
         NEW c \in 0..len, Known(m, n, c, len),
         pc = "written"
  PROVE  /\ AttachedInv(m, n) /\ len = Len(walDisk) /\ n + 1 <= MaxSeq /\ hist[n + 1] \in promise
         /\ InFlight \in Record
         /\ Reads(hist, Append(walDisk, InFlight), c, len + 1, slot[m].seq, n + 1)
         /\ n = slot[m].seq => Reads(hist, <<InFlight>>, 0, 1, slot[m].seq, n + 1)
<1>type. TypeOK /\ TypeOK'
  BY Zenon DEF Known
<1>parts. /\ StableInv(m, n, c, len) /\ VisibleInv(m, n) /\ MemoryInv(m, n, c, len)
          /\ hist[n] \in promise
          /\ len = Len(walDisk) \/ pc \in {"closed", "refused", "replay"}
  BY KnownParts
<1>nums. /\ wal \in Seq(Record) /\ walDisk \in Seq(Record)
         /\ Len(wal) \in Nat /\ Len(walDisk) \in Nat
         /\ n \in Nat /\ len \in Nat /\ c \in Nat /\ MaxSeq \in Nat
         /\ n <= MaxSeq /\ len <= Len(walDisk) /\ c <= len
         /\ slot[m].seq \in Nat /\ slot[1 - m].seq \in Nat
         /\ slotDisk[m].seq \in Nat /\ slotDisk[1 - m].seq \in Nat
         /\ sequence \in Nat /\ pos \in Nat /\ pos >= 1
  BY Numbers, Zenon DEF Known
<1>1. AttachedInv(m, n) /\ len = Len(walDisk)
  BY <1>parts, ZenonT(60) DEF MemoryInv, Busy
<1>2. /\ sequence = n /\ n + 1 <= MaxSeq
      /\ hist[n + 1] = Apply(hist[n], delta) /\ hist[n + 1] \in promise
  BY <1>nums, <1>1, SMTT(30) DEF AttachedInv
<1>3. InFlight \in Record /\ InFlight.seq = n + 1 /\ InFlight.delta = delta
  BY <1>nums, <1>type, <1>2, SMTT(30) DEF InFlight, Record, TypeOK
<1>4. /\ \A p \in 1..len : Append(walDisk, InFlight)[p] = walDisk[p]
      /\ Append(walDisk, InFlight)[len + 1] = InFlight
  BY <1>nums, <1>1, <1>3, Appending, SMTT(30)
<1>5. Reads(hist, walDisk, c, len, slot[m].seq, n)
  BY <1>parts, Zenon DEF StableInv
<1>6. Reads(hist, Append(walDisk, InFlight), c, len + 1, slot[m].seq, n + 1)
  BY <1>nums, <1>2, <1>3, <1>4, <1>5, ReadsAppend, ZenonT(60)
<1>7. ASSUME n = slot[m].seq PROVE Reads(hist, <<InFlight>>, 0, 1, slot[m].seq, n + 1)
  <2>1. Reads(hist, <<>>, 0, 0, n, n)
    BY EmptyReads
  <2>2. <<InFlight>>[0 + 1] = InFlight /\ \A p \in 1..0 : <<InFlight>>[p] = <<>>[p]
    OBVIOUS
  <2>3. Reads(hist, <<InFlight>>, 0, 0 + 1, n, n + 1)
    BY <1>nums, <1>2, <1>3, <2>1, <2>2, ReadsAppend, Zenon
  <2> QED
    BY <1>7, <2>3
<1> QED
  BY <1>1, <1>2, <1>3, <1>6, <1>7, Zenon

\* The log sync makes the record stable.
LEMMA AppendSyncStep ==
  ASSUME Reliable, NEW m \in Slots, NEW n \in 0..MaxSeq, NEW len \in 0..Len(walDisk),
         NEW c \in 0..len, Known(m, n, c, len),
         AppendSync
  PROVE  IInv'
<1>type. TypeOK /\ TypeOK'
  BY Zenon DEF Known
<1>parts. /\ StableInv(m, n, c, len) /\ VisibleInv(m, n) /\ MemoryInv(m, n, c, len)
          /\ hist[n] \in promise
          /\ len = Len(walDisk) \/ pc \in {"closed", "refused", "replay"}
  BY KnownParts
<1>nums. /\ wal \in Seq(Record) /\ walDisk \in Seq(Record)
         /\ Len(wal) \in Nat /\ Len(walDisk) \in Nat
         /\ n \in Nat /\ len \in Nat /\ c \in Nat /\ MaxSeq \in Nat
         /\ n <= MaxSeq /\ len <= Len(walDisk) /\ c <= len
         /\ slot[m].seq \in Nat /\ slot[1 - m].seq \in Nat
         /\ slotDisk[m].seq \in Nat /\ slotDisk[1 - m].seq \in Nat
         /\ sequence \in Nat /\ pos \in Nat /\ pos >= 1
  BY Numbers, Zenon DEF Known
<1>written. ASSUME pc = "written"
  PROVE  /\ AttachedInv(m, n) /\ len = Len(walDisk) /\ n + 1 <= MaxSeq /\ hist[n + 1] \in promise
         /\ InFlight \in Record
         /\ Reads(hist, Append(walDisk, InFlight), c, len + 1, slot[m].seq, n + 1)
         /\ n = slot[m].seq => Reads(hist, <<InFlight>>, 0, 1, slot[m].seq, n + 1)
  BY <1>written, WrittenFacts, Zenon
<1>1. pc = "written" /\ walDisk' = wal /\ pc' \in {"save", "maybe"}
  BY Zenon DEF AppendSync
<1>2. UNCHANGED <<wal, slot, slotDisk, promise, hist>>
  BY Zenon DEF AppendSync, ghost
<1>3. /\ AttachedInv(m, n) /\ n + 1 \in 0..MaxSeq
      /\ sequence' = n + 1 /\ durable' = hist[n + 1] /\ metadataSlot' = m
  <2>1. AttachedInv(m, n) /\ n + 1 <= MaxSeq
    BY <1>written, <1>1, Zenon
  <2>2. /\ sequence = n /\ metadataSlot = m /\ durable = hist[n]
        /\ hist[n + 1] = Apply(hist[n], delta)
    BY <1>1, <2>1, Zenon DEF AttachedInv
  <2>3. /\ sequence' = sequence + 1 /\ durable' = Apply(durable, delta)
        /\ metadataSlot' = metadataSlot
    BY Zenon DEF AppendSync
  <2>4. n + 1 \in 0..MaxSeq
    BY <1>nums, <2>1
  <2> QED
    BY <2>1, <2>2, <2>3, <2>4, Zenon
<1>4. Older(slot[1 - m], slot[m].seq)
  BY <1>parts, <1>1, Zenon DEF VisibleInv
<1>5. VisibleInv(m, n + 1)'
  BY <1>1, <1>2, <1>4, Zenon DEF VisibleInv, Older
<1>6. \A k \in Keys : k \notin pending' => live'[k] = durable'[k]
  <2>1. /\ live \in State /\ durable \in State /\ delta \in Delta
        /\ \A k \in DOMAIN delta : delta[k] = live[k]
        /\ \A k \in Keys : k \notin pending => live[k] = durable[k]
    BY <1>type, <1>1, <1>3, Zenon DEF TypeOK, AttachedInv, Busy
  <2>2. \A k \in Keys : Apply(durable, delta)[k] = IF k \in DOMAIN delta THEN delta[k] ELSE durable[k]
    BY <2>1, ApplyState, Zenon
  <2>3. /\ pending' = pending \ DOMAIN delta /\ live' = live /\ durable' = Apply(durable, delta)
    BY Zenon DEF AppendSync
  <2> QED
    BY <2>1, <2>2, <2>3, Zenon
<1>7. /\ Apply(durable', delta') = durable'
      /\ Final' => live' = durable'
      /\ pc' = "maybe" => ~Final'
      /\ sequence' + 1 <= MaxSeq
  <2>1. durable \in State /\ delta \in Delta
    BY <1>type, Zenon DEF TypeOK
  <2>2. /\ durable' = Apply(durable, delta) /\ delta' = delta /\ live' = live /\ op' = op
        /\ pc' = IF Final THEN "save" ELSE "maybe"
    BY Zenon DEF AppendSync
  <2>3. Apply(durable', delta') = durable'
    BY <2>1, <2>2, ApplyIdempotent, ZenonT(60)
  <2>4. Final => live = Apply(durable, delta)
    BY <1>1, <1>3, ZenonT(60) DEF AttachedInv
  <2>5. sequence' + 1 <= MaxSeq
    BY <1>nums, <1>1, <1>3, SMTT(30) DEF AttachedInv
  <2> QED
    BY <2>2, <2>3, <2>4, <2>5, Zenon DEF Final
<1>8. AttachedInv(m, n + 1)'
  BY <1>1, <1>2, <1>3, <1>6, <1>7, Zenon DEF AttachedInv, Attaching, Restored
<1>9. \A cc, ll : MemoryInv(m, n + 1, cc, ll)'
  BY <1>1, <1>8, Zenon DEF MemoryInv
<1>10. wal = Append(walDisk, InFlight) \/ (n = slot[m].seq /\ wal = <<InFlight>>)
  BY <1>parts, <1>1, Zenon DEF VisibleInv
<1>11. ASSUME NEW cc, NEW ll, cc \in 0..ll, ll \in Nat, ll = Len(wal),
              Reads(hist, wal, cc, ll, slot[m].seq, n + 1)
       PROVE  IInv'
  <2>1. StableInv(m, n + 1, cc, ll)'
    BY <1>parts, <1>written, <1>1, <1>2, <1>11, Zenon DEF StableInv, Older
  <2>2. Inv(m, n + 1, cc, ll)'
    BY <1>5, <1>9, <2>1, Zenon DEF Inv
  <2>3. ll \in 0..Len(walDisk')
    BY <1>1, <1>11
  <2> QED
    BY <1>type, <1>3, <1>11, <2>2, <2>3, Zenon DEF IInv
<1>12. CASE wal = Append(walDisk, InFlight)
  <2>1. Len(wal) = len + 1
    BY <1>nums, <1>written, <1>1, <1>12, Appending, SMTT(30)
  <2> QED
    <3>1. c \in 0..(len + 1) /\ len + 1 \in Nat
      BY <1>nums
    <3>2. Reads(hist, wal, c, len + 1, slot[m].seq, n + 1)
      BY <1>written, <1>1, <1>12, ZenonT(60)
    <3> QED
      BY <1>11, <2>1, <3>1, <3>2, Zenon
<1>13. CASE n = slot[m].seq /\ wal = <<InFlight>>
  <2>1. Len(wal) = 1
    BY <1>13, ZenonT(60)
  <2> QED
    BY <1>written, <1>1, <1>11, <1>13, <2>1, SMTT(30)
<1> QED
  BY <1>10, <1>12, <1>13, Zenon

\* What is known while a snapshot is renamed and not synced.
LEMMA PublishedFacts ==
  ASSUME Reliable, NEW m \in Slots, NEW n \in 0..MaxSeq, NEW len \in 0..Len(walDisk),
         NEW c \in 0..len, Known(m, n, c, len),
         pc = "published"
  PROVE  /\ AttachedInv(m, n) /\ len = Len(walDisk)
         /\ n + 1 \in 0..MaxSeq
         /\ slot[1 - m] = Saved /\ Saved.seq = n + 1 /\ Saved.state = hist[n]
         /\ hist[n + 1] = hist[n]
         /\ slot[m].seq < n + 1
         /\ Reads(hist, walDisk, len, len, n + 1, n + 1)
         /\ wal = walDisk \/ wal = <<>>
<1>parts. /\ StableInv(m, n, c, len) /\ VisibleInv(m, n) /\ MemoryInv(m, n, c, len)
          /\ hist[n] \in promise
          /\ len = Len(walDisk) \/ pc \in {"closed", "refused", "replay"}
  BY KnownParts
<1>nums. /\ wal \in Seq(Record) /\ walDisk \in Seq(Record)
         /\ Len(wal) \in Nat /\ Len(walDisk) \in Nat
         /\ n \in Nat /\ len \in Nat /\ c \in Nat /\ MaxSeq \in Nat
         /\ n <= MaxSeq /\ len <= Len(walDisk) /\ c <= len
         /\ slot[m].seq \in Nat /\ slot[1 - m].seq \in Nat
         /\ slotDisk[m].seq \in Nat /\ slotDisk[1 - m].seq \in Nat
         /\ sequence \in Nat /\ pos \in Nat /\ pos >= 1
  BY Numbers, Zenon DEF Known
<1>1. AttachedInv(m, n) /\ len = Len(walDisk)
  BY <1>parts, Zenon DEF MemoryInv, Busy
<1>2. /\ sequence = n /\ n + 1 <= MaxSeq /\ durable = hist[n]
      /\ Final => live = durable
      /\ hist[n + 1] = Saved.state
  BY <1>nums, <1>1, Zenon DEF AttachedInv, Committed
<1>3. Saved.seq = n + 1 /\ Saved.state = hist[n]
  BY <1>2, Zenon DEF Saved
<1>4. slot[1 - m] = Saved /\ (wal = walDisk \/ wal = <<>>)
  BY <1>parts, Zenon DEF VisibleInv
<1>5. Reads(hist, walDisk, c, len, slot[m].seq, n)
  BY <1>parts, ZenonT(60) DEF StableInv
<1>6. slot[m].seq < n + 1
  BY <1>nums, <1>5, SMTT(30) DEF Reads
<1>7. \A p \in 1..len : walDisk[p].seq \in Nat
  <2>1. \A p \in 1..len : walDisk[p] \in Record
    BY <1>nums
  <2> QED
    BY <2>1, Zenon DEF Record
<1>8. Reads(hist, walDisk, len, len, n + 1, n + 1)
  BY <1>nums, <1>5, <1>7, ReadsCovered, SMTT(30)
<1> QED
  BY <1>nums, <1>1, <1>2, <1>3, <1>4, <1>6, <1>8, SMTT(30)

\* The directory sync makes the snapshot the newest stable one.
LEMMA DirSyncStep ==
  ASSUME Reliable, NEW m \in Slots, NEW n \in 0..MaxSeq, NEW len \in 0..Len(walDisk),
         NEW c \in 0..len, Known(m, n, c, len),
         DirSync
  PROVE  IInv'
<1>type. TypeOK /\ TypeOK'
  BY Zenon DEF Known
<1>parts. /\ StableInv(m, n, c, len) /\ VisibleInv(m, n) /\ MemoryInv(m, n, c, len)
          /\ hist[n] \in promise
          /\ len = Len(walDisk) \/ pc \in {"closed", "refused", "replay"}
  BY KnownParts
<1>nums. /\ wal \in Seq(Record) /\ walDisk \in Seq(Record)
         /\ Len(wal) \in Nat /\ Len(walDisk) \in Nat
         /\ n \in Nat /\ len \in Nat /\ c \in Nat /\ MaxSeq \in Nat
         /\ n <= MaxSeq /\ len <= Len(walDisk) /\ c <= len
         /\ slot[m].seq \in Nat /\ slot[1 - m].seq \in Nat
         /\ slotDisk[m].seq \in Nat /\ slotDisk[1 - m].seq \in Nat
         /\ sequence \in Nat /\ pos \in Nat /\ pos >= 1
  BY Numbers, Zenon DEF Known
<1>published. ASSUME pc = "published"
  PROVE  /\ AttachedInv(m, n) /\ len = Len(walDisk)
         /\ n + 1 \in 0..MaxSeq
         /\ slot[1 - m] = Saved /\ Saved.seq = n + 1 /\ Saved.state = hist[n]
         /\ hist[n + 1] = hist[n]
         /\ slot[m].seq < n + 1
         /\ Reads(hist, walDisk, len, len, n + 1, n + 1)
         /\ wal = walDisk \/ wal = <<>>
  BY <1>published, PublishedFacts, Zenon
<1>1. pc = "published" /\ pc' = "saved"
  BY Zenon DEF DirSync
<1>2. UNCHANGED <<wal, walDisk, slot, op, delta, live, pending, promise, hist>> /\ slotDisk' = slot
  BY <1>type, HostFacts, Zenon DEF DirSync, ghost
<1>3. /\ metadataSlot' = 1 - m /\ sequence' = n + 1
      /\ durable' = hist[n] /\ durable = hist[n]
  BY <1>published, <1>1, Zenon DEF DirSync, OtherSlot, AttachedInv
<1>4. 1 - m \in Slots /\ 1 - (1 - m) = m
  BY DEF Slots
<1>5. hist[n + 1] \in promise
  BY <1>parts, <1>published, <1>1, Zenon
<1>6. StableInv(1 - m, n + 1, len, len)'
  BY <1>published, <1>1, <1>2, <1>4, <1>5, Zenon DEF StableInv, Older
<1>7. VisibleInv(1 - m, n + 1)'
  BY <1>published, <1>1, <1>2, <1>4, Zenon DEF VisibleInv, Older
<1>8. AttachedInv(1 - m, n + 1)'
  <2>1. AttachedInv(m, n)
    BY <1>published, <1>1, Zenon
  <2>2. /\ \A k \in Keys : k \notin pending' => live'[k] = durable'[k]
        /\ Apply(durable', delta') = durable'
        /\ Final' => live' = durable'
    BY <1>1, <1>2, <1>3, <2>1, Zenon DEF AttachedInv, Busy, Committed, Final
  <2> QED
    BY <1>published, <1>1, <1>2, <1>3, <2>2, Zenon DEF AttachedInv, Attaching, Restored
<1>9. MemoryInv(1 - m, n + 1, len, len)'
  BY <1>1, <1>8, Zenon DEF MemoryInv
<1>10. Inv(1 - m, n + 1, len, len)'
  BY <1>6, <1>7, <1>9, Zenon DEF Inv
<1>11. len \in 0..Len(walDisk') /\ len \in 0..len
  BY <1>nums, <1>2, SMTT(30)
<1> QED
  BY <1>type, <1>published, <1>1, <1>4, <1>10, <1>11, Zenon DEF IInv

\* A power failure falls back to a promised state.
LEMMA PowerFailureStep ==
  ASSUME Reliable, NEW m \in Slots, NEW n \in 0..MaxSeq, NEW len \in 0..Len(walDisk),
         NEW c \in 0..len, Known(m, n, c, len),
         PowerFailure
  PROVE  \E nn \in 0..MaxSeq :
           /\ At(nn)'
           /\ hist[nn] = hist[n] \/ (pc = "written" /\ hist[nn] = Apply(hist[n], delta))
<1>type. TypeOK /\ TypeOK'
  BY Zenon DEF Known
<1>parts. /\ StableInv(m, n, c, len) /\ VisibleInv(m, n) /\ MemoryInv(m, n, c, len)
          /\ hist[n] \in promise
          /\ len = Len(walDisk) \/ pc \in {"closed", "refused", "replay"}
  BY KnownParts
<1>nums. /\ wal \in Seq(Record) /\ walDisk \in Seq(Record)
         /\ Len(wal) \in Nat /\ Len(walDisk) \in Nat
         /\ n \in Nat /\ len \in Nat /\ c \in Nat /\ MaxSeq \in Nat
         /\ n <= MaxSeq /\ len <= Len(walDisk) /\ c <= len
         /\ slot[m].seq \in Nat /\ slot[1 - m].seq \in Nat
         /\ slotDisk[m].seq \in Nat /\ slotDisk[1 - m].seq \in Nat
         /\ sequence \in Nat /\ pos \in Nat /\ pos >= 1
  BY Numbers, Zenon DEF Known
<1>written. ASSUME pc = "written"
  PROVE  /\ AttachedInv(m, n) /\ len = Len(walDisk) /\ n + 1 <= MaxSeq /\ hist[n + 1] \in promise
         /\ InFlight \in Record
         /\ Reads(hist, Append(walDisk, InFlight), c, len + 1, slot[m].seq, n + 1)
         /\ n = slot[m].seq => Reads(hist, <<InFlight>>, 0, 1, slot[m].seq, n + 1)
  BY <1>written, WrittenFacts, Zenon
<1>published. ASSUME pc = "published"
  PROVE  /\ AttachedInv(m, n) /\ len = Len(walDisk)
         /\ n + 1 \in 0..MaxSeq
         /\ slot[1 - m] = Saved /\ Saved.seq = n + 1 /\ Saved.state = hist[n]
         /\ hist[n + 1] = hist[n]
         /\ slot[m].seq < n + 1
         /\ Reads(hist, walDisk, len, len, n + 1, n + 1)
         /\ wal = walDisk \/ wal = <<>>
  BY <1>published, PublishedFacts, Zenon
<1>1. PICK w \in AfterPower : wal' = w /\ walDisk' = w
  BY Zenon DEF PowerFailure
<1>2. PICK lost \in SUBSET Slots :
        /\ slot' = [i \in Slots |-> IF i \in lost THEN slotDisk[i] ELSE slot[i]]
        /\ slotDisk' = slot'
  BY Zenon DEF PowerFailure
<1>3. pc' = "closed" /\ UNCHANGED <<promise, hist>>
  BY Zenon DEF PowerFailure, Crash, Detach
<1>4. w \in Seq(Record) /\ Len(w) \in Nat
  BY <1>type, AfterPowerType
<1>5. ASSUME NEW mm \in Slots, NEW nn \in 0..MaxSeq, NEW ll \in Nat, NEW cc \in 0..ll,
             hist[slot'[mm].seq] = slot'[mm].state,
             Older(slot'[1 - mm], slot'[mm].seq),
             Reads(hist, w, cc, ll, slot'[mm].seq, nn),
             ll = Len(w) \/ (Len(w) = ll + 1 /\ w[ll + 1] = Torn),
             hist[nn] \in promise
      PROVE  At(nn)'
  <2>1. StableInv(mm, nn, cc, ll)'
    BY <1>1, <1>2, <1>3, <1>5, Zenon DEF StableInv
  <2>2. VisibleInv(mm, nn)'
    BY <1>1, <1>3, <1>5, Zenon DEF VisibleInv
  <2>3. MemoryInv(mm, nn, cc, ll)'
    BY <1>3, Zenon DEF MemoryInv, Busy, Attaching, Restored
  <2>4. Inv(mm, nn, cc, ll)'
    BY <2>1, <2>2, <2>3, ZenonT(60) DEF Inv
  <2>5. ll \in 0..Len(walDisk')
    BY <1>1, <1>4, <1>5, SMTT(30)
  <2> QED
    BY <2>4, <2>5, Zenon DEF At
<1>6. /\ slot'[m] = slot[m]
      /\ slot'[1 - m] \in {slot[1 - m], slotDisk[1 - m]}
      /\ hist[slot[m].seq] = slot[m].state
      /\ Reads(hist, walDisk, c, len, slot[m].seq, n)
      /\ Older(slotDisk[1 - m], slot[m].seq)
  BY <1>parts, <1>2, SMTT(30) DEF StableInv, Slots
<1>7. \/ w = walDisk
      \/ (n = slot[m].seq /\ w = <<>>)
      \/ (pc = "written" /\ (w = Append(walDisk, InFlight) \/ w = Append(walDisk, Torn)))
      \/ (pc = "written" /\ n = slot[m].seq /\ (w = <<InFlight>> \/ w = <<Torn>>))
  <2>1. CASE pc = "written"
    <3>1. wal = Append(walDisk, InFlight) \/ (n = slot[m].seq /\ wal = <<InFlight>>)
      BY <1>parts, <2>1, Zenon DEF VisibleInv
    <3>2. InFlight \in Record
      BY <1>written, <2>1, Zenon
    <3>3. wal = Append(walDisk, InFlight) =>
            w = walDisk \/ w = Append(walDisk, InFlight) \/ w = Append(walDisk, Torn)
      BY <1>type, <3>2, PowerAppended, Zenon
    <3>4. wal = <<InFlight>> =>
            w = walDisk \/ w = <<>> \/ w = <<InFlight>> \/ w = <<Torn>>
      BY <1>type, <3>2, PowerTruncated, Zenon
    <3> QED
      BY <2>1, <3>1, <3>3, <3>4, Zenon
  <2>2. CASE pc # "written"
    <3>1. wal = walDisk \/ (n = slot[m].seq /\ wal = <<>>)
      BY <1>parts, <2>2, Zenon DEF VisibleInv
    <3>2. wal = walDisk => w = walDisk
      BY <1>type, PowerKept, Zenon
    <3>3. wal = <<>> => w = walDisk \/ w = <<>>
      BY <1>type, PowerTruncated, Zenon
    <3> QED
      BY <3>1, <3>2, <3>3, Zenon
  <2> QED
    BY <2>1, <2>2, Zenon
<1>8. ASSUME pc = "published" /\ 1 - m \notin lost PROVE At(n + 1)'
  <2>1. 1 - m \in Slots /\ 1 - (1 - m) = m
    BY DEF Slots
  <2>2. slot'[1 - m] = Saved
    BY <1>published, <1>2, <1>8, <2>1, Zenon
  <2>3. hist[slot'[1 - m].seq] = slot'[1 - m].state /\ hist[n + 1] \in promise
    BY <1>parts, <1>published, <1>8, <2>2, Zenon
  <2>4. Older(slot'[1 - (1 - m)], slot'[1 - m].seq)
    BY <1>published, <1>6, <1>8, <2>1, <2>2, Zenon DEF Older
  <2>5. CASE w = walDisk
    <3>1. Reads(hist, w, len, len, slot'[1 - m].seq, n + 1) /\ len = Len(w) /\ len \in 0..len
      BY <1>nums, <1>published, <1>8, <2>2, <2>5, ZenonT(60)
    <3> QED
      BY <1>nums, <1>published, <1>5, <1>8, <2>1, <2>3, <2>4, <3>1, ZenonT(60)
  <2>6. CASE w = <<>>
    <3>1. Reads(hist, w, 0, 0, slot'[1 - m].seq, n + 1)
      BY <1>nums, <1>published, <1>8, <2>2, SMTT(30) DEF Reads
    <3>2. Len(w) = 0
      BY <2>6, Zenon
    <3> QED
      BY <1>published, <1>5, <1>8, <2>1, <2>3, <2>4, <3>1, <3>2, SMTT(30)
  <2> QED
    BY <1>7, <1>8, <2>5, <2>6, Zenon
<1>9. ASSUME ~(pc = "published" /\ 1 - m \notin lost)
      PROVE  At(n)' \/ (pc = "written" /\ At(n + 1)')
  <2>1. Older(slot'[1 - m], slot'[m].seq) /\ hist[slot'[m].seq] = slot'[m].state
    <3>1. 1 - m \in Slots
      BY DEF Slots
    <3>2. 1 - m \in lost => slot'[1 - m] = slotDisk[1 - m]
      BY <1>2, <3>1, Zenon
    <3>3. pc # "published" => Older(slot[1 - m], slot[m].seq)
      BY <1>parts, Zenon DEF VisibleInv
    <3> QED
      BY <1>6, <1>9, <3>2, <3>3, Zenon DEF Older
  <2>2. ASSUME NEW nn \in 0..MaxSeq, NEW ll \in Nat, NEW cc \in 0..ll,
               Reads(hist, w, cc, ll, slot[m].seq, nn),
               ll = Len(w) \/ (Len(w) = ll + 1 /\ w[ll + 1] = Torn),
               hist[nn] \in promise
        PROVE  At(nn)'
    BY <1>5, <1>6, <2>1, <2>2, Zenon
  <2>3. CASE w = walDisk
    <3>1. len = Len(w) \/ (Len(w) = len + 1 /\ w[len + 1] = Torn)
      BY <1>parts, <2>3, ZenonT(60) DEF StableInv
    <3> QED
      <4>1. Reads(hist, w, c, len, slot[m].seq, n) /\ len \in Nat
        BY <1>nums, <1>6, <2>3, Zenon
      <4> QED
        BY <1>parts, <2>2, <3>1, <4>1, Zenon
  <2>4. CASE n = slot[m].seq /\ (w = <<>> \/ (pc = "written" /\ w = <<Torn>>))
    <3>1. Reads(hist, w, 0, 0, slot[m].seq, n)
      BY <1>nums, <2>4, SMTT(30) DEF Reads
    <3>2. 0 = Len(w) \/ (Len(w) = 0 + 1 /\ w[0 + 1] = Torn)
      BY <2>4
    <3>3. Len(w) = 0 \/ (Len(w) = 1 /\ w[0 + 1] = Torn)
      BY <3>2
    <3>4. 0 \in Nat /\ 0 \in 0..0 /\ 0 + 1 = 1
      OBVIOUS
    <3> QED
      BY <1>parts, <2>2, <3>1, <3>3, <3>4, ZenonT(60)
  <2>5. CASE pc = "written" /\ w = Append(walDisk, Torn)
    <3>1. /\ Len(w) = len + 1 /\ w[len + 1] = Torn
          /\ \A p \in 1..len : w[p] = walDisk[p]
      <4>1. len = Len(walDisk)
        BY <1>written, <2>5, Zenon
      <4> QED
        BY <1>nums, <2>5, <4>1, Appending, Sentinels, SMTT(30)
    <3>2. Reads(hist, w, c, len, slot[m].seq, n)
      BY <1>nums, <1>6, <3>1, ReadsFrame, Zenon
    <3> QED
      BY <1>nums, <1>parts, <2>2, <3>1, <3>2, ZenonT(60)
  <2>6. CASE pc = "written" /\ w = Append(walDisk, InFlight)
    <3>1. Len(w) = len + 1
      <4>1. len = Len(walDisk) /\ InFlight \in Record
        BY <1>written, <2>6, ZenonT(60)
      <4> QED
        BY <1>nums, <2>6, <4>1, Appending, ZenonT(60)
    <3>2. n + 1 \in 0..MaxSeq /\ len + 1 \in Nat /\ c \in 0..(len + 1)
      BY <1>nums, <1>written, <2>6, SMTT(30)
    <3> QED
      BY <1>written, <2>2, <2>6, <3>1, <3>2, Zenon
  <2>7. CASE pc = "written" /\ n = slot[m].seq /\ w = <<InFlight>>
    <3>1. Len(w) = 1 /\ n + 1 \in 0..MaxSeq
      BY <1>nums, <1>written, <2>7, SMTT(30)
    <3>2. 1 \in Nat /\ 0 \in 0..1
      OBVIOUS
    <3>3. Reads(hist, w, 0, 1, slot[m].seq, n + 1) /\ hist[n + 1] \in promise
      BY <1>written, <2>7, Zenon
    <3> QED
      BY <2>2, <2>7, <3>1, <3>2, <3>3, ZenonT(60)
  <2> QED
    BY <1>7, <2>3, <2>4, <2>5, <2>6, <2>7, Zenon
<1>10. pc = "published" => n + 1 \in 0..MaxSeq /\ hist[n + 1] = hist[n]
  BY <1>published, Zenon
<1>11. pc = "written" => n + 1 \in 0..MaxSeq /\ hist[n + 1] = Apply(hist[n], delta)
  <2>1. ASSUME pc = "written" PROVE n + 1 \in 0..MaxSeq
    <3>1. n + 1 <= MaxSeq
      BY <1>written, <2>1, ZenonT(60)
    <3> QED
      BY <1>nums, <3>1
  <2>2. ASSUME pc = "written" PROVE hist[n + 1] = Apply(hist[n], delta)
    BY <1>written, <2>2, Zenon DEF AttachedInv
  <2> QED
    BY <2>1, <2>2, Zenon
<1> QED
  BY <1>8, <1>9, <1>10, <1>11, ZenonT(60)

\* Every step of a reliable store keeps the invariant.
LEMMA InvStep == Reliable /\ IInv /\ [Next]_vars => IInv'
<1> SUFFICES ASSUME Reliable, IInv, [Next]_vars PROVE IInv'
  OBVIOUS
<1>1. TypeOK /\ TypeOK'
  BY TypeStep, Zenon DEF IInv
<1>2. PICK m \in Slots, n \in 0..MaxSeq, len \in 0..Len(walDisk) :
        \E c \in 0..len : Inv(m, n, c, len)
  BY Zenon DEF IInv
<1>3. PICK c \in 0..len : Inv(m, n, c, len)
  BY <1>2, Zenon
<1>4. Known(m, n, c, len)
  BY <1>1, <1>3, Zenon DEF Known
<1>5. CASE UNCHANGED vars
  BY <1>4, <1>5, Stutter, Zenon
<1>6. CASE OpenLoad
  BY <1>4, <1>6, OpenLoadStep, Zenon
<1>7. CASE OpenRefused \/ Retry
  BY <1>4, <1>7, OpenRefusedStep, Zenon
<1>8. CASE OpenInit
  BY <1>4, <1>8, OpenInitStep, Zenon
<1>9. CASE Replayable /\ (ReplaySkip \/ ReplayApply \/ ReplayEnd)
  BY <1>1, <1>4, <1>9, ReplayStep, AtInv, Zenon
<1>10. CASE ~Replayable /\ ReplayEnd
  BY <1>1, <1>4, <1>10, ReplayEndStep, AtInv, Zenon
<1>11. CASE Attach
  BY <1>4, <1>11, AttachStep, Zenon
<1>27. CASE RecoverIncomplete \/ Restore \/ MarkInitialized \/ MarkAttached \/ MarkSync
  <2>1. pc \in Attaching
    BY <1>27, Zenon
    DEF RecoverIncomplete, Restore, MarkInitialized, MarkAttached, MarkSync, Attaching, Restored
  <2> QED
    BY <1>4, <1>27, <2>1, MarksStep, Zenon
<1>28. CASE OpenFails \/ Clean
  BY <1>4, <1>28, ClosingStep, Zenon
<1>12. ASSUME NEW k \in Keys, NEW v \in Values, Mutate(k, v) PROVE IInv'
  BY <1>4, <1>12, MutateStep, Zenon
<1>13. CASE Begin
  BY <1>4, <1>13, BeginStep, Zenon
<1>14. CASE AppendFails \/ ReclaimFails \/ StageFails \/ PublishFails \/ ResetFails
  BY <1>4, <1>14, FailsStep, Zenon
<1>15. CASE AppendTears \/ AppendSyncFails \/ DirSyncFails \/ RemoveSlot \/ QuarantineFails
            \/ ProcessCrash
  BY <1>4, <1>15, UnreliableStep, ZenonT(60)
<1>16. CASE AppendWrite
  BY <1>4, <1>16, AppendWriteStep, Zenon
<1>17. CASE Return
  BY <1>4, <1>17, ReturnStep, Zenon
<1>18. CASE Compact
  BY <1>4, <1>18, CompactStep, Zenon
<1>20. CASE Publish
  BY <1>4, <1>20, PublishStep, Zenon
<1>21. CASE ResetTruncate
  BY <1>4, <1>21, ResetTruncateStep, Zenon
<1>22. CASE ResetSync
  BY <1>1, <1>4, <1>22, ResetSyncStep, AtInv, ZenonT(60)
<1>23. CASE AppendSync
  BY <1>4, <1>23, AppendSyncStep, Zenon
<1>24. CASE DirSync
  BY <1>4, <1>24, DirSyncStep, Zenon
<1>25. CASE PowerFailure
  BY <1>1, <1>4, <1>25, PowerFailureStep, AtInv, Zenon
<1>26. (ReplaySkip \/ ReplayApply) => Replayable
  BY Zenon DEF ReplaySkip, ReplayApply, Skips, Applies
<1> QED
  BY <1>5, <1>6, <1>7, <1>8, <1>9, <1>10, <1>11, <1>12, <1>13, <1>14, <1>15,
     <1>16, <1>17, <1>18, <1>20, <1>21, <1>22, <1>23, <1>24, <1>25, <1>26, <1>27, <1>28, ZenonT(60)
  DEF Next, Step, Open, Replay, Attachment, AppendDelta, Settle, Save, Reset

\* The invariant gives durability: what an attached store holds as durable is a
\* state that the barriers acknowledged so far promise (replayWAL, flush).
LEMMA InvDurability == IInv => Durability
<1> SUFFICES ASSUME IInv, pc = "attached" PROVE durable \in promise
  BY Zenon DEF Durability
<1>1. PICK m \in Slots, n \in 0..MaxSeq, len \in 0..Len(walDisk) :
        \E c \in 0..len : Inv(m, n, c, len)
  BY Zenon DEF IInv
<1>2. hist[n] \in promise /\ AttachedInv(m, n)
  BY <1>1, Zenon DEF Inv, StableInv, MemoryInv
<1> QED
  BY <1>2, Zenon DEF AttachedInv

\* The inductive invariant holds of every reliable store.
THEOREM InvCorrect == Reliable /\ Spec => []IInv
<1>2. CASE Reliable
  <2>1. IInv /\ [Next]_vars => IInv'
    BY <1>2, InvStep, Zenon
  <2> QED
    BY <2>1, InvInit, PTL DEF Spec
<1>3. CASE ~Reliable
  BY <1>3, Zenon
<1> QED
  BY <1>2, <1>3, Zenon

\* No barrier that fsync, fsyncdir, syncfs or close acknowledged is ever lost,
\* and nothing but what a barrier wrote appears, when the store is attached
\* again after any number of power failures: for every set of records and
\* values, wherever the failures fall, also when staging, publishing,
\* reclaiming or resetting fails.
THEOREM DurabilityCorrect == Reliable /\ Spec => []Durability
BY InvCorrect, InvDurability, PTL

-----------------------------------------------------------------------------
(* Pending marks. *)

\* Every step keeps each change that is not yet durable marked as pending
\* (markNode, markDeleted and the clearing in checkpointPersistentLocked).
LEMMA CoverStep == CoverInv /\ [Next]_vars => CoverInv'
<1> SUFFICES ASSUME CoverInv, [Next]_vars PROVE CoverInv'
  OBVIOUS
<1> DEFINE Covers == \A k \in Keys : k \notin pending => live[k] = durable[k]
<1>1. TypeOK /\ TypeOK'
  BY TypeStep, Zenon DEF CoverInv
<1>2. /\ live \in State /\ durable \in State /\ delta \in Delta /\ pending \in SUBSET Keys
  BY <1>1, Zenon DEF TypeOK
<1>3. ASSUME pc' \notin Busy \cup Attaching \cup {"attached", "replay"} PROVE CoverInv'
  BY <1>1, <1>3, Zenon DEF CoverInv, Busy, Attaching
<1>4. ASSUME pc \in Busy \cup Restored \cup {"attached"}, UNCHANGED <<pending, live, durable>>,
             pc' \notin {"append", "written", "replay"},
             pc' \notin Attaching \/ op' # "init" \/ delta' = Barrier
      PROVE  CoverInv'
  BY <1>1, <1>4, Zenon DEF CoverInv
<1>5. CASE UNCHANGED vars
  BY <1>1, <1>5, Zenon DEF vars, CoverInv
<1>6. CASE OpenLoad \/ OpenRefused \/ Retry \/ ReplaySkip \/ ReplayApply
            \/ QuarantineFails \/ OpenFails \/ Clean
  BY <1>1, <1>6, Zenon
  DEF OpenLoad, OpenRefused, Retry, ReplaySkip, ReplayApply, QuarantineFails, OpenFails,
      Clean, MarkClean, CleanSync, CleanFails, Detach, CoverInv, Busy, Attaching, Restored
<1>7. CASE OpenInit
  BY <1>1, <1>7, Zenon DEF OpenInit, CoverInv, Busy, Restored
<1>8. CASE ReplayEnd \/ RecoverIncomplete \/ MarkInitialized \/ MarkAttached \/ MarkSync \/ Attach
  BY <1>1, <1>8, Zenon
  DEF ReplayEnd, RecoverIncomplete, MarkInitialized, MarkAttached, MarkSync, Attach,
      memory, CoverInv, Busy, Attaching, Restored
<1>19. CASE Restore
  BY <1>1, <1>19, Zenon DEF Restore, CoverInv, Attaching, Restored, Barrier
<1>9. ASSUME NEW k \in Keys, NEW v \in Values, Mutate(k, v) PROVE CoverInv'
  <2>1. \A j \in Keys : j \notin pending' => live'[j] = durable'[j]
    BY <1>2, <1>9, Zenon DEF Mutate, CoverInv, State
  <2> QED
    BY <1>1, <1>9, <2>1, Zenon DEF Mutate, CoverInv, Attaching, Restored
<1>10. ASSUME NEW name, NEW K \in SUBSET Keys, Start(name, Only(K)) PROVE CoverInv'
  <2>1. DOMAIN Only(K) = K /\ \A k \in K : Only(K)[k] = live[k]
    BY <1>2, OnlyDelta, Zenon
  <2> QED
    BY <1>1, <1>10, <2>1, Zenon DEF Start, CoverInv, Attaching, Restored
<1>11. CASE Begin
  <2>1. ASSUME NEW k \in Keys, Fsync(k) PROVE CoverInv'
    BY <1>10, <2>1, Zenon DEF Fsync
  <2>2. ASSUME NEW K \in SUBSET Keys, FsyncDir(K) PROVE CoverInv'
    BY <1>10, <2>2, Zenon DEF FsyncDir
  <2>3. CASE SyncFS \/ Close
    BY <1>2, <1>10, <2>3, Zenon DEF SyncFS, Close
  <2>4. CASE FsyncDirClean
    BY <1>4, <2>4, Zenon DEF FsyncDirClean, Attaching, Restored
  <2> QED
    BY <1>11, <2>1, <2>2, <2>3, <2>4, Zenon DEF Begin
<1>12. CASE AppendFails \/ AppendTears \/ AppendSyncFails \/ ReclaimFails \/ StageFails
            \/ PublishFails \/ DirSyncFails \/ ResetFails
  <2>1. Fail /\ pc \in Busy
    BY <1>12, Zenon DEF AppendFails, AppendTears, AppendSyncFails, ReclaimFails, StageFails,
                 PublishFails, DirSyncFails, ResetFails, Replacing, Busy
  <2> QED
    BY <1>3, <1>4, <2>1, Zenon DEF Fail, Detach, Resume, Busy, Attaching, Restored
<1>13. CASE AppendWrite
  BY <1>1, <1>13, Zenon DEF AppendWrite, memory, CoverInv, Busy, Attaching, Restored
<1>14. CASE AppendSync
  <2>1. /\ pc = "written" /\ pc' \notin {"append", "written"}
        /\ pending' = pending \ DOMAIN delta /\ live' = live
        /\ durable' = Apply(durable, delta)
    BY <1>14, Zenon DEF AppendSync
  <2>2. \A k \in Keys : Apply(durable, delta)[k] = IF k \in DOMAIN delta THEN delta[k] ELSE durable[k]
    BY <1>2, ApplyState, Zenon
  <2>3. Covers /\ \A k \in DOMAIN delta : delta[k] = live[k]
    BY <2>1, Zenon DEF CoverInv, Busy
  <2>4. \A k \in Keys : k \notin pending' => live'[k] = durable'[k]
    BY <2>1, <2>2, <2>3, Zenon
  <2> QED
    BY <1>1, <1>14, <2>1, <2>4, Zenon DEF AppendSync, CoverInv, Attaching, Restored
<1>15. CASE Return \/ Compact \/ RemoveSlot \/ Publish \/ ResetTruncate
  BY <1>4, <1>15, Zenon DEF Return, Resume, Compact, RemoveSlot, Publish, Replacing, ResetTruncate,
                     memory, Busy, Attaching, Restored
<1>16. CASE DirSync
  <2>1. durable' = live \/ durable' = durable
    BY <1>16, Zenon DEF DirSync, Saved
  <2>2. Covers /\ UNCHANGED <<live, pending>> /\ pc' = "saved"
    BY <1>16, Zenon DEF DirSync, CoverInv, Busy
  <2> QED
    BY <1>1, <2>1, <2>2, Zenon DEF CoverInv, Attaching, Restored
<1>17. CASE ResetSync
  BY <1>4, <1>17, Zenon DEF ResetSync, Busy
<1>18. CASE ProcessCrash \/ PowerFailure
  BY <1>3, <1>18, Zenon DEF ProcessCrash, PowerFailure, Crash, Detach, Busy, Attaching, Restored
<1> QED
  BY <1>5, <1>6, <1>7, <1>8, <1>9, <1>11, <1>12, <1>13, <1>14, <1>15, <1>16, <1>17, <1>18, <1>19,
     ZenonT(60)
  DEF Next, Step, Open, Replay, Attachment, AppendDelta, Settle, Save, Reset

\* A barrier that fails, at whatever step, leaves every record that is not
\* durable yet marked pending, so that the next barrier writes it.
THEOREM NothingForgottenCorrect == Spec => []NothingForgotten
<1>1. Init => CoverInv
  BY TypeInit, Zenon DEF Init, CoverInv, Busy, Attaching, Restored
<1>2. CoverInv => NothingForgotten
  BY Zenon DEF CoverInv, NothingForgotten
<1> QED
  BY <1>1, <1>2, CoverStep, PTL DEF Spec


-----------------------------------------------------------------------------
(* Bounded sets of numbers. *)

\* A set of natural numbers has a least element.
LEMMA Least ==
  ASSUME NEW P \in SUBSET Nat, P # {}
  PROVE  \E p \in P : \A q \in P : p <= q
<1>1. PICK p \in P : \A q \in P : ~(<<q, p>> \in OpToRel(<, Nat))
  BY WFMin, NatLessThanWellFounded, Zenon
<1>2. p \in Nat /\ \A q \in P : q \in Nat
  OBVIOUS
<1>3. ASSUME NEW q \in P PROVE p <= q
  <2>1. ~(<<q, p>> \in OpToRel(<, Nat))
    BY <1>1, Zenon
  <2>2. ~(q < p)
    BY <1>2, <2>1 DEF OpToRel
  <2> QED
    BY <1>2, <2>2
<1> QED
  BY <1>3, Zenon

\* A bounded one has a greatest element.
LEMMA Greatest ==
  ASSUME NEW b \in Nat, NEW P \in SUBSET (1..b), P # {}
  PROVE  \E p \in P : \A q \in P : q <= p
<1> DEFINE Q == {n \in Nat : b - n \in P}
<1>1. PICK r \in P : TRUE
  BY Zenon
<1>2. b - r \in Q
  <2>1. r \in Nat /\ r <= b /\ b - (b - r) = r
    OBVIOUS
  <2> QED
    BY <2>1
<1>3. PICK n \in Q : \A q \in Q : n <= q
  <2>1. Q \in SUBSET Nat /\ Q # {}
    BY <1>2, ZenonT(60)
  <2> HIDE DEF Q
  <2> QED
    BY <2>1, Least, Zenon
<1>4. b - n \in P /\ n \in Nat
  BY <1>3
<1>5. ASSUME NEW q \in P PROVE q <= b - n
  <2>1. q \in 1..b
    OBVIOUS
  <2>2. b - (b - q) = q /\ b - q \in Nat
    BY <2>1
  <2>3. b - q \in Q
    BY <2>2
  <2>4. n <= b - q
    BY <1>3, <2>3, ZenonT(60)
  <2> QED
    BY <1>4, <2>1, <2>4
<1> QED
  BY <1>4, <1>5

\* What no step changes is the same at the end as at the start.
LEMMA Steady ==
  ASSUME NEW f, NEW a \in Nat, NEW b \in Nat, a <= b,
         \A i \in (a + 1)..b : f[i] = f[i - 1]
  PROVE  f[b] = f[a]
<1> DEFINE Bad == {i \in a..b : f[i] # f[a]}
<1>1. SUFFICES ASSUME Bad # {} PROVE FALSE
  BY DEF Bad
<1>2. PICK i \in Bad : \A j \in Bad : i <= j
  <2>1. Bad \in SUBSET Nat
    OBVIOUS
  <2> HIDE DEF Bad
  <2> QED
    BY <1>1, <2>1, Least, Zenon
<1>3. i \in (a + 1)..b /\ i - 1 \in a..b /\ ~(i <= i - 1)
  BY <1>2
<1>4. f[i - 1] = f[a]
  BY <1>2, <1>3
<1> QED
  BY <1>2, <1>3, <1>4

-----------------------------------------------------------------------------
(* What opening the store reads. *)

\* Slot m, which is newer than the other, is the one that load takes.
LEMMA NewestIs ==
  ASSUME NEW s \in [Slots -> Snapshot], NEW m \in Slots, Older(s[1 - m], s[m].seq)
  PROVE  s[Newest(s)] = s[m]
<1> DEFINE Good(i) == \A j \in Slots : s[j] # None =>
                        /\ s[i] # None
                        /\ s[j].seq < s[i].seq \/ (s[j].seq = s[i].seq /\ i <= j)
<1>1. /\ m \in {0, 1} /\ 1 - m \in Slots /\ \A j \in Slots : j = m \/ j = 1 - m
      /\ \A i \in Slots : s[i].seq \in Nat
  BY DEF Slots, Snapshot
<1>2. None.seq = 0
  BY DEF None
<1>3. s[1 - m] # None => s[1 - m].seq < s[m].seq /\ s[m] # None
  <2>1. s[1 - m] # None => s[1 - m].seq < s[m].seq
    BY Zenon DEF Older
  <2>2. s[1 - m].seq < s[m].seq => s[m].seq # 0
    BY <1>1
  <2> QED
    BY <1>2, <2>1, <2>2, Zenon
<1>4. Good(m)
  BY <1>1, <1>3
<1>5. ASSUME NEW i \in Slots, Good(i) PROVE s[i] = s[m]
  <2>1. CASE i = m
    BY <2>1
  <2>2. CASE i = 1 - m /\ s[1 - m] # None
    <3>1. s[m].seq < s[1 - m].seq \/ s[m].seq = s[1 - m].seq
      BY <1>3, <1>5, <2>2, Zenon
    <3>2. s[1 - m].seq < s[m].seq
      BY <1>3, <2>2, Zenon
    <3> QED
      BY <1>1, <3>1, <3>2
  <2>3. CASE i = 1 - m /\ s[1 - m] = None
    BY <1>5, <2>3, Zenon
  <2> QED
    BY <1>1, <2>1, <2>2, <2>3, Zenon
<1>6. Newest(s) = CHOOSE i \in Slots : Good(i)
  BY DEF Newest
<1>7. Newest(s) \in Slots /\ Good(Newest(s))
  <2> HIDE DEF Good
  <2> QED
    BY <1>4, <1>6, Zenon
<1> QED
  BY <1>5, <1>7, Zenon

\* replayWAL goes through the records that lead to sequence number n.
LEMMA ReadsOn ==
  ASSUME NEW h, NEW w \in Seq(Record), NEW s \in Nat, NEW c \in Nat, NEW len \in Nat, NEW n,
         len <= Len(w), Reads(h, w, c, len, s, n)
  PROVE  \A p \in 1..len : GoesOn(w, s, p)
<1> SUFFICES ASSUME NEW p \in 1..len PROVE GoesOn(w, s, p)
  OBVIOUS
<1>1. /\ c <= len
      /\ \A q \in 1..c : 1 <= w[q].seq /\ w[q].seq <= s
      /\ \A q \in (c + 1)..len : w[q].seq = s + q - c
  BY Zenon DEF Reads
<1>2. \A q \in 1..len : w[q].seq \in Nat
  <2>1. \A q \in 1..len : w[q] \in Record
    OBVIOUS
  <2> QED
    BY <2>1, Zenon DEF Record
<1>3. Torn.seq = 0
  BY DEF Torn
<1>4. CASE p <= c
  <2>1. 1 <= w[p].seq /\ w[p].seq <= s
    BY <1>1, <1>4
  <2>2. p = 1 \/ w[p - 1].seq <= s
    BY <1>1, <1>4
  <2>3. w[p] # Torn
    BY <1>3, <2>1
  <2> QED
    BY <2>1, <2>2, <2>3, ZenonT(60) DEF GoesOn, Reached
<1>5. CASE p = c + 1
  <2>1. w[p].seq = s + 1
    BY <1>1, <1>5
  <2>2. p = 1 \/ w[p - 1].seq <= s
    BY <1>1, <1>5
  <2>3. w[p] # Torn
    BY <1>3, <2>1
  <2> QED
    BY <2>1, <2>2, <2>3, ZenonT(60) DEF GoesOn, Reached
<1>6. CASE p > c + 1
  <2>1. w[p].seq = s + p - c /\ w[p - 1].seq = s + (p - 1) - c
    BY <1>1, <1>6
  <2>2. p # 1 /\ ~(w[p - 1].seq <= s) /\ w[p].seq = w[p - 1].seq + 1 /\ w[p].seq # 0
    <3>1. p \in Nat /\ p # 1 /\ p - c > 1
      BY <1>6
    <3>2. /\ s + p - c > 0 /\ s + (p - 1) - c > s
          /\ s + p - c = (s + (p - 1) - c) + 1
      BY <3>1
    <3>3. ~(s + (p - 1) - c <= s) /\ s + p - c # 0
      BY <3>1, <3>2
    <3> QED
      BY <2>1, <3>1, <3>2, <3>3, Zenon
  <2>3. w[p] # Torn
    BY <1>3, <2>2, Zenon
  <2> QED
    BY <2>2, <2>3, Zenon DEF GoesOn, Reached
<1> QED
  BY <1>4, <1>5, <1>6

\* It applies those that the snapshot does not cover, and stops at a torn one.
LEMMA AppliedAre ==
  ASSUME NEW h, NEW w \in Seq(Record), NEW s \in Nat, NEW c \in Nat, NEW len \in Nat, NEW n,
         len <= Len(w), Reads(h, w, c, len, s, n),
         len = Len(w) \/ (Len(w) = len + 1 /\ w[len + 1] = Torn), NEW k
  PROVE  Applied(w, s, k) = {p \in (c + 1)..len : k \in DOMAIN w[p].delta}
<1>1. \A p \in 1..len : GoesOn(w, s, p)
  BY ReadsOn
<1>2. /\ c <= len
      /\ \A q \in 1..c : w[q].seq <= s
      /\ \A q \in (c + 1)..len : w[q].seq = s + q - c
  BY Zenon DEF Reads
<1>3. \A q \in 1..len : w[q].seq \in Nat
  <2>1. \A q \in 1..len : w[q] \in Record
    OBVIOUS
  <2> QED
    BY <2>1, Zenon DEF Record
<1>4. ASSUME NEW p \in Applied(w, s, k) PROVE p \in (c + 1)..len /\ k \in DOMAIN w[p].delta
  <2>1. p \in 1..Len(w) /\ s < w[p].seq /\ k \in DOMAIN w[p].delta /\ GoesOn(w, s, p)
    <3>1. p \in 1..Len(w) /\ s < w[p].seq /\ k \in DOMAIN w[p].delta
          /\ \A q \in 1..p : GoesOn(w, s, q)
      BY <1>4, Zenon DEF Applied
    <3>2. p \in 1..p
      BY <3>1, SMTT(30)
    <3> QED
      BY <3>1, <3>2, Zenon
  <2>2. w[p] # Torn
    BY <2>1, Zenon DEF GoesOn
  <2>3. p \in 1..len
    BY <2>1, <2>2, SMTT(30)
  <2>4. ~(p <= c)
    BY <1>2, <1>3, <2>1, <2>3
  <2> QED
    BY <2>1, <2>3, <2>4
<1>5. ASSUME NEW p \in (c + 1)..len, k \in DOMAIN w[p].delta PROVE p \in Applied(w, s, k)
  <2>1. p \in 1..Len(w) /\ p \in 1..len /\ \A q \in 1..p : q \in 1..len
    BY <1>2
  <2>2. s < w[p].seq
    BY <1>2
  <2> QED
    BY <1>1, <1>5, <2>1, <2>2, ZenonT(60) DEF Applied
<1> QED
  BY <1>4, <1>5, Zenon DEF Applied

\* Log w leads from a snapshot with sequence s to sequence number n; only its
\* last record may be torn.
Leads(h, w, s, n) ==
  \E len \in 0..Len(w) : \E c \in 0..len :
    /\ Reads(h, w, c, len, s, n)
    /\ len = Len(w) \/ (Len(w) = len + 1 /\ w[len + 1] = Torn)

\* A snapshot and a log that lead to sequence number n open as its state.
LEMMA OpenedIs ==
  ASSUME NEW h \in [0..MaxSeq -> State], NEW x \in Snapshot, x # None, h[x.seq] = x.state,
         NEW w \in Seq(Record), NEW n \in 0..MaxSeq, Leads(h, w, x.seq, n)
  PROVE  Opened(x, w) = h[n]
<1> DEFINE s == x.seq
<1>a. PICK len \in 0..Len(w) : \E c \in 0..len :
        /\ Reads(h, w, c, len, x.seq, n)
        /\ len = Len(w) \/ (Len(w) = len + 1 /\ w[len + 1] = Torn)
  BY Zenon DEF Leads
<1>b. PICK c \in 0..len :
        /\ Reads(h, w, c, len, x.seq, n)
        /\ len = Len(w) \/ (Len(w) = len + 1 /\ w[len + 1] = Torn)
  BY <1>a, Zenon
<1>c. len \in Nat /\ c \in Nat /\ len <= Len(w)
  OBVIOUS
<1>0. s \in Nat /\ MaxSeq \in Nat
  BY BoundsAssumption, Zenon DEF Snapshot
<1>1. /\ c <= len /\ n = s + len - c
      /\ \A p \in (c + 1)..len : h[s + p - c] = Apply(h[s + p - c - 1], w[p].delta)
  BY <1>b, ZenonT(60) DEF Reads
<1> HIDE DEF s
<1>2. ASSUME NEW k \in Keys PROVE Opened(x, w)[k] = h[n][k]
  <2> DEFINE P == {p \in (c + 1)..len : k \in DOMAIN w[p].delta}
             f == [i \in Nat |-> h[s + i][k]]
  <2>1. Applied(w, x.seq, k) = P
    <3>1. x.seq \in Nat
      BY Zenon DEF Snapshot
    <3> QED
      BY <1>b, <1>c, <3>1, AppliedAre
  <2>2. \A i \in Nat : f[i] = h[s + i][k]
    OBVIOUS
  <2>3. ASSUME NEW i \in 1..(len - c)
        PROVE  f[i] = IF k \in DOMAIN w[c + i].delta THEN w[c + i].delta[k] ELSE f[i - 1]
    <3>1. c + i \in (c + 1)..len /\ i \in Nat /\ i - 1 \in Nat
      BY <1>1, SMTT(30)
    <3>2. s + (c + i) - c = s + i /\ s + (c + i) - c - 1 = s + (i - 1)
      BY <1>0, <3>1
    <3>3. h[s + i] = Apply(h[s + (i - 1)], w[c + i].delta)
      BY <1>1, <3>1, <3>2, SMTT(30)
    <3>4. f[i] = h[s + i][k] /\ f[i - 1] = h[s + (i - 1)][k]
      BY <2>2, <3>1
    <3> QED
      BY <3>3, <3>4, Zenon DEF Apply
  <2>4. f[len - c] = h[n][k] /\ f[0] = x.state[k] /\ len - c \in Nat
    <3>1. len - c \in Nat /\ s + (len - c) = n /\ s + 0 = s
      BY <1>0, <1>1
    <3> QED
      BY <2>2, <3>1 DEF s
  <2> HIDE DEF f
  <2>5. CASE P = {}
    <3>1. ASSUME NEW i \in (0 + 1)..(len - c) PROVE f[i] = f[i - 1]
      <4>1. i \in 1..(len - c) /\ c + i \in (c + 1)..len
        BY <1>1
      <4> QED
        BY <2>3, <2>5, <4>1
    <3>2. f[len - c] = f[0]
      <4>1. 0 \in Nat /\ 0 <= len - c
        BY <2>4, SMTT(30)
      <4> QED
        BY <2>4, <3>1, <4>1, Steady, ZenonT(60)
    <3>3. Opened(x, w)[k] = x.state[k]
      BY <2>1, <2>5, Zenon DEF Opened
    <3> QED
      BY <2>4, <3>2, <3>3, ZenonT(60)
  <2>6. CASE P # {}
    <3>1. PICK p \in P : \A q \in P : q <= p
      <4>1. P \in SUBSET (1..len)
        BY <1>1
      <4> HIDE DEF P
      <4> QED
        BY <1>c, <2>6, <4>1, Greatest, Zenon
    <3>2. Last(P) \in P /\ \A q \in P : q <= Last(P)
      <4> HIDE DEF P
      <4> QED
        BY <3>1, Zenon DEF Last
    <3>3. PICK l \in (c + 1)..len : l = Last(P) /\ k \in DOMAIN w[l].delta
      BY <3>2, ZenonT(60)
    <3>4. Opened(x, w)[k] = w[l].delta[k]
      <4> HIDE DEF P
      <4> QED
        BY <2>1, <2>6, <3>3, Zenon DEF Opened
    <3>5. l - c \in 1..(len - c) /\ c + (l - c) = l /\ l - c \in Nat /\ l - c <= len - c
      BY <1>1, SMTT(30)
    <3>6. f[l - c] = w[l].delta[k]
      BY <2>3, <3>3, <3>5, SMTT(30)
    <3>7. ASSUME NEW i \in (l - c + 1)..(len - c) PROVE f[i] = f[i - 1]
      <4>1. i \in 1..(len - c) /\ c + i \in (c + 1)..len /\ ~(c + i <= l)
        BY <1>1, <3>5, SMTT(30)
      <4>2. c + i \notin P
        BY <3>2, <3>3, <4>1, Zenon
      <4>3. k \notin DOMAIN w[c + i].delta
        BY <4>1, <4>2
      <4> QED
        BY <2>3, <4>1, <4>3, ZenonT(60)
    <3>8. f[len - c] = f[l - c]
      BY <2>4, <3>5, <3>7, Steady, ZenonT(60)
    <3> QED
      BY <2>4, <3>4, <3>6, <3>8, Zenon
  <2> QED
    BY <2>5, <2>6
<1>3. h[n] \in State
  OBVIOUS
<1>4. h[n] = [k \in Keys |-> h[n][k]]
  BY <1>3 DEF State
<1>5. Opened(x, w) = [k \in Keys |-> Opened(x, w)[k]]
  BY Zenon DEF Opened
<1> QED
  BY <1>2, <1>4, <1>5, Zenon

-----------------------------------------------------------------------------
(* Opening a used store. *)

\* Initially nothing is stored.
LEMMA OpenInvInit == Init => OpenInv
<1> SUFFICES ASSUME Init PROVE OpenInv
  OBVIOUS
<1>1. \A i \in Slots : slot[i] = None /\ slotDisk[i] = None
  BY Zenon DEF Init
<1>2. SlotsInv
  BY <1>1, ZenonT(60) DEF SlotsInv, Init
<1>3. UsedInv
  BY <1>1 DEF UsedInv, Init, Busy, Attaching, Restored
<1> QED
  BY <1>2, <1>3, TypeInit, Zenon DEF OpenInv

\* A step on the same host, from a state in which opening the store is safe.
Safely == TypeOK /\ SlotsInv /\ UsedInv /\ UNCHANGED host

\* What such a step may use, and that it stays on its platform.
LEMMA SafelyFacts ==
  ASSUME Safely
  PROVE  /\ TypeOK /\ SlotsInv /\ UsedInv /\ metadataSlot \in Slots /\ (Windows' <=> Windows)
         /\ Windows \in BOOLEAN
<1>1. host \in Host
  BY HostsAssumption, Zenon DEF Safely, TypeOK
<1> QED
  BY <1>1, Zenon DEF Safely, TypeOK, Windows, Host

\* A step that changes neither slots nor promises, nor hands the store out.
LEMMA SlotsFrame ==
  ASSUME Safely, UNCHANGED <<slot, slotDisk, used, promise>>
  PROVE  SlotsInv'
BY SafelyFacts, Zenon DEF SlotsInv, Stored

\* Once a snapshot is stored, more may be promised and the store handed out.
LEMMA SlotsPromise ==
  ASSUME Safely, NEW i \in Slots, Stored(i), UNCHANGED <<slot, slotDisk>>
  PROVE  SlotsInv' /\ slot'[i] # None /\ (Windows \/ slotDisk'[i] # None)
BY SafelyFacts, Zenon DEF SlotsInv, Stored

\* A directory sync stores what the slots show.
LEMMA SlotsSync ==
  ASSUME Safely, SyncDir, UNCHANGED <<slot, used, promise>>
  PROVE  SlotsInv'
BY SafelyFacts, Zenon DEF SlotsInv, Stored, SyncDir

\* After a directory sync a slot that shows a snapshot also stores it, on POSIX.
LEMMA SlotsStored ==
  ASSUME Safely, SyncDir, NEW i \in Slots, slot[i] # None, UNCHANGED slot
  PROVE  SlotsInv' /\ slot'[i] # None /\ (Windows \/ slotDisk'[i] # None)
BY SafelyFacts, Zenon DEF SlotsInv, Stored, SyncDir

\* Closing the store.
LEMMA DetachKeeps ==
  ASSUME Safely, Detach PROVE UsedInv'
BY DEF Detach, UsedInv, Busy, Attaching, Restored

\* Opening.
LEMMA OpenKeeps ==
  ASSUME Safely, Open PROVE SlotsInv' /\ UsedInv'
<1>0. SlotsInv /\ UsedInv /\ (Windows' <=> Windows)
  BY SafelyFacts, Zenon
<1>1. UNCHANGED <<slot, slotDisk, used, promise>>
  BY Zenon DEF Open, OpenLoad, OpenInit, OpenRefused, Retry, disk, ghost
<1>2. SlotsInv'
  BY <1>1, SlotsFrame, ZenonT(60)
<1>3. CASE OpenLoad
  <2>1. slot[metadataSlot'] # None
    BY <1>3, Zenon DEF OpenLoad, IsBest, Published
  <2>2. pc' = "replay" /\ op' = "none" /\ delta' = Barrier
    BY <1>3, ZenonT(60) DEF OpenLoad
  <2> QED
    BY <1>0, <1>1, <1>2, <2>1, <2>2 DEF UsedInv, Busy, Attaching, Restored
<1>4. CASE OpenInit
  <2>1. \A i \in Slots : slot[i] = None
    BY <1>4, Zenon DEF OpenInit, Published
  <2>2. ~used /\ (~Windows => \A i \in Slots : slotDisk[i] = None)
    BY <1>0, <2>1, ZenonT(60) DEF SlotsInv, Stored
  <2>3. pc' = "recovered" /\ op' = "init" /\ delta' = Barrier
    BY <1>4, ZenonT(60) DEF OpenInit
  <2> QED
    BY <1>0, <1>1, <1>2, <2>1, <2>2, <2>3 DEF UsedInv, Busy, Attaching, Restored
<1>5. CASE OpenRefused
  <2>1. \A i \in Slots : slot[i] = None
    BY <1>5, Zenon DEF OpenRefused, Published
  <2>2. pc = "closed" /\ pc' = "refused" /\ UNCHANGED <<op, delta>>
    BY <1>5, ZenonT(60) DEF OpenRefused, memory
  <2> QED
    BY <1>0, <1>1, <1>2, <2>1, <2>2 DEF UsedInv, Busy, Attaching, Restored
<1>6. CASE Retry
  <2>1. pc = "refused" /\ pc' = "closed" /\ UNCHANGED <<op, delta>>
    BY <1>6, Zenon DEF Retry, memory
  <2> QED
    BY <1>0, <1>2, <2>1 DEF UsedInv, Busy, Attaching, Restored
<1> QED
  BY <1>2, <1>3, <1>4, <1>5, <1>6, Zenon DEF Open

\* Replaying the log.
LEMMA ReplayKeeps ==
  ASSUME Safely, Replay PROVE SlotsInv' /\ UsedInv'
<1>0. SlotsInv /\ UsedInv /\ (Windows' <=> Windows)
  BY SafelyFacts, Zenon
<1>1. pc = "replay" /\ UNCHANGED <<slot, slotDisk, used, promise>>
  BY ZenonT(60) DEF Replay, ReplaySkip, ReplayApply, ReplayEnd, QuarantineFails, disk, names, ghost
<1>2. SlotsInv'
  BY <1>1, SlotsFrame, ZenonT(60)
<1>3. CASE ReplaySkip \/ ReplayApply \/ ReplayEnd
  <2>1. pc' \in {"replay", "recovered"} /\ UNCHANGED <<op, delta, metadataSlot>>
    BY <1>3, <1>1, ZenonT(60) DEF ReplaySkip, ReplayApply, ReplayEnd
  <2> QED
    BY <1>0, <1>1, <1>2, <2>1 DEF UsedInv, Busy, Attaching, Restored
<1>4. CASE QuarantineFails
  BY <1>2, <1>4, DetachKeeps, Zenon DEF QuarantineFails
<1> QED
  BY <1>3, <1>4, Zenon DEF Replay

\* The markers and the directory syncs after them, up to the attachment.
LEMMA AttachmentKeeps ==
  ASSUME Safely, Attachment PROVE SlotsInv' /\ UsedInv'
<1>0. SlotsInv /\ UsedInv /\ (Windows' <=> Windows) /\ metadataSlot \in Slots
  BY SafelyFacts, ZenonT(60)
<1>1. CASE RecoverIncomplete \/ Restore \/ MarkInitialized \/ MarkAttached
  <2>1. UNCHANGED <<slot, slotDisk, used, promise, op, delta, metadataSlot>>
    BY <1>1, ZenonT(60)
    DEF RecoverIncomplete, Restore, MarkInitialized, MarkAttached, disk, memory, ghost
  <2>2. \/ pc \in {"recovered", "opened"} /\ pc' \in {"renamed", "opened"}
        \/ pc = "opened" /\ pc' = IF op = "init" THEN "append" ELSE "restored"
        \/ pc \in Restored /\ pc' \in Restored
    BY <1>1, ZenonT(60) DEF RecoverIncomplete, Restore, MarkInitialized, MarkAttached, Restored
  <2>3. SlotsInv'
    BY <2>1, SlotsFrame, ZenonT(60)
  <2> QED
    BY <1>0, <2>1, <2>2, <2>3 DEF UsedInv, Busy, Attaching, Restored
<1>2. CASE MarkSync
  <2>1. /\ pc \in {"renamed", "marked"} /\ pc' = IF pc = "renamed" THEN "opened" ELSE "initialized"
        /\ SyncDir /\ UNCHANGED <<slot, used, promise, op, delta, metadataSlot>>
    BY <1>2, ZenonT(60) DEF MarkSync, memory, ghost
  <2>2. SlotsInv'
    BY <2>1, SlotsSync, Zenon
  <2>3. (\A i \in Slots : slot[i] = None) /\ ~Windows => \A i \in Slots : slotDisk'[i] = None
    BY <2>1, Zenon DEF SyncDir
  <2> QED
    BY <1>0, <2>1, <2>2, <2>3 DEF UsedInv, Busy, Attaching, Restored
<1>3. CASE Attach
  <2>1. /\ pc = "dirtied" /\ pc' = "attached" /\ SyncDir
        /\ UNCHANGED <<slot, op, delta, metadataSlot>>
    BY <1>3, Zenon DEF Attach, memory
  <2>2. slot[metadataSlot] # None /\ op = "none" /\ delta = Barrier
    BY <1>0, <2>1 DEF UsedInv, Restored, Busy
  <2>3. SlotsInv' /\ Stored(metadataSlot)'
    BY <1>0, <2>1, <2>2, SlotsStored, Zenon DEF Stored
  <2> QED
    BY <2>1, <2>2, <2>3 DEF UsedInv, Busy, Attaching, Restored
<1>4. CASE OpenFails
  BY <1>4, SlotsFrame, DetachKeeps, Zenon DEF OpenFails, disk, ghost
<1> QED
  BY <1>1, <1>2, <1>3, <1>4, Zenon DEF Attachment

\* Mutations and the start of a barrier.
LEMMA BeginKeeps ==
  ASSUME Safely, Begin \/ \E k \in Keys, v \in Values : Mutate(k, v)
  PROVE  SlotsInv' /\ UsedInv'
<1>0. SlotsInv /\ UsedInv /\ metadataSlot \in Slots /\ (Windows' <=> Windows)
  BY SafelyFacts, Zenon
<1>1. /\ pc = "attached"
      /\ pc' \in {"attached", "append", "maybe"}
      /\ UNCHANGED <<slot, slotDisk, metadataSlot>>
      /\ op' # "init"
      /\ pc' = "attached" => op' = op /\ delta' = delta
  <2>1. pc = "attached" => op # "init"
    BY <1>0 DEF UsedInv, Busy, Attaching, Restored
  <2>2. CASE \E k \in Keys, v \in Values : Mutate(k, v)
    BY <2>1, <2>2, Zenon DEF Mutate, disk
  <2>3. ASSUME NEW d, NEW name, name # "init", Start(name, d)
        PROVE  /\ pc = "attached" /\ pc' = "append" /\ op' # "init"
               /\ UNCHANGED <<slot, slotDisk, metadataSlot>>
    BY <2>3, Zenon DEF Start, disk
  <2>4. CASE Begin
    <3>1. "fsync" # "init" /\ "fsyncdir" # "init" /\ "syncfs" # "init" /\ "close" # "init"
          /\ "append" # "attached" /\ "maybe" # "attached"
      OBVIOUS
    <3>2. CASE FsyncDirClean
      BY <3>1, <3>2, Zenon DEF FsyncDirClean, disk
    <3>3. CASE \E name \in {"fsync", "fsyncdir", "syncfs", "close"}, d \in {delta'} : Start(name, d)
      BY <2>3, <3>1, <3>3, Zenon
    <3>4. ASSUME NEW d, NEW name, Start(name, d) PROVE d = delta'
      BY <3>4, Zenon DEF Start
    <3> QED
      BY <2>4, <3>2, <3>3, <3>4, Zenon DEF Begin, Fsync, FsyncDir, SyncFS, Close
  <2> QED
    BY <2>2, <2>4, ZenonT(60)
<1>2. Stored(metadataSlot)
  BY <1>0, <1>1, ZenonT(60) DEF UsedInv
<1>3. SlotsInv' /\ Stored(metadataSlot)'
  BY <1>0, <1>1, <1>2, SlotsPromise, ZenonT(60) DEF Stored
<1>4. UsedInv'
  BY <1>0, <1>1, <1>3 DEF UsedInv, Busy, Attaching, Restored
<1> QED
  BY <1>3, <1>4

\* A step that fails gives the store up or goes on with the attachment.
LEMMA FailKeeps ==
  ASSUME Safely, Fail, pc \in Busy, UNCHANGED <<slot, slotDisk>>
  PROVE  SlotsInv' /\ UsedInv'
<1>0. SlotsInv /\ UsedInv /\ metadataSlot \in Slots /\ (Windows' <=> Windows)
  BY SafelyFacts, Zenon
<1>1. SlotsInv'
  BY SlotsFrame, Zenon DEF Fail, ghost
<1>2. op' = "none" /\ delta' = Barrier
  BY Zenon DEF Fail, Detach, Resume
<1>3. CASE Final
  <2>1. pc' = "closed"
    BY <1>3, Zenon DEF Fail, Detach
  <2> QED
    BY <1>1, <1>2, <2>1 DEF UsedInv, Busy, Attaching, Restored
<1>4. CASE ~Final
  <2>1. pc' = "attached" /\ metadataSlot' = metadataSlot /\ op # "init"
    BY <1>4, Zenon DEF Fail, Resume, Final
  <2>2. Stored(metadataSlot)'
    BY <1>0, <2>1, Zenon DEF UsedInv, Stored
  <2> QED
    BY <1>1, <1>2, <2>1, <2>2 DEF UsedInv, Busy, Attaching, Restored
<1> QED
  BY <1>3, <1>4

\* Appending a record and what follows it.
LEMMA AppendKeeps ==
  ASSUME Safely, AppendDelta \/ Settle PROVE SlotsInv' /\ UsedInv'
<1>0. SlotsInv /\ UsedInv /\ metadataSlot \in Slots /\ (Windows' <=> Windows)
  BY SafelyFacts, Zenon
<1>1. CASE AppendFails \/ AppendTears \/ AppendSyncFails \/ ReclaimFails
  <2>1. Fail /\ UNCHANGED <<slot, slotDisk>> /\ pc \in {"append", "written", "maybe"}
    BY <1>1, Zenon DEF AppendFails, AppendTears, AppendSyncFails, ReclaimFails
  <2>2. pc \in Busy
    BY <2>1, Zenon DEF Busy
  <2> QED
    BY <2>1, <2>2, FailKeeps, Zenon
<1>2. CASE AppendWrite \/ AppendSync \/ Compact
  <2>1. /\ pc \in {"append", "written", "maybe"} /\ pc' \in {"written", "maybe", "save"}
        /\ pc' = "maybe" => op # "init"
        /\ UNCHANGED <<slot, slotDisk, used, promise, op, delta, metadataSlot>>
    BY <1>2, Zenon DEF AppendWrite, AppendSync, Compact, Final, disk, memory, ghost
  <2>2. SlotsInv'
    BY <2>1, SlotsFrame, Zenon
  <2>3. Stored(metadataSlot) => Stored(metadataSlot)'
    BY <1>0, <2>1, ZenonT(60) DEF Stored
  <2>4. UsedInv'
    BY <1>0, <2>1, <2>3 DEF UsedInv, Busy, Attaching, Restored
  <2> QED
    BY <2>2, <2>4
<1>3. CASE Return
  <2>1. /\ pc = "maybe" /\ pc' = "attached" /\ op' = "none" /\ delta' = Barrier
        /\ UNCHANGED <<slot, slotDisk, metadataSlot>>
    BY <1>3, Zenon DEF Return, Resume, disk
  <2>2. Stored(metadataSlot)
    <3>1. pc \in Busy
      BY <2>1, Zenon DEF Busy
    <3> QED
      BY <1>0, <2>1, <3>1, Zenon DEF UsedInv
  <2>3. SlotsInv' /\ Stored(metadataSlot)'
    BY <1>0, <2>1, <2>2, SlotsPromise, ZenonT(60) DEF Stored
  <2>4. UsedInv'
    BY <2>1, <2>3 DEF UsedInv, Busy, Attaching, Restored
  <2> QED
    BY <2>3, <2>4
<1> QED
  BY <1>1, <1>2, <1>3, Zenon DEF AppendDelta, Settle

\* Saving a snapshot.
LEMMA SaveKeeps ==
  ASSUME Safely, Save PROVE SlotsInv' /\ UsedInv'
<1>0. SlotsInv /\ UsedInv /\ TypeOK /\ (Windows' <=> Windows)
  BY SafelyFacts, Zenon
<1>a. /\ metadataSlot \in Slots /\ 1 - metadataSlot \in Slots /\ 1 - metadataSlot # metadataSlot
      /\ 1 - (1 - metadataSlot) = metadataSlot
      /\ \A i \in Slots : i = metadataSlot \/ i = 1 - metadataSlot
  BY <1>0 DEF TypeOK, Slots
<1>b. DOMAIN slot = Slots /\ DOMAIN slotDisk = Slots
  BY <1>0, Zenon DEF TypeOK
<1>1. CASE StageFails \/ PublishFails \/ DirSyncFails
  <2>1. Fail /\ UNCHANGED <<slot, slotDisk>> /\ pc \in {"save", "removed", "published"}
    BY <1>1, Zenon DEF StageFails, PublishFails, DirSyncFails, Replacing
  <2>2. pc \in Busy
    BY <2>1, Zenon DEF Busy
  <2> QED
    BY <2>1, <2>2, FailKeeps, Zenon
<1>2. CASE RemoveSlot
  <2>1. /\ pc = "save" /\ pc' = "removed"
        /\ slot' = [slot EXCEPT ![1 - metadataSlot] = None]
        /\ Windows /\ UNCHANGED <<slotDisk, used, promise, op, delta, metadataSlot>>
    BY <1>2, Zenon DEF RemoveSlot, OtherSlot, memory, ghost
  <2>2. slot'[metadataSlot] = slot[metadataSlot]
    BY <1>a, <1>b, <2>1, Zenon
  <2>3. op = "init" => ~used /\ (~Windows => \A i \in Slots : slotDisk[i] = None)
    BY <1>0, <2>1, Zenon DEF UsedInv
  <2>4. op # "init" => Stored(metadataSlot) /\ Stored(metadataSlot)'
    <3>1. pc \in Busy
      BY <2>1, Zenon DEF Busy
    <3> QED
      BY <1>0, <2>1, <2>2, <3>1, ZenonT(60) DEF UsedInv, Stored
  <2>5. SlotsInv'
    <3>1. CASE op = "init"
      BY <1>0, <2>1, <2>3, <3>1, ZenonT(60) DEF SlotsInv, Stored
    <3>2. CASE op # "init"
      BY <1>0, <1>a, <2>1, <2>4, <3>2, ZenonT(60) DEF SlotsInv, Stored
    <3> QED
      BY <3>1, <3>2
  <2>6. UsedInv'
    BY <1>0, <2>1, <2>3, <2>4, SMTT(30) DEF UsedInv, Busy, Attaching, Restored
  <2> QED
    BY <2>5, <2>6
<1>3. CASE Publish
  <2>1. /\ pc \in {"save", "removed"} /\ pc' = "published"
        /\ slot' = [slot EXCEPT ![1 - metadataSlot] = Saved]
        /\ UNCHANGED <<slotDisk, used, promise, op, delta, metadataSlot>>
    BY <1>3, Zenon DEF Publish, OtherSlot, Replacing, memory
  <2>2. slot'[metadataSlot] = slot[metadataSlot] /\ slot'[1 - metadataSlot] = Saved
    BY <1>a, <1>b, <2>1, Zenon
  <2>3. Saved # None
    <3>1. Saved.seq = sequence + 1 /\ None.seq = 0 /\ sequence \in Nat
      BY <1>0 DEF Saved, None, TypeOK
    <3>2. Saved.seq # None.seq
      BY <3>1
    <3> QED
      BY <3>2, ZenonT(60)
  <2>4. op = "init" => ~used /\ (~Windows => \A i \in Slots : slotDisk[i] = None)
    BY <1>0, <2>1, Zenon DEF UsedInv
  <2>5. op # "init" => Stored(metadataSlot) /\ Stored(metadataSlot)'
    <3>1. pc \in Busy
      BY <2>1, Zenon DEF Busy
    <3> QED
      BY <1>0, <2>1, <2>2, <3>1, ZenonT(60) DEF UsedInv, Stored
  <2>6. SlotsInv'
    <3>1. CASE op = "init"
      BY <1>0, <2>1, <2>4, <3>1, Zenon DEF SlotsInv, Stored
    <3>2. CASE op # "init"
      BY <1>0, <1>a, <2>1, <2>2, <2>3, <2>5, <3>2, ZenonT(60) DEF SlotsInv, Stored
    <3> QED
      BY <3>1, <3>2
  <2>7. UsedInv'
    BY <1>0, <2>1, <2>2, <2>3, <2>4, <2>5, SMTT(30) DEF UsedInv, Busy, Attaching, Restored
  <2> QED
    BY <2>6, <2>7
<1>4. CASE DirSync
  <2>1. /\ pc = "published" /\ pc' = "saved" /\ SyncDir
        /\ metadataSlot' = 1 - metadataSlot
        /\ UNCHANGED <<slot, op, delta>>
    BY <1>4, Zenon DEF DirSync, OtherSlot
  <2>2. slot[1 - metadataSlot] # None
    BY <1>0, <2>1, Zenon DEF UsedInv
  <2>4. /\ SlotsInv' /\ slot'[1 - metadataSlot] # None
        /\ Windows \/ slotDisk'[1 - metadataSlot] # None
    BY <1>a, <2>1, <2>2, SlotsStored, Zenon
  <2>3. Stored(metadataSlot)'
    BY <1>0, <2>1, <2>4, ZenonT(60) DEF Stored
  <2>5. UsedInv'
    BY <1>0, <2>1, <2>3, ZenonT(60) DEF UsedInv, Busy, Attaching, Restored
  <2> QED
    BY <2>4, <2>5
<1> QED
  BY <1>1, <1>2, <1>3, <1>4, Zenon DEF Save

\* Resetting the log.
LEMMA ResetKeeps ==
  ASSUME Safely, Reset PROVE SlotsInv' /\ UsedInv'
<1>0. SlotsInv /\ UsedInv /\ metadataSlot \in Slots /\ (Windows' <=> Windows)
  BY SafelyFacts, Zenon
<1>1. CASE ResetFails
  <2>1. Fail /\ UNCHANGED <<slot, slotDisk>> /\ pc \in {"saved", "truncated"}
    BY <1>1, Zenon DEF ResetFails
  <2>2. pc \in Busy
    BY <2>1, Zenon DEF Busy
  <2> QED
    BY <2>1, <2>2, FailKeeps, Zenon
<1>2. CASE ResetTruncate
  <2>1. /\ pc = "saved" /\ pc' = "truncated"
        /\ UNCHANGED <<slot, slotDisk, used, promise, op, delta, metadataSlot>>
    BY <1>2, Zenon DEF ResetTruncate, names, memory, ghost
  <2>2. SlotsInv'
    BY <2>1, SlotsFrame, ZenonT(60)
  <2>3. Stored(metadataSlot)'
    BY <1>0, <2>1, ZenonT(60) DEF UsedInv, Stored
  <2>4. UsedInv'
    BY <1>0, <2>1, <2>3, ZenonT(60) DEF UsedInv, Busy, Attaching, Restored
  <2> QED
    BY <2>2, <2>4
<1>3. CASE ResetSync
  <2>1. /\ pc = "truncated" /\ op' = "none" /\ delta' = Barrier /\ SyncDir
        /\ pc' \in {"clean", "restored", "attached"} /\ UNCHANGED <<slot, metadataSlot>>
    BY <1>3, Zenon DEF ResetSync
  <2>2. slot[metadataSlot] # None
    BY <1>0, <2>1, Zenon DEF UsedInv, Stored
  <2>3. SlotsInv' /\ Stored(metadataSlot)'
    BY <1>0, <2>1, <2>2, SlotsStored, ZenonT(60) DEF Stored
  <2>5. UsedInv'
    BY <2>1, <2>2, <2>3 DEF UsedInv, Busy, Attaching, Restored
  <2> QED
    BY <2>3, <2>5
<1> QED
  BY <1>1, <1>2, <1>3, Zenon DEF Reset

\* Close's marker.
LEMMA CleanKeeps ==
  ASSUME Safely, Clean PROVE SlotsInv' /\ UsedInv'
<1>0. SlotsInv /\ UsedInv
  BY SafelyFacts, ZenonT(60)
<1>1. CASE MarkClean
  <2>1. /\ pc = "clean" /\ pc' = "cleaned"
        /\ UNCHANGED <<slot, slotDisk, used, promise, op, delta>>
    BY <1>1, Zenon DEF MarkClean, memory, ghost
  <2> QED
    BY <1>0, <2>1, SlotsFrame DEF UsedInv, Busy, Attaching, Restored
<1>2. CASE CleanSync
  BY <1>2, SlotsSync, DetachKeeps, Zenon DEF CleanSync, ghost
<1>3. CASE CleanFails
  BY <1>3, SlotsFrame, DetachKeeps, Zenon DEF CleanFails, disk, ghost
<1> QED
  BY <1>1, <1>2, <1>3, Zenon DEF Clean

\* A crash.
LEMMA CrashKeeps ==
  ASSUME Safely, Sheltered, ProcessCrash \/ PowerFailure PROVE SlotsInv' /\ UsedInv'
<1>0. SlotsInv /\ (Windows' <=> Windows)
  BY SafelyFacts, Zenon
<1>1. UsedInv' /\ UNCHANGED <<used, promise>>
  BY DetachKeeps, Zenon DEF ProcessCrash, PowerFailure, Crash
<1>2. CASE ProcessCrash
  BY <1>1, <1>2, SlotsFrame, Zenon DEF ProcessCrash, disk
<1>3. CASE PowerFailure
  <2>0. ~Windows
    BY <1>3, Zenon DEF PowerFailure, Sheltered
  <2>1. slotDisk' = slot' /\ \A i \in Slots : slot'[i] \in {slot[i], slotDisk[i]}
    BY <1>3, Zenon DEF PowerFailure
  <2>2. \A i \in Slots : Stored(i) => slot'[i] # None
    BY <2>0, <2>1, Zenon DEF Stored
  <2>3. (\A i \in Slots : slot'[i] = None) => \A i \in Slots : slotDisk[i] = None
    BY <1>0, <2>0, <2>1, Zenon DEF SlotsInv
  <2>4. SlotsInv'
    BY <1>0, <1>1, <2>0, <2>1, <2>2, <2>3, Zenon DEF SlotsInv, Stored
  <2> QED
    BY <1>1, <2>4
<1> QED
  BY <1>1, <1>2, <1>3

\* Every step keeps what opening the store relies on.
LEMMA OpenInvStep == OpenInv /\ [Next]_vars => OpenInv'
<1> SUFFICES ASSUME OpenInv, [Next]_vars, Sheltered PROVE SlotsInv' /\ UsedInv'
  <2>1. OpenInv /\ [Next]_vars => TypeOK' /\ (Sheltered' => Sheltered)
    BY TypeStep, Zenon DEF OpenInv, Next, vars, Sheltered, Windows, CrashKinds
  <2> QED
    BY <2>1, Zenon DEF OpenInv
<1>1. Safely
  BY Zenon DEF OpenInv, Safely, Next, vars
<1>2. CASE UNCHANGED vars
  <2>1. SlotsInv'
    BY <1>1, <1>2, SlotsFrame, Zenon DEF vars
  <2>2. UsedInv'
    BY <1>1, <1>2, ZenonT(60) DEF Safely, UsedInv, Stored, Windows, vars
  <2> QED
    BY <2>1, <2>2
<1>3. CASE Next
  BY <1>1, <1>3, OpenKeeps, ReplayKeeps, AttachmentKeeps, BeginKeeps, AppendKeeps, SaveKeeps,
     ResetKeeps, CleanKeeps, CrashKeeps, Zenon DEF Next, Step
<1> QED
  BY <1>2, <1>3, Zenon

\* Once NewPersistentImageFS has succeeded, a store is never refused when it is
\* opened, for every set of records and values: on POSIX whatever host operation
\* failed (the directory syncs included) and wherever the process was killed or
\* the power failed, on Windows whatever failed and wherever the process was
\* killed.  load finds one of the two slots (openPersistentImageStore,
\* replacePersistentFile, markInitialized, markAttached).
THEOREM UsedReopensCorrect == Spec => []UsedReopens
<1>1. OpenInv => UsedReopens
  BY ZenonT(60) DEF OpenInv, SlotsInv, UsedInv, Stored, UsedReopens
<1> QED
  BY <1>1, OpenInvInit, OpenInvStep, PTL DEF Spec

-----------------------------------------------------------------------------
(* The protocol implements the atomic store. *)

\* Slots s and log w stand for sequence number n, which is promised.
Stands(h, s, w, P, n) ==
  /\ \E m \in Slots : /\ h[s[m].seq] = s[m].state /\ Older(s[1 - m], s[m].seq)
                      /\ Leads(h, w, s[m].seq, n)
  /\ h[n] \in P
  /\ (\A i \in Slots : s[i] = None) => P = {Empty}

\* They open as its state.
LEMMA OpenedStable ==
  ASSUME NEW h \in [0..MaxSeq -> State], NEW s \in [Slots -> Snapshot], NEW w \in Seq(Record),
         NEW n \in 0..MaxSeq, NEW P, Stands(h, s, w, P, n)
  PROVE  Opened(s[Newest(s)], w) = h[n]
<1>0. PICK m \in Slots : /\ h[s[m].seq] = s[m].state /\ Older(s[1 - m], s[m].seq)
                         /\ Leads(h, w, s[m].seq, n)
  BY Zenon DEF Stands
<1>1. s[Newest(s)] = s[m]
  BY <1>0, NewestIs, ZenonT(60)
<1>2. s[m] \in Snapshot /\ 1 - m \in Slots /\ \A j \in Slots : j = m \/ j = 1 - m
  BY DEF Slots
<1>4. CASE s[m] # None
  <2>1. PICK x \in Snapshot : x = s[m]
    BY <1>2, Zenon
  <2>2. x # None /\ h[x.seq] = x.state /\ Leads(h, w, x.seq, n)
    BY <1>0, <1>4, <2>1, Zenon
  <2>3. Opened(x, w) = h[n]
    BY <2>2, OpenedIs, Zenon
  <2> QED
    BY <1>1, <2>1, <2>3, Zenon
<1>5. CASE s[m] = None
  <2>1. s[1 - m] = None
    <3>1. s[m].seq = 0
      BY <1>5 DEF None
    <3>2. s[1 - m].seq \in Nat
      BY <1>2 DEF Snapshot
    <3> QED
      BY <1>0, <3>1, <3>2 DEF Older
  <2>2. h[n] = Empty
    BY <1>2, <1>5, <2>1, Zenon DEF Stands
  <2>3. Opened(None, w) = Empty
    <3>1. None.state = Empty
      BY DEF None
    <3> QED
      BY <3>1, Zenon DEF Opened, Empty
  <2> QED
    BY <1>1, <1>5, <2>2, <2>3, ZenonT(60)
<1> QED
  BY <1>4, <1>5

\* What a power failure would bring back is what stable storage stands for.
LEMMA RecoveredIs ==
  ASSUME Reliable, NEW n \in 0..MaxSeq
  PROVE  /\ OpenInv /\ At(n) => Recovered = hist[n] /\ hist[n] \in promise
         /\ OpenInv' /\ At(n)' => Recovered' = hist'[n] /\ hist'[n] \in promise'
<1>1. ASSUME OpenInv, At(n) PROVE Recovered = hist[n] /\ hist[n] \in promise
  <2>1. PICK m \in Slots, len \in 0..Len(walDisk) : \E c \in 0..len : StableInv(m, n, c, len)
    BY <1>1, Zenon DEF At, Inv
  <2>2. PICK c \in 0..len : StableInv(m, n, c, len)
    BY <2>1, Zenon
  <2>0. ~Windows /\ Sheltered
    BY <1>1, HostFacts, Zenon DEF OpenInv
  <2>3. /\ hist \in [0..MaxSeq -> State] /\ slotDisk \in [Slots -> Snapshot]
        /\ walDisk \in Seq(Record)
        /\ (\A i \in Slots : slotDisk[i] = None) => promise = {Empty}
    BY <1>1, <2>0, Zenon DEF OpenInv, TypeOK, SlotsInv
  <2>4. /\ hist[slotDisk[m].seq] = slotDisk[m].state /\ Older(slotDisk[1 - m], slotDisk[m].seq)
        /\ Leads(hist, walDisk, slotDisk[m].seq, n)
        /\ hist[n] \in promise
    BY <2>2, Zenon DEF StableInv, Leads
  <2>5. Stands(hist, slotDisk, walDisk, promise, n)
    BY <2>3, <2>4, Zenon DEF Stands
  <2>6. Opened(slotDisk[Newest(slotDisk)], walDisk) = hist[n]
    BY <2>3, <2>5, OpenedStable, Zenon
  <2> QED
    BY <2>4, <2>6, Zenon DEF Recovered
<1>2. ASSUME OpenInv', At(n)' PROVE Recovered' = hist'[n] /\ hist'[n] \in promise'
  <2>1. PICK m \in Slots, len \in 0..Len(walDisk') : \E c \in 0..len : StableInv(m, n, c, len)'
    BY <1>2, Zenon DEF At, Inv
  <2>2. PICK c \in 0..len : StableInv(m, n, c, len)'
    BY <2>1, Zenon
  <2>0. ~Windows' /\ Sheltered'
    <3>1. host' \in Hosts
      BY <1>2, Zenon DEF OpenInv, TypeOK
    <3> QED
      BY <3>1, Zenon DEF Reliable, Windows, Sheltered
  <2>3. /\ hist' \in [0..MaxSeq -> State] /\ slotDisk' \in [Slots -> Snapshot]
        /\ walDisk' \in Seq(Record)
        /\ (\A i \in Slots : slotDisk'[i] = None) => promise' = {Empty}
    BY <1>2, <2>0, Zenon DEF OpenInv, TypeOK, SlotsInv
  <2>4. /\ hist'[slotDisk'[m].seq] = slotDisk'[m].state
        /\ Older(slotDisk'[1 - m], slotDisk'[m].seq)
        /\ Leads(hist', walDisk', slotDisk'[m].seq, n)
        /\ hist'[n] \in promise'
    BY <2>2, Zenon DEF StableInv, Older, Reads, Leads
  <2>5. Stands(hist', slotDisk', walDisk', promise', n)
    BY <2>3, <2>4, Zenon DEF Stands
  <2>6. Opened(slotDisk'[Newest(slotDisk')], walDisk') = hist'[n]
    BY <2>3, <2>5, OpenedStable, Zenon
  <2> QED
    BY <2>4, <2>6, Zenon DEF Recovered
<1> QED
  BY <1>1, <1>2, Zenon

\* An attached store holds it as its durable state.
LEMMA RecoveredDurable ==
  ASSUME Reliable
  PROVE  /\ OpenInv /\ IInv /\ pc \in Busy \cup Attaching \cup {"attached"} => Recovered = durable
         /\ OpenInv' /\ IInv' /\ pc' \in Busy \cup Attaching \cup {"attached"}
              => Recovered' = durable'
<1>1. ASSUME OpenInv, IInv, pc \in Busy \cup Attaching \cup {"attached"} PROVE Recovered = durable
  <2>1. PICK n \in 0..MaxSeq : At(n) /\ durable = hist[n]
    BY <1>1, ZenonT(60) DEF IInv, At, Inv, MemoryInv, AttachedInv
  <2> QED
    BY <1>1, <2>1, RecoveredIs, Zenon
<1>2. ASSUME OpenInv', IInv', pc' \in Busy \cup Attaching \cup {"attached"}
      PROVE  Recovered' = durable'
  <2>1. PICK n \in 0..MaxSeq : At(n)' /\ durable' = hist'[n]
    BY <1>2, ZenonT(60) DEF IInv, At, Inv, MemoryInv, AttachedInv, Busy, Attaching, Restored
  <2> QED
    BY <1>2, <2>1, RecoveredIs, Zenon
<1> QED
  BY <1>1, <1>2, ZenonT(60) DEF Busy, Attaching, Restored

\* Whenever the power fails, the state that opening the store then yields is one
\* that the callers of Fsync, FsyncDir, SyncFS and Close have to expect: at every
\* step of a barrier, of a compaction and of recovery itself.
THEOREM AlwaysRecoverableCorrect == Reliable /\ Spec => []AlwaysRecoverable
<1>1. Reliable /\ OpenInv /\ IInv => AlwaysRecoverable
  <2> SUFFICES ASSUME Reliable, OpenInv, IInv PROVE Recovered \in promise
    BY Zenon DEF AlwaysRecoverable, DS!Kept
  <2>1. PICK n \in 0..MaxSeq : At(n)
    BY Zenon DEF IInv, At
  <2> QED
    BY <2>1, RecoveredIs, Zenon
<1>2. Spec => []OpenInv
  BY OpenInvInit, OpenInvStep, PTL DEF Spec
<1>3. CASE Reliable
  <2>1. OpenInv /\ IInv => AlwaysRecoverable
    BY <1>1, <1>3, ZenonT(60)
  <2> QED
    BY <1>2, <1>3, <2>1, InvCorrect, PTL
<1>4. CASE ~Reliable
  BY <1>4, Zenon
<1> QED
  BY <1>3, <1>4, Zenon

\* The phases of the abstract store.
Shut == {"closed", "refused", "replay"} \cup Attaching \cup Closing

\* Which places of the code are which phase of the abstract store.
LEMMA PhaseIs ==
  /\ pc \in Shut => Phase = "closed"
  /\ pc = "attached" => Phase = "idle"
  /\ pc \in Busy => Phase = "busy"
  /\ pc' \in Shut => Phase' = "closed"
  /\ pc' = "attached" => Phase' = "idle"
  /\ pc' \in Busy => Phase' = "busy"
BY DEF Phase, Busy, Shut, Attaching, Restored, Closing

\* Applying the empty barrier changes nothing.
LEMMA BarrierKeeps ==
  ASSUME promise \in SUBSET State
  PROVE  promise \cup {Apply(s, Barrier) : s \in promise} = promise
<1>1. ASSUME NEW s \in State PROVE Apply(s, Barrier) = s
  BY DEF Apply, Barrier, State
<1> QED
  BY <1>1, Zenon

\* The operators of the abstract store are those of the protocol.
LEMMA SameOperators ==
  /\ DS!Delta = Delta /\ DS!Nothing = Barrier
  /\ \A s, d : DS!After(s, d) = Apply(s, d)
BY Zenon DEF DS!Delta, Delta, DS!Nothing, Barrier, DS!After, Apply

\* What the abstract store sees of a state.
Seen == <<Recovered, Phase, delta, promise>>

\* What recovery reads depends on stable storage only.
LEMMA RecoveredFrame ==
  ASSUME UNCHANGED <<slotDisk, walDisk>> PROVE Recovered' = Recovered
BY Zenon DEF Recovered

\* Opening the store and replaying its log.
LEMMA OpenImplements ==
  ASSUME Reliable, OpenInv, OpenInv', IInv, IInv', UNCHANGED host, Open \/ Replay
  PROVE  DS!Next \/ UNCHANGED Seen
<1>0. UsedInv
  BY HostFacts, Zenon DEF OpenInv
<1>1. CASE OpenRefused \/ Retry \/ ReplaySkip \/ ReplayApply
  <2>1. /\ pc \in {"closed", "refused", "replay"} /\ pc' \in {"closed", "refused", "replay"}
        /\ UNCHANGED <<slotDisk, walDisk, delta, promise>>
    BY <1>1, Zenon DEF OpenRefused, Retry, ReplaySkip, ReplayApply, disk, memory, ghost
  <2> QED
    BY <2>1, PhaseIs, RecoveredFrame, Zenon DEF Seen, Shut
<1>2. CASE OpenLoad \/ OpenInit
  <2>1. /\ pc = "closed" /\ pc' \in {"replay", "recovered"} /\ delta' = Barrier
        /\ UNCHANGED <<slotDisk, walDisk, promise>>
    BY <1>2, ZenonT(60) DEF OpenLoad, OpenInit, disk, ghost
  <2>2. delta = Barrier
    BY <1>0, <2>1 DEF UsedInv, Busy
  <2> QED
    BY <2>1, <2>2, PhaseIs, RecoveredFrame, ZenonT(60) DEF Seen, Shut, Attaching
<1>3. CASE ReplayEnd
  <2>1. /\ pc = "replay" /\ pc' = "recovered" /\ UNCHANGED <<delta, promise, hist>>
    BY <1>3, Zenon DEF ReplayEnd, ghost
  <2>2. PICK n \in 0..MaxSeq : At(n) /\ At(n)'
    <3>1. PICK m \in Slots, n \in 0..MaxSeq, len \in 0..Len(walDisk) :
            \E c \in 0..len : Inv(m, n, c, len)
      BY Zenon DEF IInv
    <3>2. PICK c \in 0..len : Inv(m, n, c, len)
      BY <3>1, Zenon
    <3>3. Known(m, n, c, len)
      BY <3>2, Zenon DEF Known, IInv
    <3>4. At(n)'
      BY <1>3, <3>3, ReplayStep, ReplayEndStep, Zenon
    <3> QED
      BY <3>2, <3>4, Zenon DEF At
  <2>3. Recovered' = Recovered
    BY <2>1, <2>2, RecoveredIs, Zenon
  <2> QED
    BY <2>1, <2>3, PhaseIs, Zenon DEF Seen, Shut, Attaching
<1>4. CASE QuarantineFails
  BY <1>4, HostFacts, Zenon DEF QuarantineFails, IInv
<1> QED
  BY <1>1, <1>2, <1>3, <1>4, Zenon DEF Open, Replay

\* The slots and the log stand for the same barrier after a step of the markers,
\* and after a directory sync.
LEMMA MarksRecovered ==
  ASSUME Reliable, OpenInv, OpenInv', IInv, UNCHANGED <<hist, host>>,
         \/ RecoverIncomplete \/ Restore \/ MarkInitialized \/ MarkAttached \/ MarkSync
         \/ OpenFails \/ Clean
  PROVE  Recovered' = Recovered
<1>1. PICK m \in Slots, n \in 0..MaxSeq, len \in 0..Len(walDisk) :
        \E c \in 0..len : Inv(m, n, c, len)
  BY Zenon DEF IInv
<1>2. PICK c \in 0..len : Inv(m, n, c, len)
  BY <1>1, Zenon
<1>3. Known(m, n, c, len)
  BY <1>2, Zenon DEF Known, IInv, OpenInv
<1>4. At(n)'
  <2>1. CASE RecoverIncomplete \/ Restore \/ MarkInitialized \/ MarkAttached \/ MarkSync
    <3>1. pc \in Attaching
      BY <2>1, Zenon
      DEF RecoverIncomplete, Restore, MarkInitialized, MarkAttached, MarkSync, Attaching, Restored
    <3> QED
      BY <1>3, <2>1, <3>1, MarksStep, ZenonT(60)
  <2>2. CASE OpenFails \/ Clean
    BY <1>3, <2>2, ClosingStep, ZenonT(60)
  <2> QED
    BY <2>1, <2>2, Zenon
<1>5. At(n)
  BY <1>2, Zenon DEF At
<1> QED
  BY <1>4, <1>5, RecoveredIs, ZenonT(60)

\* The markers around an attachment, handing it out, and giving it up.
LEMMA AttachmentImplements ==
  ASSUME Reliable, OpenInv, OpenInv', IInv, IInv', UNCHANGED host, Attachment \/ Clean
  PROVE  DS!Next \/ UNCHANGED Seen
<1>0. promise \in SUBSET State /\ UsedInv
  BY HostFacts, Zenon DEF OpenInv, TypeOK
<1>1. CASE RecoverIncomplete \/ MarkInitialized \/ MarkAttached \/ MarkSync \/ MarkClean
  <2>1. UNCHANGED <<delta, promise, hist>>
    BY <1>1, Zenon
    DEF RecoverIncomplete, MarkInitialized, MarkAttached, MarkSync, MarkClean, memory, ghost
  <2>2. pc \in Shut /\ pc' \in Shut
    BY <1>1, Zenon
    DEF RecoverIncomplete, MarkInitialized, MarkAttached, MarkSync, MarkClean, Shut, Attaching,
        Restored, Closing
  <2>3. Recovered' = Recovered
    BY <1>1, <2>1, MarksRecovered, Zenon DEF Clean
  <2> QED
    BY <2>1, <2>2, <2>3, PhaseIs, Zenon DEF Seen
<1>2. CASE OpenFails \/ CleanSync \/ CleanFails
  <2>1. pc' = "closed" /\ delta' = Barrier /\ UNCHANGED <<promise, hist>>
    BY <1>2, Zenon DEF OpenFails, CleanSync, CleanFails, Detach, ghost
  <2>2. pc \in {"replay"} \cup Attaching \cup Closing
    BY <1>2, Zenon DEF OpenFails, CleanSync, CleanFails, Attaching, Restored, Closing
  <2>3. Recovered' = Recovered
    BY <1>2, <2>1, MarksRecovered, ZenonT(60) DEF Clean
  <2>4. delta = Barrier
    BY <1>0, <2>2 DEF UsedInv, Attaching, Restored, Closing, Busy
  <2> QED
    BY <2>1, <2>2, <2>3, <2>4, PhaseIs, ZenonT(60) DEF Seen, Shut
<1>3. CASE Restore /\ op # "init"
  <2>1. pc = "opened" /\ pc' = "restored" /\ UNCHANGED <<delta, promise, hist>>
    BY <1>3, Zenon DEF Restore, ghost
  <2>3. Recovered' = Recovered
    BY <1>3, <2>1, MarksRecovered, ZenonT(60)
  <2> QED
    BY <2>1, <2>3, PhaseIs, Zenon DEF Seen, Shut, Attaching, Restored
<1>4. CASE Restore /\ op = "init"
  <2>0. pc = "opened" /\ pc' = "append" /\ UNCHANGED <<slotDisk, walDisk, promise, delta>>
    BY <1>4, Zenon DEF Restore, disk, ghost
  <2>1. delta' = Barrier
    BY <1>0, <1>4, <2>0, ZenonT(60) DEF UsedInv
  <2>2. Phase = "closed" /\ Phase' = "busy"
    BY <2>0, PhaseIs, Zenon DEF Busy, Shut, Attaching
  <2>3. promise' = promise \cup {DS!After(s, delta') : s \in promise}
    BY <1>0, <2>0, <2>1, BarrierKeeps, SameOperators, Zenon
  <2>4. DS!Begin
    BY <2>0, <2>1, <2>2, <2>3, RecoveredFrame, SameOperators, Zenon DEF DS!Begin
  <2> QED
    BY <2>4, Zenon DEF DS!Next
<1>5. CASE Attach
  <2>1. /\ pc = "dirtied" /\ pc' = "attached"
        /\ promise' \in {promise, promise \cap {durable}} /\ UNCHANGED <<delta, durable>>
    BY <1>5, Zenon DEF Attach, memory
  <2>2. Recovered = durable /\ Recovered' = durable
    BY <2>1, RecoveredDurable, Zenon DEF Attaching, Restored
  <2>3. Phase = "closed" /\ Phase' = "idle"
    BY <2>1, PhaseIs, Zenon DEF Shut, Attaching, Restored
  <2>4. durable \in promise
    <3>1. PICK n \in 0..MaxSeq : At(n)
      BY Zenon DEF IInv, At
    <3> QED
      BY <2>2, <3>1, RecoveredIs, Zenon
  <2>5. promise \cap {durable} = {Recovered}
    BY <2>2, <2>4, Zenon
  <2>6. DS!Open
    BY <2>1, <2>2, <2>3, <2>5, ZenonT(60) DEF DS!Open
  <2> QED
    BY <2>6, Zenon DEF DS!Next
<1> QED
  BY <1>1, <1>2, <1>3, <1>4, <1>5, Zenon DEF Attachment, Clean

\* Mutations and the start of a barrier.
LEMMA BeginImplements ==
  ASSUME Reliable, OpenInv, OpenInv', Begin \/ \E k \in Keys, v \in Values : Mutate(k, v)
  PROVE  DS!Next \/ UNCHANGED Seen
<1>0. promise \in SUBSET State /\ delta' \in Delta
  BY Zenon DEF OpenInv, TypeOK
<1>1. CASE \E k \in Keys, v \in Values : Mutate(k, v)
  <2>1. pc' = pc /\ UNCHANGED <<slotDisk, walDisk, delta, promise>>
    BY <1>1, Zenon DEF Mutate, disk, ghost
  <2> QED
    BY <2>1, RecoveredFrame, Zenon DEF Seen, Phase
<1>2. CASE FsyncDirClean
  <2>1. /\ pc = "attached" /\ pc' = "maybe" /\ delta' = Barrier
        /\ UNCHANGED <<slotDisk, walDisk, promise>>
    BY <1>2, Zenon DEF FsyncDirClean, disk, ghost
  <2>2. Phase = "idle" /\ Phase' = "busy"
    BY <2>1, PhaseIs, Zenon DEF Busy
  <2>3. promise' = promise \cup {DS!After(s, delta') : s \in promise}
    BY <1>0, <2>1, BarrierKeeps, SameOperators, Zenon
  <2>4. DS!Begin
    BY <1>0, <2>1, <2>2, <2>3, RecoveredFrame, SameOperators, ZenonT(60) DEF DS!Begin
  <2> QED
    BY <2>4, Zenon DEF DS!Next
<1>3. ASSUME NEW name, NEW d, Start(name, d) PROVE DS!Next
  <2>1. /\ pc = "attached" /\ pc' = "append" /\ delta' = d
        /\ promise' = promise \cup {Apply(s, d) : s \in promise}
        /\ UNCHANGED <<slotDisk, walDisk>>
    BY <1>3, Zenon DEF Start, disk
  <2>2. Phase = "idle" /\ Phase' = "busy"
    BY <2>1, PhaseIs, Zenon DEF Busy
  <2>3. promise' = promise \cup {DS!After(s, delta') : s \in promise}
    BY <2>1, SameOperators, Zenon
  <2>4. DS!Begin
    BY <1>0, <2>1, <2>2, <2>3, RecoveredFrame, SameOperators, ZenonT(60) DEF DS!Begin
  <2> QED
    BY <2>4, Zenon DEF DS!Next
<1> QED
  BY <1>1, <1>2, <1>3, ZenonT(60) DEF Begin, Fsync, FsyncDir, SyncFS, Close

\* A step that fails.
LEMMA FailImplements ==
  ASSUME Fail, pc \in Busy, UNCHANGED <<slotDisk, walDisk>>
  PROVE  DS!Next
<1>1. pc' \in {"closed", "attached"} /\ delta' = Barrier /\ UNCHANGED promise
  BY Zenon DEF Fail, Detach, Resume, ghost
<1>2. Phase = "busy" /\ Phase' \in {"idle", "closed"}
  BY <1>1, PhaseIs, Zenon DEF Shut
<1>3. DS!Fail
  BY <1>1, <1>2, RecoveredFrame, SameOperators, Zenon DEF DS!Fail, DS!Stop
<1> QED
  BY <1>3, Zenon DEF DS!Next

\* A barrier that is acknowledged had taken effect before.
LEMMA AcknowledgeImplements ==
  ASSUME Reliable, OpenInv, IInv, pc \in {"maybe", "truncated"}, Acknowledge,
         pc' \in {"clean", "restored", "attached"}, delta' = Barrier, Recovered' = Recovered
  PROVE  DS!Next
<1>1. pc \in Busy
  BY Zenon DEF Busy
<1>2. Recovered = durable
  BY <1>1, RecoveredDurable, Zenon
<1>3. Apply(durable, delta) = durable
  <2>1. pc \in Committed
    BY Zenon DEF Committed
  <2> QED
    BY <1>1, <2>1, ZenonT(60) DEF IInv, Inv, MemoryInv, AttachedInv
<1>4. Phase = "busy" /\ Phase' \in {"idle", "closed"}
  BY <1>1, PhaseIs, Zenon DEF Shut, Attaching, Restored, Closing
<1>5. Recovered = DS!After(Recovered, delta)
  BY <1>2, <1>3, SameOperators, Zenon
<1>6. promise' = {DS!After(s, delta) : s \in promise}
  BY SameOperators, Zenon DEF Acknowledge
<1>7. DS!Stop
  BY <1>4, SameOperators, Zenon DEF DS!Stop
<1> QED
  BY <1>5, <1>6, <1>7, Zenon DEF DS!Acknowledge, DS!Next

\* Appending a record and what follows it: the sync commits.
LEMMA AppendImplements ==
  ASSUME Reliable, OpenInv, OpenInv', IInv, IInv', AppendDelta \/ Settle
  PROVE  DS!Next \/ UNCHANGED Seen
<1>1. CASE AppendFails \/ ReclaimFails
  <2>1. Fail /\ UNCHANGED <<slotDisk, walDisk>> /\ pc \in {"append", "maybe"}
    BY <1>1, Zenon DEF AppendFails, ReclaimFails
  <2>2. pc \in Busy
    BY <2>1, Zenon DEF Busy
  <2> QED
    BY <2>1, <2>2, FailImplements, Zenon
<1>2. CASE AppendTears \/ AppendSyncFails
  BY <1>2, HostFacts, Zenon DEF AppendTears, AppendSyncFails, IInv
<1>3. CASE AppendWrite \/ Compact
  <2>1. /\ pc \in {"append", "maybe"} /\ pc' \in {"written", "save"}
        /\ UNCHANGED <<slotDisk, walDisk, delta, promise>>
    BY <1>3, Zenon DEF AppendWrite, Compact, disk, memory, ghost
  <2>2. Phase = "busy" /\ Phase' = "busy"
    BY <2>1, PhaseIs, Zenon DEF Busy
  <2> QED
    BY <2>1, <2>2, RecoveredFrame, Zenon DEF Seen
<1>4. CASE AppendSync
  <2>1. /\ pc = "written" /\ pc' \in {"save", "maybe"}
        /\ durable' = Apply(durable, delta) /\ UNCHANGED <<delta, promise>>
    BY <1>4, Zenon DEF AppendSync, ghost
  <2>2. pc \in Busy /\ pc' \in Busy
    BY <2>1, Zenon DEF Busy
  <2>3. Recovered = durable /\ Recovered' = durable'
    BY <2>2, RecoveredDurable, Zenon
  <2>4. Phase = "busy" /\ Phase' = "busy"
    BY <2>2, PhaseIs, Zenon
  <2>5. DS!Commit
    BY <2>1, <2>3, <2>4, SameOperators, Zenon DEF DS!Commit
  <2> QED
    BY <2>5, Zenon DEF DS!Next
<1>5. CASE Return
  <2>1. /\ pc = "maybe" /\ Acknowledge /\ pc' = "attached" /\ delta' = Barrier
        /\ UNCHANGED <<slotDisk, walDisk>>
    BY <1>5, Zenon DEF Return, Resume, disk
  <2> QED
    BY <2>1, RecoveredFrame, AcknowledgeImplements, Zenon
<1> QED
  BY <1>1, <1>2, <1>3, <1>4, <1>5, Zenon DEF AppendDelta, Settle

\* Saving a snapshot and resetting the log do not change what is stored.
LEMMA SaveImplements ==
  ASSUME Reliable, OpenInv, OpenInv', IInv, IInv', Save \/ Reset
  PROVE  DS!Next \/ UNCHANGED Seen
<1>1. CASE StageFails \/ PublishFails \/ ResetFails
  <2>1. Fail /\ UNCHANGED <<slotDisk, walDisk>> /\ pc \in {"save", "removed", "saved", "truncated"}
    BY <1>1, HostFacts, Zenon DEF StageFails, PublishFails, ResetFails, Replacing, IInv
  <2>2. pc \in Busy
    BY <2>1, Zenon DEF Busy
  <2> QED
    BY <2>1, <2>2, FailImplements, Zenon
<1>2. CASE DirSyncFails
  BY <1>2, HostFacts, Zenon DEF DirSyncFails, IInv
<1>3. CASE RemoveSlot \/ Publish \/ ResetTruncate
  <2>1. /\ pc \in {"save", "removed", "saved"} /\ pc' \in {"removed", "published", "truncated"}
        /\ UNCHANGED <<slotDisk, walDisk, delta, promise>>
    BY <1>3, Zenon DEF RemoveSlot, Publish, ResetTruncate, Replacing, names, memory, ghost
  <2>2. Phase = "busy" /\ Phase' = "busy"
    BY <2>1, PhaseIs, Zenon DEF Busy
  <2> QED
    BY <2>1, <2>2, RecoveredFrame, Zenon DEF Seen
<1>4. CASE DirSync
  <2>1. /\ pc = "published" /\ pc' = "saved" /\ durable' = Saved.state
        /\ UNCHANGED <<delta, promise>>
    BY <1>4, Zenon DEF DirSync, ghost
  <2>2. pc \in Busy /\ pc' \in Busy /\ pc \in Committed
    BY <2>1, Zenon DEF Busy, Committed
  <2>3. Final => live = durable
    BY <2>2, ZenonT(60) DEF IInv, Inv, MemoryInv, AttachedInv
  <2>4. Saved.state = durable
    BY <2>3 DEF Saved
  <2>5. Recovered = durable /\ Recovered' = durable'
    BY <2>2, RecoveredDurable, Zenon
  <2>6. Phase = "busy" /\ Phase' = "busy"
    BY <2>2, PhaseIs, Zenon
  <2> QED
    BY <2>1, <2>4, <2>5, <2>6, Zenon DEF Seen
<1>5. CASE ResetSync
  <2>1. /\ pc = "truncated" /\ Acknowledge /\ pc' \in {"clean", "restored", "attached"}
        /\ delta' = Barrier /\ UNCHANGED hist
    BY <1>5, Zenon DEF ResetSync
  <2>2. PICK n \in 0..MaxSeq : At(n) /\ At(n)'
    <3>1. PICK m \in Slots, n \in 0..MaxSeq, len \in 0..Len(walDisk) :
            \E c \in 0..len : Inv(m, n, c, len)
      BY Zenon DEF IInv
    <3>2. PICK c \in 0..len : Inv(m, n, c, len)
      BY <3>1, Zenon
    <3>3. Known(m, n, c, len)
      BY <3>2, Zenon DEF Known, IInv
    <3>4. At(n)'
      BY <1>5, <3>3, ResetSyncStep, Zenon
    <3> QED
      BY <3>2, <3>4, Zenon DEF At
  <2>3. Recovered' = Recovered
    BY <2>1, <2>2, RecoveredIs, Zenon
  <2> QED
    BY <2>1, <2>3, AcknowledgeImplements, Zenon
<1> QED
  BY <1>1, <1>2, <1>3, <1>4, <1>5, Zenon DEF Save, Reset

\* A power failure keeps what is stored, with or without the barrier in progress.
LEMMA PowerImplements ==
  ASSUME Reliable, OpenInv, OpenInv', IInv, IInv', PowerFailure
  PROVE  DS!Next
<1>1. pc' = "closed" /\ delta' = Barrier /\ UNCHANGED <<promise, hist>>
  BY Zenon DEF PowerFailure, Crash, Detach
<1>2. PICK m \in Slots, n \in 0..MaxSeq, len \in 0..Len(walDisk) :
        \E c \in 0..len : Inv(m, n, c, len)
  BY Zenon DEF IInv
<1>3. PICK c \in 0..len : Inv(m, n, c, len)
  BY <1>2, Zenon
<1>4. Known(m, n, c, len) /\ At(n)
  BY <1>3, Zenon DEF Known, IInv, At
<1>5. PICK nn \in 0..MaxSeq : At(nn)' /\ (hist[nn] = hist[n] \/ hist[nn] = Apply(hist[n], delta))
  BY <1>4, PowerFailureStep, Zenon
<1>6. Recovered = hist[n] /\ Recovered' = hist[nn]
  BY <1>1, <1>4, <1>5, RecoveredIs, Zenon
<1>7. Phase' = "closed"
  BY <1>1, PhaseIs, Zenon DEF Shut
<1>8. Recovered' \in {Recovered, DS!After(Recovered, delta)}
  BY <1>5, <1>6, SameOperators, Zenon
<1> QED
  BY <1>1, <1>7, <1>8, SameOperators, Zenon DEF DS!PowerFailure, DS!Next

\* Initially the store is empty, and that is all that is promised.
LEMMA InitImplements == Init => DS!Init
<1> SUFFICES ASSUME Init PROVE DS!Init
  OBVIOUS
<1>1. slotDisk \in [Slots -> Snapshot] /\ \A i \in Slots : slotDisk[i] = None
  BY Zenon, TypeInit DEF TypeOK, Init
<1>2. slotDisk[Newest(slotDisk)] = None
  <2>1. 0 \in Slots /\ 1 - 0 \in Slots
    BY DEF Slots
  <2>2. Older(slotDisk[1 - 0], slotDisk[0].seq)
    BY <1>1, <2>1, Zenon DEF Older
  <2>3. slotDisk[Newest(slotDisk)] = slotDisk[0]
    BY <1>1, <2>1, <2>2, NewestIs, Zenon
  <2> QED
    BY <1>1, <2>1, <2>3, Zenon
<1>3. Recovered = Empty
  <2>1. None.state = Empty
    BY DEF None
  <2> QED
    BY <1>2, <2>1, Zenon DEF Recovered, Opened, Empty
<1>4. pc = "closed" /\ delta = Barrier /\ promise = {Empty}
  BY Zenon DEF Init
<1>5. Phase = "closed"
  BY <1>4, PhaseIs, Zenon DEF Shut
<1> QED
  BY <1>3, <1>4, <1>5, SameOperators, Zenon DEF DS!Init, Empty

\* Every step is one of the abstract store, or none.
LEMMA StepImplements ==
  ASSUME Reliable, OpenInv, OpenInv', IInv, IInv', [Next]_vars
  PROVE  DS!Next \/ UNCHANGED Seen
<1>1. CASE UNCHANGED vars
  BY <1>1, RecoveredFrame, Zenon DEF Seen, Phase, vars
<1>2. CASE ProcessCrash
  BY <1>2, HostFacts, Zenon DEF ProcessCrash, IInv
<1>3. CASE Next /\ ~ProcessCrash
  BY <1>3, OpenImplements, AttachmentImplements, BeginImplements, AppendImplements, SaveImplements,
     PowerImplements, ZenonT(60) DEF Next, Step
<1> QED
  BY <1>1, <1>2, <1>3, Zenon

\* The write-ahead log, the two slots, their syncs and renames, the replay and
\* the compaction implement a store whose barriers are atomic: each takes effect
\* at once, when appendDelta's sync returns, or, if the power fails before, at
\* once or not at all; it is acknowledged only after it took effect; and nothing
\* else ever changes what is stored.
THEOREM ImplementsCorrect == Reliable /\ Spec => Implements
<1>1. Init => DS!Init
  BY InitImplements
<1>2. CASE Reliable
  <2>1. OpenInv /\ OpenInv' /\ IInv /\ IInv' /\ [Next]_vars
          => [DS!Next]_<<Recovered, Phase, delta, promise>>
    BY <1>2, StepImplements, Zenon DEF Seen
  <2>2. Spec => []OpenInv
    BY OpenInvInit, OpenInvStep, PTL DEF Spec
  <2>3. Spec => []IInv
    BY <1>2, InvCorrect, PTL
  <2> QED
    BY <1>1, <2>1, <2>2, <2>3, PTL DEF Spec, Implements, DS!Spec
<1>3. CASE ~Reliable
  BY <1>3, Zenon
<1> QED
  BY <1>2, <1>3, Zenon
=============================================================================
