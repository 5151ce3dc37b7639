-------------------------- MODULE PersistentStore --------------------------
(***************************************************************************)
(* The commit protocol implements the atomic DurableStore: what recovery    *)
(* would read from stable storage changes in one step per barrier.          *)
(***************************************************************************)
EXTENDS PersistentWAL

\* load on slots s: the valid one with the highest sequence, slot 0 on a tie.
Newest(s) ==
  CHOOSE i \in Slots : \A j \in Slots :
    s[j] # None => /\ s[i] # None
                   /\ s[j].seq < s[i].seq \/ (s[j].seq = s[i].seq /\ i <= j)

\* replayWAL on log w over a snapshot with sequence s: the sequence number it
\* has reached before record p, and whether it goes on with that record, which
\* has to be intact and the next in order, or covered like all before it.
Reached(w, s, p) == IF p = 1 \/ w[p - 1].seq <= s THEN s ELSE w[p - 1].seq

GoesOn(w, s, p) ==
  /\ w[p] # Torn
  /\ \/ w[p].seq = Reached(w, s, p) + 1
     \/ w[p].seq <= s /\ Reached(w, s, p) = s

\* The records it applies to key k.  The last of them wins.
Applied(w, s, k) ==
  {p \in 1..Len(w) : /\ s < w[p].seq /\ k \in DOMAIN w[p].delta
                     /\ \A q \in 1..p : GoesOn(w, s, q)}

Last(P) == CHOOSE p \in P : \A q \in P : q <= p

\* What opening a store yields; a log without a snapshot is not replayed.
Opened(snapshot, w) ==
  [k \in Keys |->
     LET P == Applied(w, snapshot.seq, k)
     IN IF snapshot = None \/ P = {} THEN snapshot.state[k] ELSE w[Last(P)].delta[k]]

Recovered == Opened(slotDisk[Newest(slotDisk)], walDisk)

Phase ==
  CASE pc \in {"closed", "refused", "replay"} \cup Attaching \cup Closing -> "closed"
    [] pc = "attached" -> "idle"
    [] OTHER -> "busy"

DS == INSTANCE DurableStore
        WITH store <- Recovered, phase <- Phase, request <- delta, promised <- promise

\* Every step of the protocol is a step of the atomic store or changes nothing
\* that a caller or a power failure could tell: appendDelta's sync commits,
\* compaction and replay do not change what is stored.
Implements == DS!Spec

\* What a power failure right now would bring back is a promised state, at
\* every step of a barrier and not only when the store is attached.
AlwaysRecoverable == DS!Kept

-----------------------------------------------------------------------------
(* What opening the store finds on a sheltered host. *)

\* A slot that stays: a power failure on POSIX leaves it too.
Stored(i) == slot[i] # None /\ (Windows \/ slotDisk[i] # None)

\* A used store has a slot that stays.  On POSIX a stable snapshot is only ever
\* replaced by another, and nothing is promised before the first one.
SlotsInv ==
  /\ used => \E i \in Slots : Stored(i)
  /\ ~Windows => \A i \in Slots : slotDisk[i] # None => slot[i] # None
  /\ ~Windows /\ (\A i \in Slots : slotDisk[i] = None) => promise = {Empty}

\* An attachment reads from a slot that stays.  Until the first snapshot is
\* stable there is only the empty barrier of a store that is being created.
UsedInv ==
  /\ pc = "refused" => \A i \in Slots : slot[i] = None
  /\ pc \in {"replay"} \cup Restored => slot[metadataSlot] # None
  /\ pc \in Attaching /\ op # "init" => slot[metadataSlot] # None
  /\ pc \in {"attached", "saved", "truncated"} => Stored(metadataSlot)
  /\ pc \in Busy /\ op # "init" => Stored(metadataSlot)
  /\ pc \in Attaching \cup {"append", "written", "save", "removed", "published"} /\ op = "init" =>
       ~used /\ (~Windows => \A i \in Slots : slotDisk[i] = None)
  /\ pc \in Attaching /\ op = "init" => \A i \in Slots : slot[i] = None
  /\ pc = "published" => slot[1 - metadataSlot] # None
  /\ pc = "maybe" => op # "init"
  /\ pc \in Attaching => op \in {"none", "init"} /\ delta = Barrier
  /\ op = "init" => delta = Barrier
  /\ pc \notin {"recovered", "renamed", "opened"} \cup Busy => op = "none" /\ delta = Barrier

\* What opening the store relies on.
OpenInv == TypeOK /\ (Sheltered => SlotsInv /\ UsedInv)
=============================================================================
