--------------------------- MODULE PersistentData ---------------------------
(***************************************************************************)
(* The contents of one regular file of the persistent image store.          *)
(*                                                                          *)
(* The bytes live in a host file named after the inode, written in place;   *)
(* the inode record (size, which pages the host file holds, whether the     *)
(* rest comes from the lower image) lives in the metadata log.  A barrier   *)
(* first syncs the bytes, then commits the record, then shortens the host   *)
(* file to the size a truncation left (pendingTrim).                        *)
(*                                                                          *)
(* The record's commit is one step here: PersistentWAL models the log.      *)
(* The host file has a visible contents (file) and a stable one (fileDisk); *)
(* syncing it makes its name stable too, as on POSIX (on Windows            *)
(* syncPersistentDirectory does nothing).                                   *)
(***************************************************************************)
EXTENDS Integers, Sequences

CONSTANTS
  PageSize,    \* imageDataPageSize
  MaxSize,     \* bound on file sizes
  Lower,       \* the file's contents in the lower image; <<>> for a new file
  Gaps,        \* a write may start beyond the end of the file
  Grows,       \* a truncation may enlarge the file
  CrashModes   \* the sets of ways an attachment may end other than by a clean Close

ASSUME PageAssumption == PageSize \in Nat \ {0} /\ MaxSize \in Nat
ASSUME LowerAssumption == Lower \in Seq({0, 1}) /\ Len(Lower) <= MaxSize
ASSUME ClientAssumption == Gaps \in BOOLEAN /\ Grows \in BOOLEAN
ASSUME CrashesAssumption == CrashModes \subseteq SUBSET {"process", "power", "unsynced"}

Byte == {0, 1}
Sizes == 0 .. MaxSize
NoTrim == -1
EIO == -1      \* what a read that the host file cannot satisfy returns

Page(off) == off \div PageSize
Pages == {Page(off) : off \in Sizes}
PagesBelow(size) == {p \in Pages : p * PageSize < size}
Larger(a, b) == IF a > b THEN a ELSE b
Smaller(a, b) == IF a < b THEN a ELSE b

Bytes == UNION {[1 .. n -> Byte] : n \in Sizes}
HostFile == [there : BOOLEAN, bytes : Bytes]
NoFile == [there |-> FALSE, bytes |-> <<>>]
Node == [size : Sizes, pages : SUBSET Pages, lower : BOOLEAN]

VARIABLES
  file, fileDisk,  \* the inode's data file: visible and stable contents
  node,            \* the inode in memory (imageNode)
  trim,            \* pendingTrim of the inode
  dirty,           \* the inode is in dirtyData
  meta,            \* the inode record the store would recover
  pc,              \* down, idle, or where the running barrier is
  op,              \* the running barrier
  crashes,         \* how attachments may end in this behaviour
  ideal,           \* ghost: the contents POSIX gives the file
  changed          \* ghost: contents changed since the last barrier or Open

vars == <<file, fileDisk, node, trim, dirty, meta, pc, op, crashes, ideal, changed>>

\* The byte at index i of bytes, zero beyond its end.
At(bytes, i) == IF i <= Len(bytes) THEN bytes[i] ELSE 0
Resize(bytes, n) == [i \in 1 .. n |-> At(bytes, i)]
Overwrite(bytes, off, n, v) ==
  [i \in 1 .. Larger(Len(bytes), off + n) |->
     IF off < i /\ i <= off + n THEN v ELSE At(bytes, i)]

\* What Read returns for the whole file: readData over the lower contents.
Contents(nd, f) ==
  [i \in 1 .. nd.size |->
     IF Page(i - 1) \in nd.pages
       THEN IF i <= Len(f.bytes) THEN f.bytes[i] ELSE EIO
       ELSE IF nd.lower THEN At(Lower, i) ELSE 0]

\* A file nothing has been recorded of: the lower file, or an empty new one.
Fresh == [size |-> Len(Lower), pages |-> {}, lower |-> TRUE]

Init ==
  /\ file = NoFile /\ fileDisk = NoFile
  /\ node = Fresh /\ meta = Fresh
  /\ trim = NoTrim /\ dirty = FALSE
  /\ pc = "idle" /\ op = "none"
  /\ crashes \in CrashModes
  /\ ideal = Lower /\ changed = FALSE

-----------------------------------------------------------------------------
\* materializeLowerFile: the lower pages up to last that hold a nonzero byte
\* and are not in the upper file yet are copied.
LowerPages(last) ==
  {p \in Pages : p <= last /\ \E i \in 1 .. Len(Lower) : Page(i - 1) = p /\ Lower[i] # 0}
CopyLower(f, last) ==
  LET copied == {i \in 1 .. Len(Lower) : Page(i - 1) \in LowerPages(last) \ node.pages}
      end == CHOOSE n \in 0 .. Len(Lower) : copied \subseteq 1 .. n /\ (n = 0 \/ n \in copied)
  IN  [there |-> f.there \/ Lower # <<>>,
       bytes |-> [i \in 1 .. Larger(Len(f.bytes), end) |->
                    IF i \in copied THEN Lower[i] ELSE At(f.bytes, i)]]

LastPage == Page(MaxSize)
Upper == IF node.lower THEN CopyLower(file, LastPage) ELSE file
UpperPagesForgotten == node.pages
UpperPages == node.pages \cup (IF node.lower THEN LowerPages(LastPage) ELSE {})

\* WriteForCaller: n bytes v at offset off.  A write the host cuts short
\* after some bytes is a write of those bytes.
Write(off, n, v) ==
  /\ pc = "idle" /\ off + n <= MaxSize
  /\ Gaps \/ off <= node.size
  /\ file' = [there |-> TRUE, bytes |-> Overwrite(Upper.bytes, off, n, v)]
  /\ node' = [size |-> Larger(node.size, off + n),
              pages |-> UpperPages \cup {Page(i) : i \in off .. off + n - 1},
              lower |-> FALSE]
  /\ trim' = IF trim = NoTrim THEN NoTrim ELSE Larger(trim, off + n)
  /\ dirty' = TRUE /\ changed' = TRUE
  /\ ideal' = Overwrite(ideal, off, n, v)
  /\ UNCHANGED <<fileDisk, meta, pc, op>>

\* A write or truncation whose copy of the lower file stops after page last.
CopyFails(last) ==
  /\ pc = "idle" /\ node.lower /\ Lower # <<>>
  /\ file' = CopyLower(file, last)
  /\ node' = [node EXCEPT !.pages = @ \cup LowerPages(last)]
  /\ dirty' = (dirty \/ LowerPages(last) \ node.pages # {})
  /\ UNCHANGED <<fileDisk, trim, meta, pc, op, ideal, changed>>

\* truncateData zeroes the rest of the page an earlier truncation cut, when
\* the file grows past that cut.
ZeroCut(bytes, pages, size) ==
  LET end == Smaller(size, (Page(trim) + 1) * PageSize)
  IN  IF trim # NoTrim /\ size > trim /\ end > trim /\ Page(trim) \in pages
        THEN Overwrite(bytes, trim, end - trim, 0)
        ELSE bytes

\* truncateData drops the extents beyond the new end.
KeptPagesAll(pages, size) == pages
KeptPages(pages, size) == pages \cap PagesBelow(size)

\* SetAttrForCaller with a size.
Truncate(size) ==
  /\ pc = "idle"
  /\ Grows \/ size <= node.size
  /\ LET copy == node.lower /\ size # 0
         base == IF copy THEN Upper ELSE file
         pages == IF copy THEN UpperPages ELSE node.pages
     IN  /\ file' = [base EXCEPT !.bytes = ZeroCut(@, pages, size)]
         /\ node' = [size |-> size, pages |-> KeptPages(pages, size), lower |-> FALSE]
  /\ trim' = size
  /\ dirty' = TRUE /\ changed' = TRUE
  /\ ideal' = Resize(ideal, size)
  /\ UNCHANGED <<fileDisk, meta, pc, op>>

-----------------------------------------------------------------------------
\* Fsync syncs the data file whatever its state; SyncFS and Close sync it
\* when it is dirty.  Mutations are locked out until the barrier returns.
Synced(o) == IF o = "fsync" \/ dirty THEN file ELSE fileDisk

SyncData(o) ==
  /\ pc = "idle"
  /\ fileDisk' = Synced(o)
  /\ dirty' = FALSE
  /\ pc' = "commit" /\ op' = o
  /\ UNCHANGED <<file, node, trim, meta, ideal, changed>>

\* syncData, syncDirtyData: an error ends the barrier and the file stays dirty.
\* Close ("unsynced") gives the attachment up all the same.
SyncFailsCleans(o) ==
  /\ pc = "idle" /\ (o = "close" => "unsynced" \in crashes)
  /\ dirty' = FALSE
  /\ pc' = (IF o = "close" THEN "down" ELSE "idle")
  /\ UNCHANGED <<file, fileDisk, node, trim, meta, op, ideal, changed>>

SyncFails(o) ==
  /\ pc = "idle" /\ (o = "close" => "unsynced" \in crashes)
  /\ pc' = (IF o = "close" THEN "down" ELSE "idle")
  /\ UNCHANGED <<file, fileDisk, node, trim, dirty, meta, op, ideal, changed>>

\* After Close the memory of the attachment is gone.
Finish == pc' = (IF op = "close" THEN "down" ELSE "idle") /\ op' = "none"

\* appendDelta reports an error before the record is in the log.
CommitFails ==
  /\ pc = "commit" /\ Finish
  /\ UNCHANGED <<file, fileDisk, node, trim, dirty, meta, ideal, changed>>

Commit ==
  /\ pc = "commit"
  /\ meta' = node
  /\ changed' = FALSE
  /\ pc' = "reclaim"
  /\ UNCHANGED <<file, fileDisk, node, trim, dirty, op, ideal>>

\* The reclamation, or the checkpoint that follows it, reports an error.
ReclaimFails ==
  /\ pc = "reclaim" /\ Finish
  /\ UNCHANGED <<file, fileDisk, node, trim, dirty, meta, ideal, changed>>

\* reclaimDurableFileData, reclaimDurableData: os.Truncate, never synced.
Reclaim ==
  /\ pc = "reclaim" /\ Finish
  /\ file' = IF trim # NoTrim /\ file.there
               THEN [file EXCEPT !.bytes = Resize(@, trim)] ELSE file
  /\ trim' = NoTrim
  /\ UNCHANGED <<fileDisk, node, dirty, meta, ideal, changed>>

\* FsyncDir: a dirty file keeps the data part of its durable record, or
\* falls back to the lower contents when it has none.
NamespaceRecord == IF dirty THEN meta ELSE node

FsyncDir ==
  /\ pc = "idle"
  /\ meta' = NamespaceRecord
  /\ UNCHANGED <<file, fileDisk, node, trim, dirty, pc, op, ideal, changed>>

-----------------------------------------------------------------------------
ProcessCrash ==
  /\ "process" \in crashes /\ pc # "down"
  /\ pc' = "down" /\ op' = "none"
  /\ UNCHANGED <<file, fileDisk, node, trim, dirty, meta, ideal, changed>>

\* What stable storage may hold after a power failure: every byte and the
\* length are the stable or the visible ones; an unsynced name may be lost.
Torn ==
  {f \in HostFile :
     /\ fileDisk.there => f.there
     /\ f.there => file.there
     /\ ~ f.there => f.bytes = <<>>
     /\ f.there => Len(f.bytes) \in {Len(file.bytes), Len(fileDisk.bytes)}
     /\ \A i \in 1 .. Len(f.bytes) : f.bytes[i] \in {At(file.bytes, i), At(fileDisk.bytes, i)}}

PowerFailure ==
  /\ "power" \in crashes /\ pc # "down"
  /\ \E f \in Torn : file' = f /\ fileDisk' = f
  /\ pc' = "down" /\ op' = "none"
  /\ UNCHANGED <<node, trim, dirty, meta, ideal, changed>>

\* The next attachment.  preserveUnreferencedData moves away a data file no
\* record refers to; restorePersistentNode rebuilds the inode.
Open ==
  /\ pc = "down"
  /\ LET f == IF meta.pages = {} THEN NoFile ELSE file
     IN  /\ file' = f
         /\ fileDisk' = IF meta.pages = {} THEN NoFile ELSE fileDisk
         /\ ideal' = IF changed THEN Contents(meta, f) ELSE ideal
  /\ node' = meta
  /\ trim' = NoTrim /\ dirty' = FALSE
  /\ pc' = "idle" /\ changed' = FALSE
  /\ UNCHANGED <<meta, op>>

Step ==
  \/ \E off \in Sizes, n \in 1 .. MaxSize, v \in Byte : Write(off, n, v)
  \/ \E p \in Pages : CopyFails(p)
  \/ \E size \in Sizes : Truncate(size)
  \/ \E o \in {"fsync", "syncfs", "close"} : SyncData(o) \/ SyncFails(o)
  \/ CommitFails \/ Commit \/ ReclaimFails \/ Reclaim
  \/ FsyncDir
  \/ ProcessCrash \/ PowerFailure
  \/ Open

Next == Step /\ UNCHANGED crashes

Spec == Init /\ [][Next]_vars

-----------------------------------------------------------------------------
\* The variables have their types.
TypeOK ==
  /\ file \in HostFile /\ fileDisk \in HostFile
  /\ node \in Node /\ meta \in Node
  /\ trim \in Sizes \cup {NoTrim} /\ dirty \in BOOLEAN
  /\ pc \in {"down", "idle", "commit", "reclaim"}
  /\ op \in {"none", "fsync", "syncfs", "close"}
  /\ crashes \in CrashModes
  /\ ideal \in UNION {[1 .. n -> Byte \cup {EIO}] : n \in Sizes}
  /\ changed \in BOOLEAN

\* Read never returns a byte the caller did not put there: while the file
\* system is attached, and again after a crash when nothing changed since the
\* last barrier or since the attachment was opened, the file has the size and
\* the bytes POSIX gives it (or the read fails).  A behaviour with power
\* failures has to be free of kills and of Closes that could not sync the data:
\* either leaves bytes that the next attachment shows, takes for clean and may
\* still lose.
FileContents ==
  pc # "down" =>
    LET c == Contents(node, file)
    IN  /\ Len(c) = Len(ideal)
        /\ \A i \in 1 .. Len(c) : c[i] \in {ideal[i], EIO}

\* Every byte below the file's size can be read: readData never runs past the
\* end of the data file, neither in an attachment nor in the one after a crash.
Readable ==
  pc # "down" => \A i \in 1 .. node.size : Contents(node, file)[i] # EIO

\* The record recovery would load passes restorePersistentNode's check of the
\* extents against the size, whichever barrier wrote it: a record that fails
\* it makes the whole store unopenable.
Restorable == meta.pages \subseteq PagesBelow(meta.size)
=============================================================================
