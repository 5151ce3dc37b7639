------------------------ MODULE PersistentDataProofs ------------------------
(***************************************************************************)
(* Proofs about the contents of a file of the persistent image store, for  *)
(* every page size, bound on sizes and lower file.                         *)
(*                                                                         *)
(* RecordInv is inductive for every client and every kind of crash: the    *)
(* pages of a record lie below its size.  It gives TypeCorrect and         *)
(* RestorableCorrect.  DataInv is inductive where Plain holds.  The record  *)
(* in memory over the data file shows what POSIX gives the file, the        *)
(* durable record over the same data file shows it too unless something     *)
(* changed since the last barrier, and where the power may fail the stable  *)
(* bytes show what the durable record needs.  FileContents and Readable     *)
(* follow.                                                                  *)
(*                                                                         *)
(* Every condition of Plain is needed.  TLC finds a behaviour that violates *)
(* FileContents when writes leave gaps, when truncations grow the file,     *)
(* when power failures happen beside kills or beside Closes that could not  *)
(* sync the data, and when the lower file has a page of zeros.              *)
(***************************************************************************)
EXTENDS PersistentData, TLAPS, WellFoundedInduction

\* What the file's contents are proved for: a client that writes without gaps
\* and grows no file by truncation, power failures only where no process is
\* killed and no Close gives up on a failed data sync, and a lower file without
\* a page of zeros, which materializeLowerFile leaves out.
Plain ==
  /\ ~Gaps /\ ~Grows
  /\ \A m \in CrashModes : "power" \in m => "process" \notin m /\ "unsynced" \notin m
  /\ PagesBelow(Len(Lower)) \subseteq LowerPages(LastPage)

\* The power may fail in this behaviour.
Power == "power" \in crashes

\* The bytes that a record places in the data file, and those it does not.
Held(nd) == {i \in 1 .. nd.size : Page(i - 1) \in nd.pages}
Else(nd, i) == IF nd.lower THEN At(Lower, i) ELSE 0

\* A record's pages lie below its size, and one that falls back to the lower
\* file has the lower file's size.
Sound(nd) == nd.pages \subseteq PagesBelow(nd.size) /\ (nd.lower => nd.size = Len(Lower))
\* Without gaps a record that does not fall back has every page.
Whole(nd) == nd.lower \/ PagesBelow(nd.size) \subseteq nd.pages

\* Data file f has every byte that record nd places in it.
Covers(f, nd) == \A i \in Held(nd) : i <= Len(f.bytes)

\* Record nd over data file f reads as c.
Shows(nd, f, c) ==
  /\ nd.size = Len(c)
  /\ Covers(f, nd)
  /\ \A i \in 1 .. nd.size : c[i] = IF i \in Held(nd) THEN f.bytes[i] ELSE Else(nd, i)

\* A data file without a name has no bytes.
Named(f) == f.there \/ f.bytes = <<>>

\* The types, and what a record promises of its pages and size.
RecordInv == TypeOK /\ Sound(node) /\ Sound(meta)

\* The attached file reads as POSIX says.
AttachedInv ==
  pc # "down" => /\ Shows(node, file, ideal)
                 /\ trim # NoTrim => trim = node.size

\* A barrier commits what it has synced.
BarrierInv ==
  /\ pc \in {"commit", "reclaim"} => ~dirty
  /\ pc = "reclaim" => meta = node

\* What the next attachment will read.
StoredInv ==
  /\ Covers(file, meta)
  /\ ~changed => Shows(meta, file, ideal)

\* What stable storage holds, where the power may fail.
PowerInv ==
  /\ Covers(fileDisk, meta)
  /\ ~changed => Shows(meta, fileDisk, ideal)
  /\ pc # "down" /\ ~dirty => Shows(node, fileDisk, ideal)
  /\ pc = "down" \/ ~dirty => \A i \in Held(meta) : fileDisk.bytes[i] = file.bytes[i]

\* Where Plain holds.
DataInv ==
  /\ RecordInv /\ Whole(node) /\ Whole(meta) /\ Named(file) /\ Named(fileDisk)
  /\ AttachedInv /\ BarrierInv /\ StoredInv /\ (Power => PowerInv)

-----------------------------------------------------------------------------
(* Pages and bytes. *)

\* A byte's page lies below every size that includes the byte.
LEMMA PageOf ==
  ASSUME NEW n \in Sizes, NEW i \in 1 .. n
  PROVE  Page(i - 1) \in PagesBelow(n)
<1>1. i - 1 \in Sizes /\ i - 1 \in Nat /\ i - 1 < n
  BY PageAssumption DEF Sizes
<1>2. Page(i - 1) * PageSize <= i - 1 /\ Page(i - 1) \in Nat
  BY <1>1, PageAssumption DEF Page
<1>3. Page(i - 1) * PageSize < n
  BY <1>1, <1>2, PageAssumption DEF Sizes
<1> QED
  BY <1>1, <1>3, Zenon DEF PagesBelow, Pages

\* A larger size has the pages of a smaller one.
LEMMA PagesGrow ==
  ASSUME NEW m \in Nat, NEW n \in Nat, m <= n
  PROVE  PagesBelow(m) \subseteq PagesBelow(n)
<1>1. \A p \in Pages : p * PageSize \in Nat
  BY PageAssumption DEF Pages, Page, Sizes
<1>2. \A p \in Pages : p * PageSize < m => p * PageSize < n
  BY <1>1
<1> QED
  BY <1>2, Zenon DEF PagesBelow

\* The pages that a write without a gap touches complete those of the old size.
LEMMA PagesWritten ==
  ASSUME NEW s \in Sizes, NEW off \in Sizes, NEW n \in 1 .. MaxSize, off + n <= MaxSize,
         off <= s
  PROVE  PagesBelow(s) \cup {Page(i) : i \in off .. off + n - 1}
           = PagesBelow(Larger(s, off + n))
<1> DEFINE t == Larger(s, off + n)
<1>0. t \in Nat /\ s <= t /\ off + n <= t /\ (t = s \/ t = off + n) /\ s \in Nat /\ off \in Nat
  BY PageAssumption DEF Larger, Sizes
<1>1. PagesBelow(s) \subseteq PagesBelow(t)
  BY <1>0, PagesGrow
<1>2. ASSUME NEW i \in off .. off + n - 1 PROVE Page(i) \in PagesBelow(t)
  <2>1. i \in Nat /\ i < off + n /\ i \in Sizes
    BY <1>0, PageAssumption DEF Sizes
  <2>2. Page(i) * PageSize <= i /\ Page(i) \in Nat
    BY <2>1, PageAssumption DEF Page
  <2>3. Page(i) * PageSize < t
    BY <1>0, <2>1, <2>2, PageAssumption
  <2> QED
    BY <2>1, <2>3, Zenon DEF PagesBelow, Pages
<1>3. ASSUME NEW p \in PagesBelow(t), p \notin PagesBelow(s)
      PROVE  \E i \in off .. off + n - 1 : p = Page(i)
  <2>1. p \in Pages /\ p * PageSize < t /\ ~(p * PageSize < s)
    BY <1>3, Zenon DEF PagesBelow
  <2>2. p \in Nat /\ p * PageSize \in Nat
    BY <2>1, PageAssumption DEF Pages, Page, Sizes
  <2>3. p * PageSize \in off .. off + n - 1
    BY <1>0, <2>1, <2>2
  <2>4. Page(p * PageSize) = p
    BY <2>2, PageAssumption DEF Page
  <2> QED
    BY <2>3, <2>4, Zenon
<1> QED
  BY <1>1, <1>2, <1>3, Zenon

\* A function on the first n numbers is a sequence of length n.
LEMMA Lengths ==
  ASSUME NEW n \in Nat, NEW S, NEW f \in [1 .. n -> S]
  PROVE  f \in Seq(S) /\ Len(f) = n /\ DOMAIN f = 1 .. n
OBVIOUS

\* The bytes of a data file.
LEMMA BytesAre ==
  ASSUME NEW b \in Bytes
  PROVE  Len(b) \in Sizes /\ b \in [1 .. Len(b) -> Byte]
<1>1. PICK n \in Sizes : b \in [1 .. n -> Byte]
  BY Zenon DEF Bytes
<1>2. n \in Nat
  BY PageAssumption DEF Sizes
<1>3. Len(b) = n
  BY <1>1, <1>2, Lengths, Zenon
<1> QED
  BY <1>1, <1>3, Zenon

\* The lower file is one.
LEMMA LowerIs == Lower \in Bytes /\ Len(Lower) \in Sizes /\ Lower \in [1 .. Len(Lower) -> Byte]
<1>1. Len(Lower) \in Nat /\ Len(Lower) \in Sizes /\ Lower \in [1 .. Len(Lower) -> Byte]
  BY LowerAssumption, PageAssumption DEF Sizes, Byte
<1> QED
  BY <1>1, Zenon DEF Bytes

\* A set of natural numbers has a least element.
LEMMA Least ==
  ASSUME NEW P \in SUBSET Nat, P # {}
  PROVE  \E p \in P : \A q \in P : p <= q
<1>1. PICK p \in P : \A q \in P : ~(<<q, p>> \in OpToRel(<, Nat))
  BY WFMin, NatLessThanWellFounded, Zenon
<1>2. p \in Nat /\ \A q \in P : q \in Nat
  OBVIOUS
<1>3. ASSUME NEW q \in P PROVE p <= q
  <2>1. ~(<<q, p>> \in OpToRel(<, Nat))
    BY <1>1, Zenon
  <2>2. ~(q < p)
    BY <1>2, <2>1 DEF OpToRel
  <2> QED
    BY <1>2, <2>2
<1> QED
  BY <1>3, Zenon

\* A bounded one has a greatest element.
LEMMA Greatest ==
  ASSUME NEW b \in Nat, NEW P \in SUBSET (1..b), P # {}
  PROVE  \E p \in P : \A q \in P : q <= p
<1> DEFINE Q == {n \in Nat : b - n \in P}
<1>1. PICK r \in P : TRUE
  BY Zenon
<1>2. b - r \in Q
  <2>1. r \in Nat /\ r <= b /\ b - (b - r) = r
    OBVIOUS
  <2> QED
    BY <2>1
<1>3. PICK n \in Q : \A q \in Q : n <= q
  <2>1. Q \in SUBSET Nat /\ Q # {}
    BY <1>2, ZenonT(60)
  <2> HIDE DEF Q
  <2> QED
    BY <2>1, Least, Zenon
<1>4. b - n \in P /\ n \in Nat
  BY <1>3
<1>5. ASSUME NEW q \in P PROVE q <= b - n
  <2>1. q \in 1..b
    OBVIOUS
  <2>2. b - (b - q) = q /\ b - q \in Nat
    BY <2>1
  <2>3. b - q \in Q
    BY <2>2
  <2>4. n <= b - q
    BY <1>3, <2>3, ZenonT(60)
  <2> QED
    BY <1>4, <2>1, <2>4
<1> QED
  BY <1>4, <1>5

\* Overwrite and Resize yield the bytes they say.
LEMMA OverwriteIs ==
  ASSUME NEW S, 0 \in S, NEW b \in Seq(S), Len(b) <= MaxSize, NEW off \in Nat, NEW n \in Nat,
         off + n <= MaxSize, NEW v \in S
  PROVE  LET o == Overwrite(b, off, n, v) IN
         /\ Len(o) = Larger(Len(b), off + n)
         /\ Len(o) \in Sizes /\ o \in [1 .. Len(o) -> S] /\ o \in Seq(S)
         /\ \A i \in 1 .. Len(o) : o[i] = IF off < i /\ i <= off + n THEN v ELSE At(b, i)
<1> DEFINE o == Overwrite(b, off, n, v)
           len == Larger(Len(b), off + n)
<1>1. len \in Nat /\ len \in Sizes
  BY PageAssumption DEF Larger, Sizes
<1>2. \A i \in 1 .. len : At(b, i) \in S
  BY DEF At
<1>3. o \in [1 .. len -> S]
  BY <1>2, Zenon DEF Overwrite
<1>4. Len(o) = len /\ o \in Seq(S)
  BY <1>1, <1>3, Lengths, Zenon
<1>5. \A i \in 1 .. len : o[i] = IF off < i /\ i <= off + n THEN v ELSE At(b, i)
  BY Zenon DEF Overwrite
<1> QED
  BY <1>1, <1>3, <1>4, <1>5, Zenon

\* Resize keeps the bytes below the new size and fills up with zeros.
LEMMA ResizeIs ==
  ASSUME NEW S, 0 \in S, NEW b \in Seq(S), NEW n \in Sizes
  PROVE  LET r == Resize(b, n) IN
         /\ Len(r) = n /\ r \in [1 .. n -> S]
         /\ \A i \in 1 .. n : r[i] = At(b, i)
<1>1. n \in Nat
  BY PageAssumption DEF Sizes
<1>2. \A i \in 1 .. n : At(b, i) \in S
  BY DEF At
<1>3. Resize(b, n) \in [1 .. n -> S]
  BY <1>2, Zenon DEF Resize
<1>4. Len(Resize(b, n)) = n
  BY <1>1, <1>3, Lengths, Zenon
<1>5. \A i \in 1 .. n : Resize(b, n)[i] = At(b, i)
  BY Zenon DEF Resize
<1> QED
  BY <1>3, <1>4, <1>5, Zenon

\* The bytes that materializeLowerFile copies up to page last.
Copied(last) == {i \in 1 .. Len(Lower) : Page(i - 1) \in LowerPages(last) \ node.pages}

\* It copies them and keeps the others; the data file does not get shorter.
LEMMA CopyIs ==
  ASSUME NEW f \in HostFile, NEW last
  PROVE  LET g == CopyLower(f, last) IN
         /\ g \in HostFile
         /\ g.there = (f.there \/ Lower # <<>>)
         /\ Len(f.bytes) <= Len(g.bytes)
         /\ \A i \in 1 .. Len(f.bytes) : i \notin Copied(last) => g.bytes[i] = f.bytes[i]
         /\ \A i \in Copied(last) : i <= Len(g.bytes) /\ g.bytes[i] = Lower[i]
         /\ Copied(last) = {} => g.bytes = f.bytes
<1> DEFINE P == Copied(last)
           L == Len(Lower)
           end == CHOOSE n \in 0 .. L : P \subseteq 1 .. n /\ (n = 0 \/ n \in P)
           len == Larger(Len(f.bytes), end)
           b == [i \in 1 .. len |-> IF i \in P THEN Lower[i] ELSE At(f.bytes, i)]
           g == CopyLower(f, last)
<1>0. /\ L \in Nat /\ L \in Sizes /\ L <= MaxSize /\ P \in SUBSET (1 .. L)
      /\ \A i \in 1 .. L : Lower[i] \in Byte
  BY LowerIs, PageAssumption DEF Copied, Sizes
<1>1. /\ f.bytes \in Bytes /\ f.there \in BOOLEAN /\ Len(f.bytes) \in Sizes
      /\ f.bytes \in [1 .. Len(f.bytes) -> Byte]
  <2>1. f.bytes \in Bytes /\ f.there \in BOOLEAN
    BY Zenon DEF HostFile
  <2> QED
    BY <2>1, BytesAre, Zenon
<1>2. \E n \in 0 .. L : P \subseteq 1 .. n /\ (n = 0 \/ n \in P)
  <2>1. CASE P = {}
    BY <1>0, <2>1
  <2>2. CASE P # {}
    <3>1. PICK p \in P : \A q \in P : q <= p
      <4> HIDE DEF P, L
      <4> QED
        BY <1>0, <2>2, Greatest, Zenon
    <3>2. p \in 0 .. L /\ P \subseteq 1 .. p
      <4> HIDE DEF P, L
      <4> QED
        BY <1>0, <3>1
    <3> QED
      BY <3>1, <3>2, Zenon
  <2> QED
    BY <2>1, <2>2, Zenon
<1>3. end \in 0 .. L /\ P \subseteq 1 .. end
  BY <1>2, Zenon
<1>4. len \in Nat /\ len \in Sizes /\ Len(f.bytes) <= len /\ end <= len /\ end \in Nat
  <2> HIDE DEF L, P, end
  <2> QED
    BY <1>0, <1>1, <1>3, PageAssumption DEF Larger, Sizes
<1>5. g = [there |-> f.there \/ Lower # <<>>, bytes |-> b]
  BY Zenon DEF CopyLower, Copied
<1>6. b \in [1 .. len -> Byte]
  <2>1. ASSUME NEW i \in 1 .. len PROVE At(f.bytes, i) \in Byte
    <3> HIDE DEF P, L, end, b, g, len
    <3> QED
      BY <1>1, <1>4 DEF At, Byte, Sizes
  <2> HIDE DEF L, end, len, g, P
  <2>2. \A i \in P : Lower[i] \in Byte
    BY <1>0
  <2> QED
    BY <2>1, <2>2, Zenon
<1>7. Len(b) = len /\ b \in Bytes
  <2> HIDE DEF L, end, len, g, P, b
  <2> QED
    BY <1>4, <1>6, Lengths, Zenon DEF Bytes
<1>8. g \in HostFile /\ g.bytes = b /\ g.there = (f.there \/ Lower # <<>>)
  <2> HIDE DEF L, end, len, g, P, b
  <2>1. (f.there \/ Lower # <<>>) \in BOOLEAN
    OBVIOUS
  <2> QED
    BY <1>5, <1>7, <2>1, Zenon DEF HostFile
<1>9. \A i \in 1 .. len : b[i] = IF i \in P THEN Lower[i] ELSE At(f.bytes, i)
  BY Zenon
<1>10. ASSUME NEW i \in 1 .. Len(f.bytes), i \notin P PROVE b[i] = f.bytes[i]
  <2> HIDE DEF L, end, len, g, P, b
  <2>1. i \in 1 .. len /\ i <= Len(f.bytes)
    BY <1>1, <1>4 DEF Sizes
  <2> QED
    BY <1>9, <1>10, <2>1, Zenon DEF At
<1>11. ASSUME NEW i \in P PROVE i <= len /\ b[i] = Lower[i]
  <2> HIDE DEF L, end, len, g, P, b
  <2>1. i \in 1 .. len /\ i <= len
    BY <1>3, <1>4
  <2> QED
    BY <1>9, <2>1, Zenon
<1>12. ASSUME P = {} PROVE b = f.bytes
  <2>1. end = 0
    BY <1>2, <1>12, Zenon
  <2> HIDE DEF L, end, g, P
  <2>2. len = Len(f.bytes)
    BY <1>1, <2>1, PageAssumption DEF Larger, Sizes
  <2> HIDE DEF len, b
  <2>3. \A i \in 1 .. len : b[i] = f.bytes[i]
    BY <1>10, <1>12, <2>2, Zenon
  <2> QED
    BY <1>1, <1>6, <2>2, <2>3
<1> HIDE DEF L, end, len, g, P, b
<1> QED
  BY <1>4, <1>7, <1>8, <1>10, <1>11, <1>12, Zenon DEF g, P

-----------------------------------------------------------------------------
(* Types and records, for every client, lower file and kind of crash. *)

\* The types of the parts.
LEMMA Parts ==
  ASSUME NEW f \in HostFile, NEW nd \in Node
  PROVE  /\ f.there \in BOOLEAN /\ f.bytes \in Bytes
         /\ Len(f.bytes) \in Sizes /\ Len(f.bytes) \in Nat
         /\ f.bytes \in [1 .. Len(f.bytes) -> Byte] /\ f.bytes \in Seq(Byte)
         /\ nd.size \in Sizes /\ nd.size \in Nat
         /\ nd.pages \in SUBSET Pages /\ nd.lower \in BOOLEAN
<1>1. f.there \in BOOLEAN /\ f.bytes \in Bytes
  BY Zenon DEF HostFile
<1>2. nd.size \in Sizes /\ nd.pages \in SUBSET Pages /\ nd.lower \in BOOLEAN
  BY Zenon DEF Node
<1>3. Len(f.bytes) \in Sizes /\ f.bytes \in [1 .. Len(f.bytes) -> Byte]
  BY <1>1, BytesAre, Zenon
<1>4. Len(f.bytes) \in Nat /\ nd.size \in Nat
  BY <1>2, <1>3, PageAssumption DEF Sizes
<1>5. f.bytes \in Seq(Byte)
  BY <1>3, <1>4, Lengths, Zenon
<1> QED
  BY <1>1, <1>2, <1>3, <1>4, <1>5, Zenon

\* Two sets that include each other are one.
LEMMA SameSets ==
  ASSUME NEW A, NEW B, A \subseteq B, B \subseteq A PROVE A = B
OBVIOUS

\* What is copied lies in the lower file.
LEMMA LowerBelow ==
  ASSUME NEW last PROVE LowerPages(last) \subseteq PagesBelow(Len(Lower))
<1>1. ASSUME NEW i \in 1 .. Len(Lower) PROVE Page(i - 1) \in PagesBelow(Len(Lower))
  BY LowerIs, PageOf, Zenon
<1> QED
  BY <1>1, Zenon DEF LowerPages

\* The data file before a write: the lower file is copied into it.
LEMMA UpperIs ==
  ASSUME TypeOK
  PROVE  Upper \in HostFile /\ Len(file.bytes) <= Len(Upper.bytes)
<1>1. file \in HostFile /\ node \in Node
  BY Zenon DEF TypeOK
<1>2. Len(file.bytes) \in Nat
  BY <1>1, Parts, Zenon
<1>3. CASE ~node.lower
  BY <1>1, <1>2, <1>3 DEF Upper
<1>4. CASE node.lower
  BY <1>1, <1>4, CopyIs, Zenon DEF Upper
<1> QED
  BY <1>3, <1>4, Zenon

\* The pages a write or a truncation starts from lie below the size.
LEMMA UpperPagesBelow ==
  ASSUME Sound(node)
  PROVE  UpperPages \subseteq PagesBelow(node.size)
<1>1. CASE node.lower
  BY <1>1, LowerBelow, Zenon DEF Sound, UpperPages
<1>2. CASE ~node.lower
  BY <1>2, Zenon DEF Sound, UpperPages
<1> QED
  BY <1>1, <1>2, Zenon

\* A data file that a write or truncation makes.
LEMMA HostFileOf ==
  ASSUME NEW t \in BOOLEAN, NEW b, Len(b) \in Sizes, b \in [1 .. Len(b) -> Byte]
  PROVE  [there |-> t, bytes |-> b] \in HostFile
<1>1. b \in Bytes
  BY Zenon DEF Bytes
<1> QED
  BY <1>1, Zenon DEF HostFile

\* The contents POSIX gives a file.
LEMMA IdealIs ==
  ASSUME TypeOK
  PROVE  Len(ideal) \in Sizes /\ Len(ideal) \in Nat /\ ideal \in Seq(Byte \cup {EIO})
<1>1. PICK n \in Sizes : ideal \in [1 .. n -> Byte \cup {EIO}]
  BY Zenon DEF TypeOK
<1>2. n \in Nat
  BY PageAssumption DEF Sizes
<1>3. Len(ideal) = n /\ ideal \in Seq(Byte \cup {EIO})
  BY <1>1, <1>2, Lengths, Zenon
<1> QED
  BY <1>2, <1>3, Zenon

\* When a sequence has the type of ideal.
LEMMA IdealOf ==
  ASSUME NEW b, NEW n \in Sizes, b \in [1 .. n -> Byte \cup {EIO}]
  PROVE  b \in UNION {[1 .. m -> Byte \cup {EIO}] : m \in Sizes}
OBVIOUS

\* WriteForCaller keeps the record sound.
LEMMA WriteRecord ==
  ASSUME RecordInv, NEW off \in Sizes, NEW n \in 1 .. MaxSize, NEW v \in Byte,
         Write(off, n, v), crashes' = crashes
  PROVE  RecordInv'
<1> DEFINE t == Larger(node.size, off + n)
<1>1. file \in HostFile /\ node \in Node /\ Upper \in HostFile /\ TypeOK /\ Sound(node)
  BY UpperIs, Zenon DEF RecordInv, TypeOK
<1>2. /\ node.size \in Sizes /\ node.size \in Nat /\ Upper.bytes \in Seq(Byte)
      /\ Len(Upper.bytes) \in Sizes /\ node.pages \in SUBSET Pages
  BY <1>1, Parts, Zenon
<1>3. /\ off \in Nat /\ n \in Nat /\ off + n <= MaxSize /\ Len(Upper.bytes) <= MaxSize
      /\ Len(Upper.bytes) \in Nat
  BY <1>2, PageAssumption DEF Write, Sizes
<1>4. t \in Sizes /\ t \in Nat /\ node.size <= t /\ off + n <= t
  BY <1>2, <1>3, PageAssumption DEF Larger, Sizes
<1>5. 0 \in Byte /\ 0 \in Byte \cup {EIO} /\ v \in Byte \cup {EIO}
  BY DEF Byte
<1>6. file' \in HostFile
  <2>1. file' = [there |-> TRUE, bytes |-> Overwrite(Upper.bytes, off, n, v)]
    BY Zenon DEF Write
  <2>2. /\ Len(Overwrite(Upper.bytes, off, n, v)) \in Sizes
        /\ Overwrite(Upper.bytes, off, n, v)
             \in [1 .. Len(Overwrite(Upper.bytes, off, n, v)) -> Byte]
    BY <1>2, <1>3, <1>5, OverwriteIs, ZenonT(60)
  <2> QED
    BY <2>1, <2>2, HostFileOf, Zenon
<1>7. node' \in Node /\ Sound(node)'
  <2>1. node' = [size |-> t, pages |-> UpperPages \cup {Page(i) : i \in off .. off + n - 1},
                 lower |-> FALSE]
    BY Zenon DEF Write
  <2>2. UpperPages \subseteq PagesBelow(t)
    BY <1>1, <1>2, <1>4, UpperPagesBelow, PagesGrow, Zenon
  <2>3. ASSUME NEW i \in off .. off + n - 1 PROVE Page(i) \in PagesBelow(t)
    <3>1. i + 1 \in 1 .. t /\ (i + 1) - 1 = i
      BY <1>3, <1>4
    <3> QED
      BY <1>4, <3>1, PageOf, Zenon
  <2>4. PagesBelow(t) \subseteq Pages
    BY Zenon DEF PagesBelow
  <2> HIDE DEF t
  <2>5. node'.size = t /\ node'.lower = FALSE
        /\ node'.pages = UpperPages \cup {Page(i) : i \in off .. off + n - 1}
    BY <2>1, Zenon
  <2>6. node'.pages \subseteq PagesBelow(t)
    BY <2>2, <2>3, <2>5, Zenon
  <2>7. node' \in Node
    BY <1>4, <2>1, <2>4, <2>5, <2>6, Zenon DEF Node
  <2> QED
    BY <2>5, <2>6, <2>7, Zenon DEF Sound
<1>8. trim' \in Sizes \cup {NoTrim}
  BY <1>1, <1>3, PageAssumption DEF Write, TypeOK, Larger, Sizes, NoTrim
<1>9. ideal' \in UNION {[1 .. m -> Byte \cup {EIO}] : m \in Sizes}
  <2>1. Len(ideal) \in Sizes /\ Len(ideal) \in Nat /\ ideal \in Seq(Byte \cup {EIO})
    BY <1>1, IdealIs, Zenon
  <2>2. Len(ideal) <= MaxSize
    BY <2>1, PageAssumption DEF Sizes
  <2>3. LET o == Overwrite(ideal, off, n, v)
        IN  Len(o) \in Sizes /\ o \in [1 .. Len(o) -> Byte \cup {EIO}]
    BY <2>1, <2>2, <1>3, <1>5, OverwriteIs, ZenonT(60)
  <2>4. ideal' = Overwrite(ideal, off, n, v)
    BY Zenon DEF Write
  <2> QED
    BY <2>3, <2>4, IdealOf, Zenon
<1>10. /\ UNCHANGED <<fileDisk, meta, pc, op>> /\ dirty' = TRUE /\ changed' = TRUE
  BY Zenon DEF Write
<1>11. TypeOK'
  BY <1>6, <1>7, <1>8, <1>9, <1>10, Zenon DEF RecordInv, TypeOK
<1> QED
  BY <1>6, <1>7, <1>10, <1>11, Zenon DEF RecordInv, Sound

\* So does a materializeLowerFile that stops half way.
LEMMA CopyFailsRecord ==
  ASSUME RecordInv, NEW last, CopyFails(last), crashes' = crashes
  PROVE  RecordInv'
<1>1. file \in HostFile /\ node \in Node /\ Sound(node)
  BY Zenon DEF RecordInv, TypeOK
<1>2. file' = CopyLower(file, last)
  BY Zenon DEF CopyFails
<1>3. file' \in HostFile
  BY <1>1, <1>2, CopyIs, Zenon
<1>4. node' = [node EXCEPT !.pages = @ \cup LowerPages(last)] /\ node.lower
  BY Zenon DEF CopyFails
<1>5. node.pages \cup LowerPages(last) \subseteq PagesBelow(node.size)
  BY <1>1, <1>4, LowerBelow, Zenon DEF Sound
<1>6. PagesBelow(node.size) \subseteq Pages
  BY Zenon DEF PagesBelow
<1>7. node' \in Node /\ Sound(node)'
  <2>1. /\ node'.size = node.size /\ node'.lower = node.lower
        /\ node'.pages = node.pages \cup LowerPages(last)
    BY <1>1, <1>4, Zenon DEF Node
  <2>2. node' \in Node
    BY <1>1, <1>4, <1>5, <1>6, Zenon DEF Node
  <2> QED
    BY <1>1, <1>5, <2>1, <2>2, Zenon DEF Sound
<1>8. /\ UNCHANGED <<fileDisk, trim, meta, pc, op, ideal, changed>> /\ dirty' \in BOOLEAN
  BY Zenon DEF CopyFails, RecordInv, TypeOK
<1> QED
  BY <1>3, <1>7, <1>8, Zenon DEF RecordInv, TypeOK, Sound

\* Zeroing the rest of a cut page yields bytes, and none when nothing is cut.
LEMMA ZeroCutIs ==
  ASSUME TypeOK, NEW b \in Seq(Byte), Len(b) <= MaxSize, NEW pages, NEW size \in Sizes
  PROVE  LET z == ZeroCut(b, pages, size)
         IN  Len(z) \in Sizes /\ z \in [1 .. Len(z) -> Byte]
<1> DEFINE end == Smaller(size, (Page(trim) + 1) * PageSize)
<1>1. CASE trim # NoTrim /\ size > trim /\ end > trim /\ Page(trim) \in pages
  <2>1. trim \in Nat /\ size \in Nat /\ size <= MaxSize
    BY <1>1, PageAssumption DEF TypeOK, Sizes
  <2>2. (Page(trim) + 1) * PageSize \in Nat
    BY <2>1, PageAssumption DEF Page
  <2>3. end - trim \in Nat /\ trim + (end - trim) <= MaxSize
    BY <1>1, <2>1, <2>2, PageAssumption DEF Smaller
  <2>4. 0 \in Byte
    BY DEF Byte
  <2>5. ZeroCut(b, pages, size) = Overwrite(b, trim, end - trim, 0)
    BY <1>1, Zenon DEF ZeroCut
  <2>6. PICK n \in Nat : n = end - trim
    BY <2>3, Zenon
  <2>7. LET o == Overwrite(b, trim, n, 0) IN Len(o) \in Sizes /\ o \in [1 .. Len(o) -> Byte]
    <3> HIDE DEF end
    <3>1. trim + n <= MaxSize
      BY <2>3, <2>6, Zenon
    <3> QED
      BY <2>1, <2>4, <3>1, OverwriteIs, Zenon
  <2> QED
    BY <2>5, <2>6, <2>7, Zenon
<1>2. CASE ~(trim # NoTrim /\ size > trim /\ end > trim /\ Page(trim) \in pages)
  <2>1. ZeroCut(b, pages, size) = b
    BY <1>2, Zenon DEF ZeroCut
  <2>2. Len(b) \in Sizes /\ b \in [1 .. Len(b) -> Byte]
    BY PageAssumption DEF Sizes
  <2> QED
    BY <2>1, <2>2, Zenon
<1> QED
  BY <1>1, <1>2, Zenon

\* truncateData drops the extents beyond the new end.
LEMMA TruncateRecord ==
  ASSUME RecordInv, NEW size \in Sizes, Truncate(size), crashes' = crashes
  PROVE  RecordInv'
<1> DEFINE copy == node.lower /\ size # 0
           base == IF copy THEN Upper ELSE file
           pages == IF copy THEN UpperPages ELSE node.pages
<1>1. file \in HostFile /\ node \in Node /\ Sound(node) /\ TypeOK /\ Upper \in HostFile
  BY UpperIs, Zenon DEF RecordInv, TypeOK
<1>2. base \in HostFile
  BY <1>1, Zenon
<1>3. /\ base.bytes \in Seq(Byte) /\ Len(base.bytes) <= MaxSize /\ base.there \in BOOLEAN
  <2> HIDE DEF base
  <2>1. base.bytes \in Seq(Byte) /\ Len(base.bytes) \in Sizes /\ base.there \in BOOLEAN
    BY <1>1, <1>2, Parts, Zenon
  <2> QED
    BY <2>1, PageAssumption DEF Sizes
<1>4. /\ file' = [base EXCEPT !.bytes = ZeroCut(@, pages, size)]
      /\ node' = [size |-> size, pages |-> KeptPages(pages, size), lower |-> FALSE]
  BY Zenon DEF Truncate
<1>5. file' = [there |-> base.there, bytes |-> ZeroCut(base.bytes, pages, size)]
  <2> HIDE DEF base, pages
  <2> QED
    BY <1>2, <1>4 DEF HostFile
<1>6. file' \in HostFile
  <2> HIDE DEF base, pages
  <2> QED
    BY <1>1, <1>3, <1>5, ZeroCutIs, HostFileOf, Zenon
<1>7. node' \in Node /\ Sound(node)'
  <2>1. /\ node'.size = size /\ node'.lower = FALSE
        /\ node'.pages \subseteq PagesBelow(size)
        /\ node'.pages = KeptPages(pages, size)
    BY <1>4, Zenon DEF KeptPages
  <2>2. PagesBelow(size) \subseteq Pages
    BY Zenon DEF PagesBelow
  <2>3. node' \in Node
    <3> HIDE DEF pages
    <3> QED
      BY <1>4, <2>1, <2>2, Zenon DEF Node
  <2> QED
    BY <2>1, <2>3, Zenon DEF Sound
<1>8. ideal' \in UNION {[1 .. m -> Byte \cup {EIO}] : m \in Sizes}
  <2>1. ideal \in Seq(Byte \cup {EIO}) /\ 0 \in Byte \cup {EIO}
    BY <1>1, IdealIs, Zenon DEF Byte
  <2>2. ideal' = Resize(ideal, size)
    BY Zenon DEF Truncate
  <2> QED
    BY <2>1, <2>2, ResizeIs, IdealOf, Zenon
<1>9. /\ UNCHANGED <<fileDisk, meta, pc, op>> /\ dirty' = TRUE /\ changed' = TRUE
      /\ trim' = size
  BY Zenon DEF Truncate
<1>10. TypeOK'
  BY <1>6, <1>7, <1>8, <1>9, Zenon DEF RecordInv, TypeOK
<1> QED
  BY <1>7, <1>9, <1>10, Zenon DEF RecordInv, Sound

\* Reclamation cuts the data file; nothing else of the types changes.
LEMMA ReclaimRecord ==
  ASSUME RecordInv, Reclaim, crashes' = crashes
  PROVE  RecordInv'
<1>1. file \in HostFile /\ node \in Node /\ trim \in Sizes \cup {NoTrim}
  BY Zenon DEF RecordInv, TypeOK
<1>2. file' \in HostFile
  <2>1. CASE ~(trim # NoTrim /\ file.there)
    BY <1>1, <2>1, Zenon DEF Reclaim
  <2>2. CASE trim # NoTrim /\ file.there
    <3>1. trim \in Sizes /\ file.bytes \in Seq(Byte) /\ 0 \in Byte /\ file.there \in BOOLEAN
      BY <1>1, <2>2, Parts, Zenon DEF Byte
    <3>2. Len(Resize(file.bytes, trim)) = trim /\ Resize(file.bytes, trim) \in [1 .. trim -> Byte]
      BY <3>1, ResizeIs, Zenon
    <3>3. file' = [file EXCEPT !.bytes = Resize(@, trim)]
      BY <2>2, Zenon DEF Reclaim
    <3>4. file' = [there |-> file.there, bytes |-> Resize(file.bytes, trim)]
      BY <1>1, <3>3 DEF HostFile
    <3> QED
      BY <3>1, <3>2, <3>4, HostFileOf, Zenon
  <2> QED
    BY <2>1, <2>2, Zenon
<1>3. /\ UNCHANGED <<fileDisk, node, dirty, meta, ideal, changed>> /\ trim' = NoTrim
      /\ pc' \in {"down", "idle"} /\ op' = "none"
  BY Zenon DEF Reclaim, Finish
<1> QED
  BY <1>2, <1>3, Zenon DEF RecordInv, TypeOK, Sound

\* The next attachment starts from the record.
LEMMA OpenRecord ==
  ASSUME RecordInv, Open, crashes' = crashes
  PROVE  RecordInv'
<1> DEFINE f == IF meta.pages = {} THEN NoFile ELSE file
<1>1. file \in HostFile /\ fileDisk \in HostFile /\ meta \in Node
  BY Zenon DEF RecordInv, TypeOK
<1>2. NoFile \in HostFile
  <2>1. Len(<<>>) \in Sizes /\ <<>> \in [1 .. Len(<<>>) -> Byte]
    BY PageAssumption DEF Sizes
  <2> QED
    BY <2>1, HostFileOf, Zenon DEF NoFile
<1>3. f \in HostFile /\ file' = f /\ fileDisk' \in HostFile
  BY <1>1, <1>2, Zenon DEF Open
<1>4. ideal' \in UNION {[1 .. m -> Byte \cup {EIO}] : m \in Sizes}
  <2>1. CASE ~changed
    BY <2>1, Zenon DEF Open, RecordInv, TypeOK
  <2>2. CASE changed
    <3> HIDE DEF f
    <3>1. ideal' = Contents(meta, f)
      BY <2>2, Zenon DEF Open, f
    <3>2. /\ meta.size \in Sizes /\ f.bytes \in [1 .. Len(f.bytes) -> Byte]
          /\ Len(f.bytes) \in Nat /\ meta.size \in Nat
      BY <1>1, <1>3, Parts, Zenon
    <3>3. \A i \in 1 .. meta.size : i <= Len(f.bytes) => f.bytes[i] \in Byte
      BY <3>2
    <3>4. \A i \in 1 .. meta.size : At(Lower, i) \in Byte
      BY <3>2, LowerIs, PageAssumption DEF At, Byte, Sizes
    <3>5. Contents(meta, f) \in [1 .. meta.size -> Byte \cup {EIO}]
      BY <3>3, <3>4, Zenon DEF Contents, Byte
    <3> QED
      BY <3>1, <3>2, <3>5, IdealOf, Zenon
  <2> QED
    BY <2>1, <2>2, Zenon DEF RecordInv, TypeOK
<1>5. /\ UNCHANGED <<meta, op>> /\ changed' = FALSE
      /\ node' = meta /\ trim' = NoTrim /\ dirty' = FALSE
      /\ pc' = "idle"
  BY Zenon DEF Open
<1>6. TypeOK'
  BY <1>3, <1>4, <1>5, Zenon DEF RecordInv, TypeOK
<1> QED
  BY <1>5, <1>6, Zenon DEF RecordInv, Sound

\* Every step keeps the records sound.
LEMMA RecordStep == RecordInv /\ [Next]_vars => RecordInv'
<1> SUFFICES ASSUME RecordInv, [Next]_vars PROVE RecordInv'
  OBVIOUS
<1>1. CASE UNCHANGED vars
  BY <1>1, ZenonT(60) DEF vars, RecordInv, TypeOK, Sound
<1>2. ASSUME NEW off \in Sizes, NEW n \in 1 .. MaxSize, NEW v \in Byte, Write(off, n, v),
             crashes' = crashes
      PROVE  RecordInv'
  BY <1>2, WriteRecord, Zenon
<1>3. CASE (\E p \in Pages : CopyFails(p)) /\ crashes' = crashes
  BY <1>3, CopyFailsRecord, Zenon
<1>4. CASE (\E size \in Sizes : Truncate(size)) /\ crashes' = crashes
  BY <1>4, TruncateRecord, Zenon
<1>5. ASSUME NEW o \in {"fsync", "syncfs", "close"}, SyncData(o), crashes' = crashes
      PROVE  RecordInv'
  BY <1>5, Zenon DEF RecordInv, TypeOK, Sound, SyncData, Synced
<1>6. CASE (CommitFails \/ ReclaimFails \/ \E o : SyncFails(o)) /\ crashes' = crashes
  <2>1. /\ UNCHANGED <<file, fileDisk, node, trim, dirty, meta, ideal, changed>>
        /\ pc' \in {"down", "idle"} /\ op' \in {op, "none"}
    BY <1>6, Zenon DEF CommitFails, ReclaimFails, SyncFails, Finish
  <2> QED
    BY <1>6, <2>1, Zenon DEF RecordInv, TypeOK, Sound
<1>7. CASE Commit /\ crashes' = crashes
  BY <1>7, Zenon DEF RecordInv, TypeOK, Sound, Commit
<1>8. CASE Reclaim /\ crashes' = crashes
  BY <1>8, ReclaimRecord, Zenon
<1>9. CASE FsyncDir /\ crashes' = crashes
  BY <1>9, Zenon DEF RecordInv, TypeOK, Sound, FsyncDir, NamespaceRecord
<1>10. CASE (ProcessCrash \/ PowerFailure) /\ crashes' = crashes
  <2>1. /\ file' \in HostFile /\ fileDisk' \in HostFile
        /\ UNCHANGED <<node, trim, dirty, meta, ideal, changed>>
        /\ pc' = "down" /\ op' = "none"
    BY <1>10, Zenon DEF ProcessCrash, PowerFailure, Torn, RecordInv, TypeOK
  <2> QED
    BY <1>10, <2>1, Zenon DEF RecordInv, TypeOK, Sound
<1>11. CASE Open /\ crashes' = crashes
  BY <1>11, OpenRecord, Zenon
<1> QED
  BY <1>1, <1>2, <1>3, <1>4, <1>5, <1>6, <1>7, <1>8, <1>9, <1>10, <1>11, Zenon
     DEF Next, Step

\* The record of a file nothing was written to is sound.
LEMMA RecordInit == Init => RecordInv
<1> SUFFICES ASSUME Init PROVE RecordInv
  OBVIOUS
<1>1. NoFile \in HostFile
  <2>1. Len(<<>>) \in Sizes /\ <<>> \in [1 .. Len(<<>>) -> Byte]
    BY PageAssumption DEF Sizes
  <2> QED
    BY <2>1, HostFileOf, Zenon DEF NoFile
<1>2. Fresh \in Node /\ Sound(Fresh)
  BY LowerIs, Zenon DEF Fresh, Node, Sound
<1>3. Lower \in UNION {[1 .. m -> Byte \cup {EIO}] : m \in Sizes}
  <2>1. Lower \in [1 .. Len(Lower) -> Byte \cup {EIO}] /\ Len(Lower) \in Sizes
    BY LowerIs
  <2> QED
    BY <2>1, IdealOf, Zenon
<1> QED
  BY <1>1, <1>2, <1>3, Zenon DEF Init, RecordInv, TypeOK

\* Every variable keeps its type, for every page size, lower file, client and
\* kind of crash.
THEOREM TypeCorrect == Spec => []TypeOK
<1>1. RecordInv => TypeOK
  BY Zenon DEF RecordInv
<1> QED
  BY <1>1, RecordInit, RecordStep, PTL DEF Spec

\* The record that recovery would load passes restorePersistentNode's check of
\* its extents, whichever barrier wrote it: for every client, lower file and
\* kind of crash, gaps and growing truncations included.
THEOREM RestorableCorrect == Spec => []Restorable
<1>1. RecordInv => Restorable
  BY Zenon DEF RecordInv, Sound, Restorable
<1> QED
  BY <1>1, RecordInit, RecordStep, PTL DEF Spec

-----------------------------------------------------------------------------
(* What the file reads as, where Plain holds. *)

\* A record with every page places every byte in the data file.
LEMMA HeldAll ==
  ASSUME NEW nd, nd.size \in Sizes, PagesBelow(nd.size) \subseteq nd.pages
  PROVE  Held(nd) = 1 .. nd.size
<1>1. ASSUME NEW i \in 1 .. nd.size PROVE Page(i - 1) \in nd.pages
  BY PageOf, Zenon
<1> QED
  BY <1>1, Zenon DEF Held

\* A record reads the same over data files that agree on what it places there.
LEMMA ShowsSame ==
  ASSUME NEW nd, NEW f, NEW g, NEW c, Shows(nd, f, c),
         \A i \in Held(nd) : i <= Len(g.bytes) /\ g.bytes[i] = f.bytes[i]
  PROVE  Shows(nd, g, c)
<1>1. \A i \in 1 .. nd.size : c[i] = IF i \in Held(nd) THEN g.bytes[i] ELSE Else(nd, i)
  BY Zenon DEF Shows
<1> QED
  BY <1>1, Zenon DEF Shows, Covers

\* The bytes of a record that has all its pages.
LEMMA ShowsAll ==
  ASSUME NEW nd, nd.size \in Sizes, PagesBelow(nd.size) \subseteq nd.pages, NEW f, NEW c,
         nd.size = Len(c), \A i \in 1 .. nd.size : i <= Len(f.bytes) /\ f.bytes[i] = c[i]
  PROVE  Shows(nd, f, c)
<1>1. Held(nd) = 1 .. nd.size
  BY HeldAll, Zenon
<1> QED
  BY <1>1, Zenon DEF Shows, Covers

\* A byte that a step copies from the lower file is the one the file had.
LEMMA CopiedIdeal ==
  ASSUME DataInv, pc # "down", node.lower, NEW last, NEW i \in Copied(last)
  PROVE  i \in 1 .. node.size /\ i \notin Held(node) /\ ideal[i] = Lower[i]
<1>1. i \in 1 .. Len(Lower) /\ Page(i - 1) \notin node.pages
  BY Zenon DEF Copied
<1>2. node.size = Len(Lower) /\ Shows(node, file, ideal)
  BY Zenon DEF DataInv, RecordInv, Sound, AttachedInv
<1>3. i \in 1 .. node.size /\ i \notin Held(node)
  BY <1>1, <1>2, Zenon DEF Held
<1>4. ideal[i] = At(Lower, i)
  BY <1>2, <1>3, Zenon DEF Shows, Else
<1>5. i <= Len(Lower)
  BY <1>1, LowerIs, PageAssumption DEF Sizes
<1> QED
  BY <1>3, <1>4, <1>5, Zenon DEF At

\* Before a write the lower file has been copied: the data file has all of the
\* contents.
LEMMA UpperShows ==
  ASSUME Plain, DataInv, pc # "down"
  PROVE  /\ \A i \in 1 .. node.size : i <= Len(Upper.bytes) /\ Upper.bytes[i] = ideal[i]
         /\ UpperPages = PagesBelow(node.size)
         /\ Named(Upper)
         /\ \A i \in Held(meta) : i <= Len(Upper.bytes)
<1>1. /\ file \in HostFile /\ node \in Node /\ meta \in Node /\ TypeOK /\ Sound(node)
      /\ Shows(node, file, ideal) /\ Named(file) /\ Whole(node) /\ Covers(file, meta)
  BY Zenon DEF DataInv, RecordInv, TypeOK, AttachedInv, StoredInv
<1>2. /\ Len(file.bytes) \in Nat /\ node.size \in Sizes /\ Upper \in HostFile
      /\ Len(file.bytes) <= Len(Upper.bytes) /\ meta.size \in Nat
  BY <1>1, Parts, UpperIs, Zenon
<1>3. Len(Upper.bytes) \in Nat
  BY <1>1, <1>2, Parts, Zenon
<1>4. \A i \in Held(meta) : i <= Len(Upper.bytes)
  <2>1. \A i \in Held(meta) : i \in Nat /\ i <= Len(file.bytes)
    BY <1>1, <1>2 DEF Covers, Held
  <2> QED
    BY <1>2, <1>3, <2>1
<1>5. CASE ~node.lower
  <2>1. Upper = file /\ UpperPages = node.pages
    BY <1>5, Zenon DEF Upper, UpperPages
  <2>2. Held(node) = 1 .. node.size /\ UpperPages = PagesBelow(node.size)
    BY <1>1, <1>2, <1>5, <2>1, HeldAll, Zenon DEF Whole, Sound
  <2> QED
    BY <1>1, <1>4, <2>1, <2>2, Zenon DEF Shows, Covers
<1>6. CASE node.lower
  <2>1. Upper = CopyLower(file, LastPage) /\ node.size = Len(Lower)
    BY <1>1, <1>6, Zenon DEF Upper, Sound
  <2>a. PagesBelow(Len(Lower)) \subseteq LowerPages(LastPage)
    BY Zenon DEF Plain
  <2>b. LowerPages(LastPage) \subseteq PagesBelow(Len(Lower))
    BY LowerBelow, Zenon
  <2>c. LowerPages(LastPage) = PagesBelow(Len(Lower))
    BY <2>a, <2>b, SameSets, Zenon
  <2>2. LowerPages(LastPage) = PagesBelow(node.size)
    BY <2>1, <2>c, Zenon
  <2>3. UpperPages = PagesBelow(node.size)
    BY <1>1, <1>6, <2>2, Zenon DEF UpperPages, Sound
  <2>4. ASSUME NEW i \in 1 .. node.size
        PROVE  i <= Len(Upper.bytes) /\ Upper.bytes[i] = ideal[i]
    <3>1. Page(i - 1) \in LowerPages(LastPage)
      BY <1>2, <2>2, PageOf, Zenon
    <3>2. CASE i \in Copied(LastPage)
      <4>1. ideal[i] = Lower[i]
        BY <1>6, <3>2, CopiedIdeal, Zenon
      <4>2. i <= Len(Upper.bytes) /\ Upper.bytes[i] = Lower[i]
        BY <1>1, <2>1, <3>2, CopyIs, Zenon
      <4> QED
        BY <4>1, <4>2, Zenon
    <3>3. CASE i \notin Copied(LastPage)
      <4>1. i \in Held(node)
        BY <2>1, <3>1, <3>3, Zenon DEF Copied, Held
      <4>2. i <= Len(file.bytes) /\ file.bytes[i] = ideal[i]
        BY <1>1, <4>1, Zenon DEF Shows, Covers
      <4>3. i \in 1 .. Len(file.bytes) /\ i <= Len(Upper.bytes)
        BY <1>2, <1>3, <4>2 DEF Sizes
      <4>4. Upper.bytes[i] = file.bytes[i]
        BY <1>1, <2>1, <3>3, <4>3, CopyIs, Zenon
      <4> QED
        BY <4>2, <4>3, <4>4, Zenon
    <3> QED
      BY <3>2, <3>3, Zenon
  <2>5. Named(Upper)
    <3>1. CASE Lower = <<>>
      <4>1. 1 .. Len(Lower) = {}
        BY <3>1
      <4>2. Copied(LastPage) = {}
        BY <4>1, Zenon DEF Copied
      <4> QED
        BY <1>1, <2>1, <3>1, <4>2, CopyIs, Zenon DEF Named
    <3>2. CASE Lower # <<>>
      BY <1>1, <2>1, <3>2, CopyIs, Zenon DEF Named
    <3> QED
      BY <3>1, <3>2, Zenon
  <2> QED
    BY <1>4, <2>3, <2>4, <2>5, Zenon
<1> QED
  BY <1>5, <1>6, Zenon

\* A write without a gap shows in memory what POSIX says, and leaves the
\* durable record's bytes alone until a barrier.
LEMMA WriteData ==
  ASSUME Plain, DataInv, RecordInv', NEW off \in Sizes, NEW n \in 1 .. MaxSize, NEW v \in Byte,
         Write(off, n, v), crashes' = crashes
  PROVE  DataInv'
<1> DEFINE t == Larger(node.size, off + n)
           U == Upper.bytes
           o == Overwrite(U, off, n, v)
           c == Overwrite(ideal, off, n, v)
<1>1. /\ file \in HostFile /\ node \in Node /\ meta \in Node /\ TypeOK /\ Upper \in HostFile
      /\ pc # "down" /\ off <= node.size /\ off + n <= MaxSize
      /\ UNCHANGED <<fileDisk, meta, pc, op>> /\ dirty' = TRUE /\ changed' = TRUE
      /\ Shows(node, file, ideal)
  BY UpperIs, Zenon DEF DataInv, RecordInv, TypeOK, Write, Plain, AttachedInv
<1>2. /\ node.size \in Sizes /\ node.size \in Nat /\ U \in Seq(Byte) /\ Len(U) \in Sizes
      /\ Len(U) \in Nat /\ off \in Nat /\ n \in Nat /\ Len(U) <= MaxSize /\ node.size <= MaxSize
      /\ meta.size \in Nat
  <2>1. /\ node.size \in Sizes /\ node.size \in Nat /\ U \in Seq(Byte) /\ Len(U) \in Sizes
        /\ Len(U) \in Nat /\ meta.size \in Nat
    BY <1>1, Parts, Zenon
  <2> QED
    BY <2>1, PageAssumption DEF Sizes
<1>3. /\ \A i \in 1 .. node.size : i <= Len(U) /\ U[i] = ideal[i]
      /\ UpperPages = PagesBelow(node.size)
      /\ \A i \in Held(meta) : i <= Len(U)
  BY <1>1, UpperShows, Zenon
<1>4. ideal \in Seq(Byte \cup {EIO}) /\ Len(ideal) = node.size
  BY <1>1, IdealIs, Zenon DEF Shows
<1>5. t \in Sizes /\ t \in Nat /\ (t = node.size \/ t = off + n) /\ node.size <= t /\ off + n <= t
  BY <1>1, <1>2, PageAssumption DEF Larger, Sizes
<1>6. /\ Len(o) = Larger(Len(U), off + n)
      /\ \A i \in 1 .. Len(o) : o[i] = IF off < i /\ i <= off + n THEN v ELSE At(U, i)
  <2>1. 0 \in Byte
    BY DEF Byte
  <2> HIDE DEF U
  <2> QED
    BY <1>1, <1>2, <2>1, OverwriteIs
<1>7. /\ Len(c) = t
      /\ \A i \in 1 .. t : c[i] = IF off < i /\ i <= off + n THEN v ELSE At(ideal, i)
  <2>1. 0 \in Byte \cup {EIO} /\ v \in Byte \cup {EIO}
    BY DEF Byte
  <2>2. Len(ideal) <= MaxSize
    BY <1>2, <1>4, Zenon
  <2>3. /\ Len(c) = Larger(Len(ideal), off + n)
        /\ \A i \in 1 .. Len(c) : c[i] = IF off < i /\ i <= off + n THEN v ELSE At(ideal, i)
    <3> DEFINE S == Byte \cup {EIO}
    <3>1. ideal \in Seq(S) /\ 0 \in S /\ v \in S /\ off + n <= MaxSize /\ off \in Nat /\ n \in Nat
      BY <1>1, <1>2, <1>4, <2>1, Zenon
    <3> HIDE DEF S
    <3> QED
      BY <2>2, <3>1, OverwriteIs
  <2> QED
    BY <1>4, <2>3, Zenon
<1> HIDE DEF t, U, o, c
<1>8. Len(U) <= Len(o) /\ off + n <= Len(o) /\ Len(o) \in Nat
  BY <1>2, <1>6 DEF Larger
<1>9. ASSUME NEW i \in 1 .. t PROVE i <= Len(o) /\ o[i] = c[i]
  <2>1. CASE off < i /\ i <= off + n
    <3>1. i \in 1 .. Len(o) /\ i <= Len(o)
      BY <1>5, <1>8, <2>1
    <3> QED
      BY <1>6, <1>7, <2>1, <3>1, Zenon
  <2>2. CASE ~(off < i /\ i <= off + n)
    <3>1. i \in 1 .. node.size /\ i <= Len(ideal)
      BY <1>1, <1>2, <1>4, <1>5, <2>2
    <3>2. i <= Len(U) /\ U[i] = ideal[i]
      BY <1>3, <3>1, Zenon
    <3>3. i \in 1 .. Len(o) /\ i <= Len(o)
      BY <1>2, <1>8, <3>1, <3>2
    <3> QED
      BY <1>6, <1>7, <2>2, <3>1, <3>2, <3>3, Zenon DEF At
  <2> QED
    BY <2>1, <2>2, Zenon
<1>10. /\ file' = [there |-> TRUE, bytes |-> o] /\ ideal' = c
       /\ node' = [size |-> t, pages |-> UpperPages \cup {Page(i) : i \in off .. off + n - 1},
                   lower |-> FALSE]
  BY Zenon DEF Write, t, U, o, c
<1>11. node'.size = t /\ node'.pages = PagesBelow(t) /\ file'.bytes = o /\ file'.there
  <2>1. UpperPages \cup {Page(i) : i \in off .. off + n - 1} = PagesBelow(t)
    <3>1. PagesBelow(node.size) \cup {Page(i) : i \in off .. off + n - 1} = PagesBelow(t)
      <4>1. node.size \in Sizes /\ off <= node.size /\ off + n <= MaxSize
        BY <1>1, <1>2, Zenon
      <4> QED
        BY <4>1, PagesWritten DEF t
    <3> QED
      BY <1>3, <3>1, Zenon
  <2> QED
    BY <1>10, <2>1, Zenon
<1>12. Shows(node, file, ideal)'
  BY <1>5, <1>7, <1>9, <1>10, <1>11, ShowsAll, Zenon
<1>13. trim' # NoTrim => trim' = node'.size
  <2>1. trim = NoTrim \/ trim = node.size
    BY <1>1, Zenon DEF DataInv, AttachedInv
  <2>2. trim' = IF trim = NoTrim THEN NoTrim ELSE Larger(trim, off + n)
    BY Zenon DEF Write
  <2> QED
    BY <2>1, <2>2, <1>11, Zenon DEF t
<1>14. Covers(file', meta)
  <2>1. \A i \in Held(meta) : i \in Nat
    BY <1>2 DEF Held
  <2> QED
    BY <1>2, <1>3, <1>8, <1>11, <2>1 DEF Covers
<1>15. pc' = "idle" /\ pc = "idle"
  BY <1>1, Zenon DEF Write
<1>16. Whole(node)' /\ Whole(meta)' /\ Named(file)' /\ Named(fileDisk)'
  BY <1>1, <1>11, Zenon DEF Whole, Named, DataInv
<1>17. Power => PowerInv'
  BY <1>1, <1>15, Zenon DEF DataInv, PowerInv
<1> QED
  BY <1>1, <1>12, <1>13, <1>14, <1>15, <1>16, <1>17, Zenon
     DEF DataInv, AttachedInv, BarrierInv, StoredInv, Power

\* A copy that fails part of the way changes no byte that is read.
LEMMA CopyFailsData ==
  ASSUME DataInv, RecordInv', NEW last, CopyFails(last), crashes' = crashes
  PROVE  DataInv'
<1>1. /\ file \in HostFile /\ node \in Node /\ meta \in Node /\ node.lower /\ pc = "idle"
      /\ Lower # <<>> /\ file' = CopyLower(file, last) /\ pc # "down"
      /\ node' = [node EXCEPT !.pages = @ \cup LowerPages(last)]
      /\ dirty' = (dirty \/ LowerPages(last) \ node.pages # {})
      /\ UNCHANGED <<fileDisk, trim, meta, pc, op, ideal, changed>>
  BY Zenon DEF DataInv, RecordInv, TypeOK, CopyFails
<1>2. /\ node'.size = node.size /\ node'.lower = node.lower
      /\ node'.pages = node.pages \cup LowerPages(last)
  BY <1>1, Zenon DEF Node
<1>3. /\ Shows(node, file, ideal) /\ (trim # NoTrim => trim = node.size) /\ Covers(file, meta)
      /\ node.size = Len(Lower)
  BY <1>1, Zenon DEF DataInv, AttachedInv, StoredInv, RecordInv, Sound
<1>4. /\ file' \in HostFile /\ Len(file.bytes) <= Len(file'.bytes) /\ file'.there
      /\ \A i \in 1 .. Len(file.bytes) : i \notin Copied(last) => file'.bytes[i] = file.bytes[i]
      /\ \A i \in Copied(last) : i <= Len(file'.bytes) /\ file'.bytes[i] = Lower[i]
      /\ Copied(last) = {} => file'.bytes = file.bytes
  BY <1>1, CopyIs, Zenon
<1>5. /\ Len(file.bytes) \in Nat /\ Len(file'.bytes) \in Nat /\ node.size \in Nat
      /\ meta.size \in Nat
  BY <1>1, <1>4, Parts, Zenon
<1>6. ASSUME NEW i \in Nat \ {0}, i <= Len(file.bytes)
      PROVE  /\ i <= Len(file'.bytes)
             /\ i \notin Copied(last) => file'.bytes[i] = file.bytes[i]
  <2>1. i \in 1 .. Len(file.bytes) /\ i <= Len(file'.bytes)
    BY <1>4, <1>5, <1>6
  <2> QED
    BY <1>4, <2>1, Zenon
<1>7. Shows(node, file, ideal)'
  <2>1. ASSUME NEW i \in 1 .. node.size, i \in Held(node')
        PROVE  i <= Len(file'.bytes) /\ ideal[i] = file'.bytes[i]
    <3>1. CASE i \in Copied(last)
      BY <1>1, <1>4, <3>1, CopiedIdeal, Zenon
    <3>2. CASE i \notin Copied(last)
      <4>1. Page(i - 1) \in node.pages
        BY <1>2, <1>3, <2>1, <3>2, Zenon DEF Held, Copied
      <4>2. i \in Held(node)
        BY <4>1, Zenon DEF Held
      <4>3. i <= Len(file.bytes) /\ ideal[i] = file.bytes[i] /\ i \in Nat \ {0}
        BY <1>3, <1>5, <4>2 DEF Shows, Covers
      <4> QED
        BY <1>6, <3>2, <4>3, Zenon
    <3> QED
      BY <3>1, <3>2, Zenon
  <2>2. ASSUME NEW i \in 1 .. node.size, i \notin Held(node')
        PROVE  ideal[i] = Else(node', i)
    <3>1. i \notin Held(node)
      BY <1>2, <2>2, Zenon DEF Held
    <3> QED
      BY <1>2, <1>3, <3>1, Zenon DEF Shows, Else
  <2>3. \A i \in Held(node') : i \in 1 .. node.size
    BY <1>2, Zenon DEF Held
  <2>4. node'.size = Len(ideal)
    BY <1>2, <1>3, Zenon DEF Shows
  <2> QED
    BY <1>1, <1>2, <2>1, <2>2, <2>3, <2>4, Zenon DEF Shows, Covers
<1>8. ASSUME NEW i \in Held(meta)
      PROVE  /\ i <= Len(file'.bytes)
             /\ i \notin Copied(last) => file'.bytes[i] = file.bytes[i]
  <2>1. i \in Nat \ {0} /\ i <= Len(file.bytes)
    BY <1>3, <1>5 DEF Covers, Held
  <2> QED
    BY <1>6, <2>1, Zenon
<1>9. StoredInv'
  <2>1. Covers(file', meta)
    BY <1>8, Zenon DEF Covers
  <2>2. ASSUME ~changed PROVE Shows(meta, file', ideal)
    <3>1. Shows(meta, file, ideal)
      BY <2>2, Zenon DEF DataInv, StoredInv
    <3>2. ASSUME NEW i \in Held(meta) PROVE i <= Len(file'.bytes) /\ file'.bytes[i] = file.bytes[i]
      <4>1. ideal[i] = file.bytes[i]
        BY <3>1, Zenon DEF Shows, Held
      <4>2. CASE i \in Copied(last)
        BY <1>1, <1>4, <4>1, <4>2, CopiedIdeal, Zenon
      <4>3. CASE i \notin Copied(last)
        BY <1>8, <4>3, Zenon
      <4> QED
        BY <4>2, <4>3, Zenon
    <3> QED
      BY <3>1, <3>2, ShowsSame, Zenon
  <2> QED
    BY <1>1, <2>1, <2>2, Zenon DEF StoredInv
<1>10. ASSUME Power PROVE PowerInv'
  <2>1. PowerInv
    BY <1>10, Zenon DEF DataInv
  <2>2. ASSUME ~dirty'
        PROVE  ~dirty /\ node' = node /\ file'.bytes = file.bytes
    <3>1. ~dirty /\ LowerPages(last) \ node.pages = {}
      BY <1>1, <2>2, Zenon
    <3>2. node'.pages = node.pages
      BY <1>2, <3>1, Zenon
    <3>3. node' = node
      BY <1>1, <3>2, Zenon DEF Node
    <3>4. Copied(last) = {}
      BY <3>1, Zenon DEF Copied
    <3> QED
      BY <1>4, <3>1, <3>3, <3>4, Zenon
  <2> QED
    BY <1>1, <2>1, <2>2, Zenon DEF PowerInv
<1>11. Whole(node)' /\ Whole(meta)' /\ Named(file)' /\ Named(fileDisk)'
  BY <1>1, <1>2, <1>4, Zenon DEF Whole, Named, DataInv
<1> QED
  BY <1>1, <1>2, <1>3, <1>7, <1>9, <1>10, <1>11, Zenon
     DEF DataInv, AttachedInv, BarrierInv, Power

\* A truncation that does not grow the file leaves its first bytes.
LEMMA TruncateData ==
  ASSUME Plain, DataInv, RecordInv', NEW size \in Sizes, Truncate(size), crashes' = crashes
  PROVE  DataInv'
<1> DEFINE copy == node.lower /\ size # 0
           base == IF copy THEN Upper ELSE file
           pages == IF copy THEN UpperPages ELSE node.pages
<1>1. /\ file \in HostFile /\ node \in Node /\ meta \in Node /\ TypeOK /\ Upper \in HostFile
      /\ pc = "idle" /\ pc # "down" /\ size <= node.size
      /\ UNCHANGED <<fileDisk, meta, pc, op>> /\ dirty' = TRUE /\ changed' = TRUE /\ trim' = size
      /\ Shows(node, file, ideal) /\ (trim # NoTrim => trim = node.size) /\ Covers(file, meta)
      /\ Sound(node) /\ Whole(node) /\ Named(file)
      /\ ideal' = Resize(ideal, size)
  BY UpperIs, Zenon DEF DataInv, RecordInv, TypeOK, Truncate, Plain, AttachedInv, StoredInv
<1>2. base \in HostFile
  BY <1>1, Zenon
<1>3. /\ node.size \in Sizes /\ node.size \in Nat /\ size \in Nat
  <2>1. node.size \in Sizes
    BY <1>1, Parts, Zenon
  <2> QED
    BY <2>1, PageAssumption DEF Sizes
<1>4. ZeroCut(base.bytes, pages, size) = base.bytes
  <2>1. ~(trim # NoTrim /\ size > trim)
    BY <1>1, <1>3
  <2> QED
    BY <2>1, Zenon DEF ZeroCut
<1>5. file' = base
  <2>1. file' = [base EXCEPT !.bytes = ZeroCut(@, pages, size)]
    BY Zenon DEF Truncate
  <2> HIDE DEF base, pages
  <2> QED
    BY <1>2, <1>4, <2>1 DEF HostFile
<1>6. node' = [size |-> size, pages |-> KeptPages(pages, size), lower |-> FALSE]
  BY Zenon DEF Truncate
<1>7. Named(base) /\ \A i \in Held(meta) : i <= Len(base.bytes)
  <2>1. Named(Upper) /\ \A i \in Held(meta) : i <= Len(Upper.bytes)
    BY <1>1, UpperShows, Zenon
  <2> QED
    BY <1>1, <2>1, Zenon DEF Covers
<1>8. \A i \in 1 .. size : i <= Len(base.bytes) /\ base.bytes[i] = ideal[i]
  <2>1. CASE copy
    <3>1. \A i \in 1 .. node.size : i <= Len(Upper.bytes) /\ Upper.bytes[i] = ideal[i]
      BY <1>1, UpperShows, Zenon
    <3>2. \A i \in 1 .. size : i \in 1 .. node.size
      BY <1>1, <1>3
    <3> QED
      BY <2>1, <3>1, <3>2, Zenon
  <2>2. CASE ~copy /\ size # 0
    <3>1. Held(node) = 1 .. node.size
      BY <1>1, <1>3, <2>2, HeldAll, Zenon DEF Whole
    <3>2. \A i \in 1 .. node.size : i <= Len(file.bytes) /\ file.bytes[i] = ideal[i]
      BY <1>1, <3>1, Zenon DEF Shows, Covers
    <3>3. \A i \in 1 .. size : i \in 1 .. node.size
      BY <1>1, <1>3
    <3> QED
      BY <2>2, <3>2, <3>3, Zenon
  <2>3. CASE size = 0
    BY <2>3
  <2> QED
    BY <2>1, <2>2, <2>3, Zenon
<1>9. PagesBelow(size) \subseteq KeptPages(pages, size)
  <2>1. CASE size = 0
    <3>1. \A p \in Pages : p * PageSize \in Nat
      BY PageAssumption DEF Pages, Page, Sizes
    <3> QED
      BY <2>1, <3>1 DEF PagesBelow
  <2>2. CASE size # 0
    <3>1. PagesBelow(node.size) \subseteq pages
      <4>1. UpperPages = PagesBelow(node.size)
        BY <1>1, UpperShows, Zenon
      <4> QED
        BY <1>1, <2>2, <4>1, Zenon DEF Whole
    <3>2. PagesBelow(size) \subseteq PagesBelow(node.size)
      BY <1>1, <1>3, PagesGrow, Zenon
    <3> HIDE DEF pages
    <3> QED
      BY <3>1, <3>2, Zenon DEF KeptPages
  <2> QED
    BY <2>1, <2>2, Zenon
<1>10. /\ Len(ideal') = size
       /\ \A i \in 1 .. size : ideal'[i] = ideal[i]
  <2> DEFINE S == Byte \cup {EIO}
  <2>1. ideal \in Seq(S) /\ 0 \in S /\ Len(ideal) = node.size
    BY <1>1, IdealIs, Zenon DEF Byte, Shows
  <2> HIDE DEF S
  <2>2. Len(Resize(ideal, size)) = size /\ \A i \in 1 .. size : Resize(ideal, size)[i] = At(ideal, i)
    BY <2>1, ResizeIs, ZenonT(60)
  <2>3. \A i \in 1 .. size : i <= Len(ideal)
    BY <1>1, <1>3, <2>1
  <2> QED
    BY <1>1, <2>2, <2>3, Zenon DEF At
<1> HIDE DEF base, pages, copy
<1>11. Shows(node, file, ideal)'
  <2>1. /\ node'.size = size /\ PagesBelow(node'.size) \subseteq node'.pages
    BY <1>6, <1>9, Zenon
  <2>2. \A i \in 1 .. node'.size : i <= Len(file'.bytes) /\ file'.bytes[i] = ideal'[i]
    BY <1>5, <1>8, <1>10, <2>1, Zenon
  <2>3. node'.size = Len(ideal')
    BY <1>10, <2>1, Zenon
  <2> QED
    BY <2>1, <2>2, <2>3, ShowsAll, Zenon
<1>12. Whole(node)' /\ Whole(meta)' /\ Named(file)' /\ Named(fileDisk)' /\ node'.size = size
  BY <1>1, <1>5, <1>6, <1>7, <1>9, Zenon DEF Whole, Named, DataInv
<1>13. Covers(file', meta)
  BY <1>5, <1>7, Zenon DEF Covers
<1>14. Power => PowerInv'
  BY <1>1, Zenon DEF DataInv, PowerInv
<1> QED
  BY <1>1, <1>11, <1>12, <1>13, <1>14, Zenon
     DEF DataInv, AttachedInv, BarrierInv, StoredInv, Power

\* Two data files that show the same contents agree where the record looks.
LEMMA ShowsAgree ==
  ASSUME NEW nd, NEW f, NEW g, NEW c, Shows(nd, f, c), Shows(nd, g, c)
  PROVE  \A i \in Held(nd) : f.bytes[i] = g.bytes[i]
<1>1. \A i \in Held(nd) : i \in 1 .. nd.size
  BY Zenon DEF Held
<1>2. \A i \in Held(nd) : c[i] = f.bytes[i]
  BY <1>1, Zenon DEF Shows
<1>3. \A i \in Held(nd) : c[i] = g.bytes[i]
  BY <1>1, Zenon DEF Shows
<1> QED
  BY <1>2, <1>3, SMT

\* A barrier syncs the data file, or finds it synced.
LEMMA SyncKeeps ==
  ASSUME DataInv, RecordInv', NEW o, SyncData(o), crashes' = crashes
  PROVE  DataInv'
<1>1. /\ pc = "idle" /\ pc' = "commit" /\ dirty' = FALSE
      /\ UNCHANGED <<file, node, trim, meta, ideal, changed>>
      /\ fileDisk' = file \/ (~dirty /\ fileDisk' = fileDisk)
  BY Zenon DEF SyncData, Synced
<1>2. ASSUME Power PROVE PowerInv'
  <2>1. CASE fileDisk' = file
    BY <1>1, <2>1, Zenon DEF DataInv, AttachedInv, StoredInv, PowerInv
  <2>2. CASE ~dirty /\ fileDisk' = fileDisk
    BY <1>1, <1>2, <2>2, Zenon DEF DataInv, PowerInv
  <2> QED
    BY <1>1, <2>1, <2>2, Zenon
<1>3. Named(fileDisk)'
  BY <1>1, Zenon DEF DataInv, Named
<1> QED
  BY <1>1, <1>2, <1>3, Zenon
     DEF DataInv, AttachedInv, BarrierInv, StoredInv, Power, Whole, Named

\* The record of a synced file is committed, by a barrier or by FsyncDir.
LEMMA CommitKeeps ==
  ASSUME DataInv, RecordInv', Commit \/ FsyncDir, crashes' = crashes
  PROVE  DataInv'
<1>1. CASE meta' = node /\ ~dirty /\ (Commit \/ FsyncDir)
  <2>1. /\ pc # "down" /\ pc' # "down" /\ UNCHANGED <<file, fileDisk, node, trim, dirty, ideal>>
        /\ pc' = "reclaim" \/ (pc' = "idle" /\ changed' = changed)
    BY <1>1, Zenon DEF Commit, FsyncDir
  <2>2. Shows(node, file, ideal) /\ Covers(file, node)
    BY <2>1, Zenon DEF DataInv, AttachedInv, Shows
  <2>3. ASSUME Power PROVE PowerInv'
    <3>1. Shows(node, fileDisk, ideal)
      BY <1>1, <2>1, <2>3, Zenon DEF DataInv, PowerInv
    <3>2. \A i \in Held(node) : fileDisk.bytes[i] = file.bytes[i]
      BY <2>2, <3>1, ShowsAgree, SMT
    <3> QED
      BY <1>1, <2>1, <3>1, <3>2, Zenon DEF PowerInv, Shows
  <2> QED
    BY <1>1, <2>1, <2>2, <2>3, Zenon
       DEF DataInv, AttachedInv, BarrierInv, StoredInv, Power, Whole, Named
<1>2. CASE FsyncDir /\ meta' = meta
  <2>1. UNCHANGED <<file, fileDisk, node, trim, dirty, meta, pc, op, ideal, changed>>
    BY <1>2, Zenon DEF FsyncDir
  <2> QED
    BY <2>1, ZenonT(60) DEF DataInv, AttachedInv, BarrierInv, StoredInv, Power, PowerInv, Whole, Named
<1>3. Commit => meta' = node /\ ~dirty
  BY Zenon DEF Commit, DataInv, BarrierInv
<1>4. FsyncDir => meta' = meta \/ (meta' = node /\ ~dirty)
  BY Zenon DEF FsyncDir, NamespaceRecord
<1> QED
  BY <1>1, <1>2, <1>3, <1>4, Zenon

\* The end of a barrier that failed, and the end of a process.
LEMMA FailsKeep ==
  ASSUME Plain, DataInv, RecordInv',
         CommitFails \/ ReclaimFails \/ ProcessCrash \/ \E o : SyncFails(o),
         crashes' = crashes
  PROVE  DataInv'
<1>1. /\ UNCHANGED <<file, fileDisk, node, trim, dirty, meta, ideal, changed>>
      /\ pc # "down" /\ pc' \in {"down", "idle"}
  BY Zenon DEF CommitFails, ReclaimFails, ProcessCrash, SyncFails, Finish
<1>2. ASSUME Power PROVE pc' = "idle" \/ ~dirty
  <2>1. crashes \in CrashModes
    BY Zenon DEF DataInv, RecordInv, TypeOK
  <2>2. "process" \notin crashes /\ "unsynced" \notin crashes
    BY <1>2, <2>1, Zenon DEF Plain, Power
  <2> QED
    BY <2>2, Zenon DEF CommitFails, ReclaimFails, ProcessCrash, SyncFails, DataInv, BarrierInv
<1>3. ASSUME Power PROVE PowerInv'
  BY <1>1, <1>2, <1>3, Zenon DEF DataInv, PowerInv
<1> QED
  BY <1>1, <1>3, Zenon
     DEF DataInv, AttachedInv, BarrierInv, StoredInv, Power, Whole, Named

\* Reclamation cuts the data file at the size the record has.
LEMMA ReclaimData ==
  ASSUME DataInv, RecordInv', Reclaim, crashes' = crashes
  PROVE  DataInv'
<1>1. /\ UNCHANGED <<fileDisk, node, dirty, meta, ideal, changed>> /\ trim' = NoTrim
      /\ pc = "reclaim" /\ pc # "down" /\ pc' \in {"down", "idle"}
  BY Zenon DEF Reclaim, Finish
<1>2. /\ file \in HostFile /\ node \in Node /\ meta = node /\ ~dirty
      /\ Shows(node, file, ideal) /\ (trim # NoTrim => trim = node.size) /\ Named(file)
  BY <1>1, Zenon DEF DataInv, RecordInv, TypeOK, BarrierInv, AttachedInv
<1>3. /\ \A i \in Held(node) : i <= Len(file'.bytes) /\ file'.bytes[i] = file.bytes[i]
      /\ Named(file)'
  <2>1. CASE ~(trim # NoTrim /\ file.there)
    BY <1>2, <2>1, Zenon DEF Reclaim, Shows, Covers, Named
  <2>2. CASE trim # NoTrim /\ file.there
    <3>1. /\ trim = node.size /\ trim \in Sizes /\ trim \in Nat /\ file.bytes \in Seq(Byte)
          /\ 0 \in Byte /\ Len(file.bytes) \in Nat
      BY <1>2, <2>2, Parts, Zenon DEF Byte
    <3>2. /\ Len(Resize(file.bytes, trim)) = trim
          /\ \A i \in 1 .. trim : Resize(file.bytes, trim)[i] = At(file.bytes, i)
      BY <3>1, ResizeIs, SMT
    <3>3. file' = [file EXCEPT !.bytes = Resize(@, trim)]
      BY <2>2, Zenon DEF Reclaim
    <3>4. file'.bytes = Resize(file.bytes, trim) /\ file'.there = file.there
      BY <1>2, <3>3, Zenon DEF HostFile
    <3>5. ASSUME NEW i \in Held(node)
          PROVE  i <= Len(file'.bytes) /\ file'.bytes[i] = file.bytes[i]
      <4>1. i \in 1 .. trim /\ i <= Len(file.bytes)
        BY <1>2, <3>1, Zenon DEF Held, Shows, Covers
      <4>2. i <= trim
        BY <3>1, <4>1
      <4> QED
        BY <3>2, <3>4, <4>1, <4>2, Zenon DEF At
    <3> QED
      BY <2>2, <3>4, <3>5, Zenon DEF Named
  <2> QED
    BY <2>1, <2>2, Zenon
<1>4. Shows(node, file', ideal)
  BY <1>2, <1>3, ShowsSame, Zenon
<1>5. ASSUME Power PROVE PowerInv'
  BY <1>1, <1>2, <1>3, <1>5, Zenon DEF DataInv, PowerInv
<1> QED
  BY <1>1, <1>2, <1>3, <1>4, <1>5, Zenon
     DEF DataInv, AttachedInv, BarrierInv, StoredInv, Power, Whole, Named, Shows

\* A power failure leaves of each byte the visible or the stable one.
LEMMA PowerData ==
  ASSUME DataInv, RecordInv', PowerFailure, crashes' = crashes
  PROVE  DataInv'
<1>1. PICK f \in Torn : file' = f /\ fileDisk' = f
  BY Zenon DEF PowerFailure
<1>2. /\ pc' = "down" /\ UNCHANGED <<node, trim, dirty, meta, ideal, changed>> /\ Power
  BY Zenon DEF PowerFailure, Power
<1>3. /\ file \in HostFile /\ fileDisk \in HostFile /\ meta \in Node /\ f \in HostFile
      /\ Covers(file, meta) /\ Covers(fileDisk, meta) /\ PowerInv /\ StoredInv /\ Named(fileDisk)
  BY <1>2, Zenon DEF DataInv, RecordInv, TypeOK, StoredInv, PowerInv, Torn
<1>4. Named(f)
  BY Zenon DEF Torn, Named
<1>5. /\ Len(file.bytes) \in Nat /\ Len(fileDisk.bytes) \in Nat /\ Len(f.bytes) \in Nat
      /\ meta.size \in Nat
  BY <1>3, Parts, Zenon
<1>6. ASSUME NEW i \in Held(meta)
      PROVE  i <= Len(f.bytes) /\ f.bytes[i] \in {file.bytes[i], fileDisk.bytes[i]}
  <2>1. i <= Len(file.bytes) /\ i <= Len(fileDisk.bytes) /\ i \in Nat \ {0}
    BY <1>3, <1>5 DEF Covers, Held
  <2>2. fileDisk.there
    <3>1. fileDisk.bytes # <<>>
      BY <1>5, <2>1
    <3> QED
      BY <1>3, <3>1, Zenon DEF Named
  <2>3. Len(f.bytes) \in {Len(file.bytes), Len(fileDisk.bytes)}
    BY <2>2, Zenon DEF Torn
  <2>4. i <= Len(f.bytes) /\ i \in 1 .. Len(f.bytes)
    BY <1>5, <2>1, <2>3
  <2>5. f.bytes[i] \in {At(file.bytes, i), At(fileDisk.bytes, i)}
    BY <2>4, Zenon DEF Torn
  <2> QED
    BY <2>1, <2>4, <2>5, Zenon DEF At
<1>7. Covers(f, meta)
  BY <1>6, Zenon DEF Covers
<1>8. ASSUME ~changed PROVE Shows(meta, f, ideal)
  <2>1. Shows(meta, file, ideal) /\ Shows(meta, fileDisk, ideal)
    BY <1>3, <1>8, Zenon DEF StoredInv, PowerInv
  <2>2. \A i \in Held(meta) : file.bytes[i] = fileDisk.bytes[i]
    BY <2>1, ShowsAgree, SMT
  <2>3. \A i \in Held(meta) : i <= Len(f.bytes) /\ f.bytes[i] = file.bytes[i]
    BY <1>6, <2>2, Zenon
  <2> QED
    BY <2>1, <2>3, ShowsSame, Zenon
<1> QED
  BY <1>1, <1>2, <1>4, <1>7, <1>8, Zenon
     DEF DataInv, AttachedInv, BarrierInv, StoredInv, PowerInv, Power, Whole, Named

\* The next attachment reads what the record shows.
LEMMA OpenData ==
  ASSUME DataInv, RecordInv', Open, crashes' = crashes
  PROVE  DataInv'
<1>1. /\ pc = "down" /\ pc' = "idle" /\ meta' = meta /\ node' = meta
      /\ trim' = NoTrim /\ dirty' = FALSE
      /\ file' = IF meta.pages = {} THEN NoFile ELSE file
      /\ fileDisk' = IF meta.pages = {} THEN NoFile ELSE fileDisk
      /\ ideal' = IF changed THEN Contents(meta, file') ELSE ideal
  BY Zenon DEF Open
<1>2. /\ meta \in Node /\ Covers(file, meta) /\ Whole(meta) /\ Named(file) /\ Named(fileDisk)
      /\ ~changed => Shows(meta, file, ideal)
  BY Zenon DEF DataInv, RecordInv, TypeOK, StoredInv
<1>3. Named(file)' /\ Named(fileDisk)'
  BY <1>1, <1>2, Zenon DEF Named, NoFile
<1>4. meta.pages = {} => Held(meta) = {}
  BY Zenon DEF Held
<1>5. Covers(file', meta)
  BY <1>1, <1>2, <1>4, Zenon DEF Covers
<1>6. \A i \in Held(meta) : file'.bytes[i] = file.bytes[i] /\ fileDisk'.bytes[i] = fileDisk.bytes[i]
                            /\ file' = file /\ fileDisk' = fileDisk
  BY <1>1, <1>4, Zenon
<1>7. Shows(meta, file', ideal')
  <2>1. CASE ~changed
    <3>1. Shows(meta, file, ideal) /\ ideal' = ideal
      BY <1>1, <1>2, <2>1, Zenon
    <3> QED
      BY <1>5, <1>6, <3>1, ShowsSame, Zenon DEF Covers
  <2>2. CASE changed
    <3>1. ideal' = Contents(meta, file')
      BY <1>1, <2>2, Zenon
    <3>2. meta.size \in Nat
      BY <1>2, Parts, Zenon DEF DataInv, RecordInv, TypeOK
    <3>3. Len(ideal') = meta.size
      <4>1. Contents(meta, file') \in [1 .. meta.size -> {Contents(meta, file')[i] : i \in 1 .. meta.size}]
        BY Zenon DEF Contents
      <4> QED
        BY <3>1, <3>2, <4>1, Lengths, Zenon
    <3>4. ASSUME NEW i \in 1 .. meta.size
          PROVE  ideal'[i] = IF i \in Held(meta) THEN file'.bytes[i] ELSE Else(meta, i)
      <4>1. CASE i \in Held(meta)
        BY <1>5, <3>1, <4>1, Zenon DEF Contents, Held, Covers
      <4>2. CASE i \notin Held(meta)
        BY <3>1, <4>2, Zenon DEF Contents, Held, Else
      <4> QED
        BY <4>1, <4>2, Zenon
    <3> QED
      BY <1>5, <3>3, <3>4, Zenon DEF Shows
  <2> QED
    BY <2>1, <2>2, Zenon DEF DataInv, RecordInv, TypeOK
<1>8. ASSUME Power PROVE PowerInv'
  <2>1. /\ Covers(fileDisk, meta)
        /\ \A i \in Held(meta) : fileDisk.bytes[i] = file.bytes[i]
    BY <1>1, <1>8, Zenon DEF DataInv, PowerInv
  <2>2. \A i \in Held(meta) : i <= Len(fileDisk'.bytes) /\ fileDisk'.bytes[i] = file'.bytes[i]
    BY <1>6, <2>1, Zenon DEF Covers
  <2>3. Shows(meta, fileDisk', ideal')
    BY <1>7, <2>2, ShowsSame, Zenon
  <2> QED
    BY <1>1, <2>2, <2>3, Zenon DEF PowerInv, Covers
<1> QED
  BY <1>1, <1>2, <1>3, <1>5, <1>7, <1>8, Zenon
     DEF DataInv, AttachedInv, BarrierInv, StoredInv, Power, Whole


\* Every step of the store keeps the file's contents.
LEMMA DataStep == Plain /\ DataInv /\ [Next]_vars => DataInv'
<1> SUFFICES ASSUME Plain, DataInv, [Next]_vars PROVE DataInv'
  OBVIOUS
<1>1. CASE UNCHANGED vars
  <2>1. UNCHANGED <<file, fileDisk, node, trim, dirty, meta, pc, op, crashes, ideal, changed>>
    BY <1>1, Zenon DEF vars
  <2>2. RecordInv'
    BY RecordStep, Zenon DEF DataInv
  <2>3. Power => PowerInv'
    BY <2>1, Zenon DEF DataInv, PowerInv
  <2> QED
    BY <2>1, <2>2, <2>3, Zenon
       DEF DataInv, AttachedInv, BarrierInv, StoredInv, Power, Whole, Named
<1>2. CASE Next
  <2>1. RecordInv' /\ crashes' = crashes
    BY <1>2, RecordStep, Zenon DEF DataInv, Next
  <2>2. ASSUME NEW off \in Sizes, NEW n \in 1 .. MaxSize, NEW v \in Byte, Write(off, n, v)
        PROVE  DataInv'
    BY <2>1, <2>2, WriteData, Zenon
  <2>3. ASSUME NEW last, CopyFails(last) PROVE DataInv'
    BY <2>1, <2>3, CopyFailsData, Zenon
  <2>4. ASSUME NEW size \in Sizes, Truncate(size) PROVE DataInv'
    BY <2>1, <2>4, TruncateData, Zenon
  <2>5. ASSUME NEW o, SyncData(o) PROVE DataInv'
    BY <2>1, <2>5, SyncKeeps, Zenon
  <2>6. CASE Commit \/ FsyncDir
    BY <2>1, <2>6, CommitKeeps, Zenon
  <2>7. CASE CommitFails \/ ReclaimFails \/ ProcessCrash \/ \E o : SyncFails(o)
    BY <2>1, <2>7, FailsKeep, Zenon
  <2>8. CASE Reclaim
    BY <2>1, <2>8, ReclaimData, Zenon
  <2>9. CASE PowerFailure
    BY <2>1, <2>9, PowerData, ZenonT(60)
  <2>10. CASE Open
    BY <2>1, <2>10, OpenData, Zenon
  <2> QED
    BY <1>2, <2>2, <2>3, <2>4, <2>5, <2>6, <2>7, <2>8, <2>9, <2>10, ZenonT(60) DEF Next, Step
<1> QED
  BY <1>1, <1>2, Zenon

\* A file nothing has been recorded of reads as the lower file.
LEMMA DataInit == Init => DataInv
<1> SUFFICES ASSUME Init PROVE DataInv
  OBVIOUS
<1>1. /\ file = NoFile /\ fileDisk = NoFile /\ node = Fresh /\ meta = Fresh /\ ideal = Lower
      /\ trim = NoTrim /\ pc = "idle" /\ RecordInv
  BY RecordInit, Zenon DEF Init
<1>2. Fresh.size = Len(Lower) /\ Fresh.pages = {} /\ Fresh.lower = TRUE
  BY Zenon DEF Fresh
<1>3. Held(Fresh) = {}
  BY <1>2, Zenon DEF Held
<1>4. \A i \in 1 .. Len(Lower) : Lower[i] = Else(Fresh, i)
  <2>1. \A i \in 1 .. Len(Lower) : i <= Len(Lower)
    BY LowerAssumption
  <2> QED
    BY <1>2, <2>1, Zenon DEF Else, At
<1>5. Covers(NoFile, Fresh) /\ Shows(Fresh, NoFile, Lower)
  BY <1>2, <1>3, <1>4, Zenon DEF Covers, Shows
<1>6. Whole(Fresh) /\ Named(NoFile)
  BY <1>2, Zenon DEF Whole, Named, NoFile
<1> QED
  BY <1>1, <1>3, <1>5, <1>6, Zenon
     DEF DataInv, AttachedInv, BarrierInv, StoredInv, PowerInv

\* What the attached file reads as, byte by byte.
LEMMA ReadsIdeal ==
  ASSUME DataInv, pc # "down"
  PROVE  /\ Len(Contents(node, file)) = node.size /\ Len(ideal) = node.size
         /\ \A i \in 1 .. node.size : Contents(node, file)[i] = ideal[i]
         /\ \A i \in 1 .. node.size : Contents(node, file)[i] # EIO
<1>1. Shows(node, file, ideal) /\ node \in Node /\ file \in HostFile
  BY Zenon DEF DataInv, AttachedInv, RecordInv, TypeOK
<1>2. node.size \in Nat /\ file.bytes \in Seq(Byte)
  BY <1>1, Parts, Zenon
<1>3. Len(Contents(node, file)) = node.size
  <2>1. Contents(node, file) \in [1 .. node.size -> {Contents(node, file)[i] : i \in 1 .. node.size}]
    BY Zenon DEF Contents
  <2> QED
    BY <1>2, <2>1, Lengths, Zenon
<1>4. ASSUME NEW i \in 1 .. node.size
      PROVE  Contents(node, file)[i] = ideal[i] /\ Contents(node, file)[i] # EIO
  <2>1. CASE i \in Held(node)
    <3>1. Page(i - 1) \in node.pages /\ i <= Len(file.bytes)
      BY <1>1, <2>1, Zenon DEF Held, Shows, Covers
    <3>2. Contents(node, file)[i] = file.bytes[i]
      BY <3>1, Zenon DEF Contents
    <3>3. file.bytes[i] \in Byte
      BY <1>2, <3>1
    <3>4. file.bytes[i] # EIO
      BY <3>3 DEF Byte, EIO
    <3> QED
      BY <1>1, <2>1, <3>2, <3>4, Zenon DEF Shows
  <2>2. CASE i \notin Held(node)
    <3>1. Page(i - 1) \notin node.pages
      BY <2>2, Zenon DEF Held
    <3>2. Contents(node, file)[i] = Else(node, i)
      BY <3>1, Zenon DEF Contents, Else
    <3>3. Else(node, i) # EIO
      BY <1>2, LowerAssumption DEF Else, At, EIO
    <3> QED
      BY <1>1, <2>2, <3>2, <3>3, Zenon DEF Shows
  <2> QED
    BY <2>1, <2>2, Zenon
<1> QED
  BY <1>1, <1>3, <1>4, Zenon DEF Shows

\* Where Plain holds, Read returns the bytes the caller put there, in every
\* attachment and across Fsync, SyncFS and Close, barriers that fail at whatever
\* step, and either power failures or kills and Closes whose data sync failed.
THEOREM FileContentsCorrect == Plain /\ Spec => []FileContents
<1>1. DataInv => FileContents
  <2> SUFFICES ASSUME DataInv, pc # "down" PROVE FileContents
    BY Zenon DEF FileContents
  <2>1. /\ Len(Contents(node, file)) = node.size /\ Len(ideal) = node.size
        /\ \A i \in 1 .. node.size : Contents(node, file)[i] = ideal[i]
    BY ReadsIdeal, Zenon
  <2> QED
    BY <2>1, Zenon DEF FileContents
<1>2. CASE Plain
  <2>1. DataInv /\ [Next]_vars => DataInv'
    BY <1>2, DataStep, Zenon
  <2> QED
    BY <1>1, <2>1, DataInit, PTL DEF Spec
<1>3. CASE ~Plain
  BY <1>3, ZenonT(60)
<1> QED
  BY <1>2, <1>3, Zenon

\* Where Plain holds, no read runs past the end of the data file.
THEOREM ReadableCorrect == Plain /\ Spec => []Readable
<1>1. DataInv => Readable
  BY ReadsIdeal, Zenon DEF Readable
<1>2. CASE Plain
  <2>1. DataInv /\ [Next]_vars => DataInv'
    BY <1>2, DataStep, Zenon
  <2> QED
    BY <1>1, <2>1, DataInit, PTL DEF Spec
<1>3. CASE ~Plain
  BY <1>3, Zenon
<1> QED
  BY <1>2, <1>3, Zenon
=============================================================================
