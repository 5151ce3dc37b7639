------------------------------ MODULE TcpConn ------------------------------
(***************************************************************************)
(* One established TCP connection of the user-mode network stack           *)
(* (internal/core/netstack: tcpConn in netstack.go, its send and receive   *)
(* buffers in tcp.go) and the proxy that uses it (proxyConns).             *)
(*                                                                         *)
(* The proxy's writer sends a response to the guest, its reader takes the  *)
(* guest's request.  A unit is the payload of one segment and consumes one *)
(* sequence number.  The steps of Write, of the retransmission timer's     *)
(* callback and of handleSegment interleave where the code does not hold   *)
(* c.mu.  What handleSegment does after its last unlock (enqueueData,      *)
(* sendAck and sendFin, or Close) is one step, and the fast retransmit,    *)
(* for which it lets go of c.mu, belongs to the step before.  Segments are *)
(* handled one after the other.  The two directions of the link are FIFO   *)
(* queues that may lose segments.  The guest's TCP is external.            *)
(***************************************************************************)
EXTENDS Integers, Sequences, FiniteSets

CONSTANTS
  Loads,        \* the connections to consider: units of response (down) and of request
                \* (up), the guest's receive buffer (wnd) and the capacity of the
                \* retransmission queue (cap), in units, how many faults the link and
                \* the guest have (faults) and how the guest ends (ends)
  InitSeq,      \* the first sequence number of both directions
  SeqMod,       \* sequence numbers are kept modulo this (2^32 in the code)
  RecvCap,      \* capacity of the channel recvBuf (512)
  OOOCap,       \* capacity of the reassembly buffer (maxOOOSegments)
  MaxRetries,   \* retransmissions of a segment before the connection closes
  DupThreshold, \* duplicate ACKs that trigger a fast retransmit
  Lossy         \* kinds of segment the link may lose

Kinds == {"data", "ack", "fin", "update"}

ASSUME WidthAssumption == SeqMod \in Nat /\ SeqMod >= 4 /\ InitSeq \in 0 .. SeqMod - 1
ASSUME BoundAssumption ==
  /\ Loads \subseteq [down : Nat, up : Nat, wnd : Nat \ {0}, cap : Nat \ {0}, faults : Nat,
                      ends : {"last", "first", "reset"}]
  /\ {RecvCap, OOOCap, MaxRetries, DupThreshold} \subseteq Nat \ {0}
ASSUME KindAssumption == Lossy \subseteq Kinds

VARIABLES
  c,        \* the fields of tcpConn that c.mu guards
  sendBuf,  \* c.sendBuf.segments
  ooo,      \* c.oooRecvBuf.segments
  recvBuf,  \* the channel c.recvBuf; the unit 0 is the nil that means EOF
  timer,    \* c.retxTimer, timers it no longer refers to, the running callback
  rest,     \* what handleSegment has yet to do without c.mu, if it runs
  writer,   \* the goroutine that copies to the guest
  reader,   \* the goroutine that copies from the guest, what it has read and
            \* (history) whether the FIN came before data that precedes it
  guest,    \* the guest's socket and the application behind it
  toGuest,  \* segments on their way to the guest
  toHost,   \* segments on their way to the host
  faults    \* losses, resets and needless retransmissions still to come

vars == <<c, sendBuf, ooo, recvBuf, timer, rest, writer, reader, guest, toGuest, toHost, faults>>

Plus(a, n) == (a + n) % SeqMod

\* seqLTE and seqGT: the sign of the 32-bit difference.
SeqLTE(a, b) == (a - b) % SeqMod \in {0} \cup (SeqMod \div 2 .. SeqMod - 1)
SeqGT(a, b) == ~SeqLTE(a, b)

(***************************************************************************)
(* The connection after its handshake.                                     *)
(***************************************************************************)
Init ==
  /\ \E load \in Loads :
     /\ writer = [pc |-> "pick", len |-> load.down, cap |-> load.cap, n |-> 0, seq |-> InitSeq, ack |-> InitSeq]
     /\ guest = [rcvNxt |-> InitSeq, got |-> <<>>, unread |-> 0, wnd |-> load.wnd, eof |-> FALSE,
                 early |-> {}, len |-> load.up, sent |-> 0, sndUna |-> InitSeq, sndNxt |-> InitSeq,
                 fin |-> FALSE, ends |-> load.ends]
     /\ c = [state |-> "established", closed |-> FALSE, writeClosed |-> FALSE,
             hostSeq |-> InitSeq, guestSeq |-> InitSeq, sendAcked |-> InitSeq,
             peerWnd |-> load.wnd, dupAcks |-> 0]
     /\ faults = load.faults
  /\ reader = [pc |-> "read", heard |-> <<>>, cut |-> FALSE]
  /\ sendBuf = <<>> /\ ooo = {} /\ recvBuf = <<>> /\ rest = <<>>
  /\ timer = [cur |-> "nil", stray |-> 0, cb |-> "idle", seg |-> <<>>]
  /\ toGuest = <<>> /\ toHost = <<>>

(***************************************************************************)
(* Segments to the guest: sendTCPPacket of data, sendAck, sendFin.         *)
(***************************************************************************)
Data(seq, ack, unit) == [seq |-> seq, ack |-> ack, data |-> unit, fin |-> FALSE]
Ack(cc) == [seq |-> cc.hostSeq, ack |-> cc.guestSeq, data |-> 0, fin |-> FALSE]
Fin(cc) == [Ack(cc) EXCEPT !.fin = TRUE]

(***************************************************************************)
(* The retransmission queue: ack removes what lies at or below ackNum.     *)
(***************************************************************************)
Kept(buf, left) ==
  LET nth(k) == CHOOSE i \in left : Cardinality({j \in left : j < i}) = k - 1
  IN [k \in 1 .. Cardinality(left) |-> buf[nth(k)]]

\* Mutant: a segment is dropped as soon as its first byte is acknowledged up to.
AckBufByStart(buf, ackNum) == Kept(buf, {i \in 1 .. Len(buf) : SeqGT(buf[i].seq, ackNum)})

AckBuf(buf, ackNum) == Kept(buf, {i \in 1 .. Len(buf) : SeqGT(Plus(buf[i].seq, 1), ackNum)})

(***************************************************************************)
(* c.retxTimer: nil, a timer still to fire, or one whose callback started. *)
(* A timer it no longer refers to still fires (stray).                     *)
(***************************************************************************)
StartRetxTimer(t) == IF t.cur = "nil" THEN [t EXCEPT !.cur = "armed"] ELSE t
RestartRetxTimer(t) == [t EXCEPT !.cur = "armed"]
StopRetxTimer(t) == [t EXCEPT !.cur = "nil"]

\* A callback stores a new timer without stopping the one it replaces.
Schedule(t) == [t EXCEPT !.cur = "armed", !.cb = "idle", !.seg = <<>>,
                         !.stray = IF t.cur = "armed" THEN @ + 1 ELSE @]

\* sendCond.Broadcast: a writer that waits for the window or for room in the
\* queue looks again.
Broadcast(w) == [w EXCEPT !.pc = CASE @ = "wait" -> "pick" [] @ = "parked" -> "append" [] OTHER -> @]

(***************************************************************************)
(* Close: the second call does nothing.  recvBuf is closed (c.closed): what *)
(* it holds can still be read.                                             *)
(***************************************************************************)
Close(cc, w, out) ==
  LET needFin == cc.state = "established" /\ ~cc.writeClosed IN
  /\ c' = [cc EXCEPT !.state = "closed", !.closed = TRUE, !.hostSeq = IF needFin THEN Plus(@, 1) ELSE @]
  /\ writer' = Broadcast(w)
  /\ sendBuf' = <<>> /\ ooo' = {}
  /\ toGuest' = out \o IF needFin THEN <<Fin(cc)>> ELSE <<>>

(***************************************************************************)
(* Write, one unit at a time.  Under c.mu it takes a sequence number, or   *)
(* waits for the window.                                                   *)
(***************************************************************************)
InFlight == (c.hostSeq - c.sendAcked) % SeqMod

WritePick ==
  /\ writer.pc = "pick" /\ writer.n < writer.len
  /\ IF c.closed \/ c.writeClosed
       THEN /\ writer' = [writer EXCEPT !.pc = "failed"] /\ UNCHANGED c
       ELSE IF InFlight < c.peerWnd
         THEN /\ writer' = [writer EXCEPT !.pc = "send", !.seq = c.hostSeq, !.ack = c.guestSeq]
              /\ c' = [c EXCEPT !.hostSeq = Plus(@, 1)]
         ELSE /\ writer' = [writer EXCEPT !.pc = "wait"] /\ UNCHANGED c
  /\ UNCHANGED <<sendBuf, ooo, recvBuf, timer, rest, reader, guest, toGuest, toHost, faults>>

\* The segment leaves before it is in the retransmission queue: its ACK may
\* be handled first.
WriteSend ==
  /\ writer.pc = "send"
  /\ toGuest' = Append(toGuest, Data(writer.seq, writer.ack, writer.n + 1))
  /\ writer' = [writer EXCEPT !.pc = "append", !.ack = InitSeq]
  /\ UNCHANGED <<c, sendBuf, ooo, recvBuf, timer, rest, reader, guest, toHost, faults>>

Segment == [seq |-> writer.seq, data |-> writer.n + 1, retx |-> 0]

WriteAppend ==
  /\ writer.pc = "append"
  /\ IF Len(sendBuf) < writer.cap
       THEN /\ sendBuf' = Append(sendBuf, Segment)
            /\ writer' = [writer EXCEPT !.pc = "reconcile"]
       ELSE /\ writer' = [writer EXCEPT !.pc = "full"] /\ UNCHANGED sendBuf
  /\ UNCHANGED <<c, ooo, recvBuf, timer, rest, reader, guest, toGuest, toHost, faults>>

\* The queue is full: drop what is acknowledged and try again, then wait.
WriteFull ==
  /\ writer.pc = "full"
  /\ LET buf == AckBuf(sendBuf, c.sendAcked) IN
     IF c.closed
       THEN /\ writer' = [writer EXCEPT !.pc = "failed"] /\ UNCHANGED sendBuf
       ELSE IF Len(buf) < writer.cap
         THEN /\ sendBuf' = Append(buf, Segment)
              /\ writer' = [writer EXCEPT !.pc = "reconcile"]
         ELSE /\ sendBuf' = buf
              /\ writer' = [writer EXCEPT !.pc = "parking"]
  /\ UNCHANGED <<c, ooo, recvBuf, timer, rest, reader, guest, toGuest, toHost, faults>>

\* sendCond.Wait, which looks at nothing again before it waits.
WritePark ==
  /\ writer.pc = "parking"
  /\ writer' = [writer EXCEPT !.pc = "parked"]
  /\ UNCHANGED <<c, sendBuf, ooo, recvBuf, timer, rest, reader, guest, toGuest, toHost, faults>>

\* Drop the segment if its ACK was handled before it was queued.
Written == [writer EXCEPT !.pc = "pick", !.n = @ + 1]

WriteReconcile ==
  /\ writer.pc = "reconcile"
  /\ sendBuf' = AckBuf(sendBuf, c.sendAcked)
  /\ writer' = IF sendBuf' = <<>> THEN Written ELSE [writer EXCEPT !.pc = "timer"]
  /\ UNCHANGED <<c, ooo, recvBuf, timer, rest, reader, guest, toGuest, toHost, faults>>

WriteTimer ==
  /\ writer.pc = "timer"
  /\ timer' = StartRetxTimer(timer)
  /\ writer' = Written
  /\ UNCHANGED <<c, sendBuf, ooo, recvBuf, rest, reader, guest, toGuest, toHost, faults>>

\* The response has ended: the proxy's copy calls CloseWrite.
CloseWrite ==
  /\ writer.pc = "pick" /\ writer.n = writer.len
  /\ IF c.closed \/ c.state # "established"
       THEN /\ writer' = [writer EXCEPT !.pc = IF c.closed THEN "done" ELSE "failed"]
            /\ UNCHANGED <<c, toGuest>>
       ELSE /\ c' = [c EXCEPT !.writeClosed = TRUE, !.hostSeq = Plus(@, 1)]
            /\ toGuest' = Append(toGuest, Fin(c))
            /\ writer' = [writer EXCEPT !.pc = "done"]
  /\ UNCHANGED <<sendBuf, ooo, recvBuf, timer, rest, reader, guest, toHost, faults>>

(***************************************************************************)
(* The retransmission timer.  One callback runs at a time: a timer that    *)
(* fires during another callback is taken to fire after it.                *)
(***************************************************************************)
TimerFires ==
  /\ timer.cb = "idle"
  /\ \/ timer.cur = "armed" /\ timer' = [timer EXCEPT !.cur = "fired", !.cb = "run"]
     \/ timer.stray > 0 /\ timer' = [timer EXCEPT !.stray = @ - 1, !.cb = "run"]
  /\ UNCHANGED <<c, sendBuf, ooo, recvBuf, writer, rest, reader, guest, toGuest, toHost, faults>>

\* onRetxTimeout up to its first unlock, when nothing is to be sent again:
\* the connection is closed, or the queue is empty.
TimeoutIdle ==
  /\ timer.cb = "run" /\ (c.closed \/ sendBuf = <<>>)
  /\ timer' = IF c.closed THEN [timer EXCEPT !.cb = "idle"]
              ELSE [timer EXCEPT !.cb = "idle", !.cur = "nil",
                                 !.stray = IF timer.cur = "armed" THEN @ + 1 ELSE @]
  /\ UNCHANGED <<c, sendBuf, ooo, recvBuf, writer, rest, reader, guest, toGuest, toHost, faults>>

\* The oldest segment was sent a short time ago: only reschedule.
TimeoutSpurious ==
  /\ timer.cb = "run" /\ ~c.closed /\ sendBuf # <<>>
  /\ timer' = [timer EXCEPT !.cb = "schedule"]
  /\ UNCHANGED <<c, sendBuf, ooo, recvBuf, writer, rest, reader, guest, toGuest, toHost, faults>>

TimeoutGivesUp ==
  /\ timer.cb = "run" /\ ~c.closed /\ sendBuf # <<>>
  /\ Head(sendBuf).retx >= MaxRetries
  /\ Close(c, writer, toGuest)
  /\ timer' = [StopRetxTimer(timer) EXCEPT !.cb = "idle"]
  /\ UNCHANGED <<recvBuf, rest, reader, guest, toHost, faults>>

TimeoutPicks ==
  /\ timer.cb = "run" /\ ~c.closed /\ sendBuf # <<>>
  /\ LET oldest == Head(sendBuf) IN
     /\ oldest.retx < MaxRetries
     /\ timer' = [timer EXCEPT !.cb = "resend", !.seg = <<Data(oldest.seq, c.guestSeq, oldest.data)>>]
     /\ c' = IF oldest.retx > 0 THEN [c EXCEPT !.dupAcks = 0] ELSE c
  /\ UNCHANGED <<sendBuf, ooo, recvBuf, writer, rest, reader, guest, toGuest, toHost, faults>>

\* c.mu is not held: the queue may have changed, and the segment that is
\* marked as retransmitted is the one that is now the oldest.
TimeoutResends ==
  /\ timer.cb = "resend"
  /\ sendBuf' = IF sendBuf = <<>> THEN sendBuf ELSE [sendBuf EXCEPT ![1].retx = @ + 1]
  /\ toGuest' = toGuest \o timer.seg
  /\ timer' = [timer EXCEPT !.cb = "schedule", !.seg = <<>>]
  /\ UNCHANGED <<c, ooo, recvBuf, writer, rest, reader, guest, toHost, faults>>

TimeoutSchedules ==
  /\ timer.cb = "schedule"
  /\ timer' = Schedule(timer)
  /\ UNCHANGED <<c, sendBuf, ooo, recvBuf, writer, rest, reader, guest, toGuest, toHost, faults>>

(***************************************************************************)
(* handleSegment, first part: the acknowledgement and the window.  New     *)
(* data acknowledged is told by a plain comparison of the numbers.         *)
(***************************************************************************)
Advances(h) == h.ack > c.sendAcked

Duplicate(h) ==
  /\ h.ack = c.sendAcked /\ sendBuf # <<>>
  /\ h.data = 0 /\ ~h.fin /\ ~h.rst /\ h.wnd = c.peerWnd

\* Mutant: any new acknowledgement moves the send position.
ResyncsAlways(h) == h.ack > c.sendAcked

Resyncs(h) == h.ack > c.hostSeq

Acked(h) ==
  [c EXCEPT !.peerWnd = h.wnd,
            !.sendAcked = IF Advances(h) \/ Resyncs(h) THEN h.ack ELSE @,
            !.hostSeq = IF Resyncs(h) THEN h.ack ELSE @,
            !.dupAcks = IF Advances(h) THEN 0
                        ELSE IF Duplicate(h) /\ @ <= DupThreshold THEN @ + 1 ELSE @]

AckedBuf(h) == IF Advances(h) THEN AckBuf(sendBuf, h.ack) ELSE sendBuf

\* Mutant: the timer is stopped although segments are left.
AckedTimerStops(h) == IF Advances(h) THEN StopRetxTimer(timer) ELSE timer

AckedTimer(h) ==
  IF ~Advances(h) THEN timer
  ELSE IF AckedBuf(h) # <<>> THEN RestartRetxTimer(timer) ELSE StopRetxTimer(timer)

\* The writer is woken by new data acknowledged and by a window that opens
\* from zero.
\* Mutant: a window that opens wakes nobody.
AckedWriterAsleep(h) == IF Advances(h) \/ Resyncs(h) THEN Broadcast(writer) ELSE writer

AckedWriter(h) ==
  IF Advances(h) \/ Resyncs(h) \/ (c.peerWnd = 0 /\ h.wnd > 0) THEN Broadcast(writer) ELSE writer

\* The fast retransmit on the DupThreshold-th duplicate.
FastRetransmit(h) ==
  IF Duplicate(h) /\ c.dupAcks + 1 = DupThreshold
    THEN <<Data(Head(sendBuf).seq, c.guestSeq, Head(sendBuf).data)>> ELSE <<>>

AckPart(h) ==
  /\ sendBuf' = AckedBuf(h) /\ timer' = AckedTimer(h) /\ writer' = AckedWriter(h)

(***************************************************************************)
(* handleSegment, second part.                                             *)
(***************************************************************************)
\* enqueueData: a channel that is full drops what comes.
Enqueue(buf, items) ==
  LET room == RecvCap - Len(buf)
  IN IF Len(items) <= room THEN buf \o items ELSE buf \o SubSeq(items, 1, room)

\* collectContiguous: the units of the reassembly buffer that follow next.
Contiguous(next) ==
  LET has(i) == \E s \in ooo : s.seq = Plus(next, i)
      n == CHOOSE k \in 0 .. Cardinality(ooo) : ~has(k) /\ \A i \in 0 .. k - 1 : has(i)
  IN [i \in 1 .. n |-> CHOOSE s \in ooo : s.seq = Plus(next, i - 1)]

\* insert: no overlap with what is there, and not beyond its capacity.
Insert(h) ==
  IF SeqGT(h.seq, c.guestSeq) /\ (\A s \in ooo : s.seq # h.seq) /\ Cardinality(ooo) < OOOCap
    THEN ooo \cup {[seq |-> h.seq, data |-> h.data]} ELSE ooo

\* What handleSegment leaves for the time after its unlock: units (and 0 for
\* EOF) for the reader, an ACK and perhaps our own FIN; or Close.
Answer(items, fin) == <<[items |-> items, fin |-> fin, close |-> FALSE]>>
Closing == <<[items |-> <<>>, fin |-> FALSE, close |-> TRUE]>>

\* The connection is closed, or no longer in the stack's table.
SegmentDropped(h) ==
  /\ c.closed
  /\ UNCHANGED <<c, sendBuf, ooo, timer, rest, writer, reader, toGuest>>

\* Mutant: the ACK covers the segment that was only buffered.
SegmentOutOfOrderAcked(h) ==
  /\ ~c.closed /\ c.state = "established" /\ h.data # 0 /\ h.seq # c.guestSeq
  /\ AckPart(h)
  /\ c' = [Acked(h) EXCEPT !.guestSeq = Plus(h.seq, 1)] /\ ooo' = Insert(h)
  /\ rest' = Answer(<<>>, FALSE)
  /\ UNCHANGED <<reader, toGuest>>

SegmentOutOfOrder(h) ==
  /\ ~c.closed /\ c.state = "established" /\ h.data # 0 /\ h.seq # c.guestSeq
  /\ AckPart(h)
  /\ c' = Acked(h) /\ ooo' = Insert(h)
  /\ rest' = Answer(<<>>, FALSE)
  /\ UNCHANGED <<reader, toGuest>>

\* What a FIN adds: EOF for the reader, an ACK, and our own FIN unless it was
\* sent.  Mutant: the EOF overtakes the payload of its segment.
FinishEofFirst(cc, items) ==
  /\ c' = [cc EXCEPT !.guestSeq = Plus(@, 1), !.state = "finwait"]
  /\ rest' = Answer(<<0>> \o items, ~cc.writeClosed)

Finish(cc, items) ==
  /\ c' = [cc EXCEPT !.guestSeq = Plus(@, 1), !.state = "finwait"]
  /\ rest' = Answer(Append(items, 0), ~cc.writeClosed)

\* Mutant: the sequence number is not looked at.
SegmentAnyOrder(h) ==
  /\ ~c.closed /\ c.state = "established" /\ h.data # 0
  /\ AckPart(h)
  /\ LET follow == Contiguous(Plus(h.seq, 1))
         cc == [Acked(h) EXCEPT !.guestSeq = Plus(@, 1 + Len(follow))]
         items == <<h.data>> \o [i \in DOMAIN follow |-> follow[i].data]
     IN /\ ooo' = ooo \ {follow[i] : i \in DOMAIN follow}
        /\ IF h.fin THEN Finish(cc, items) ELSE c' = cc /\ rest' = Answer(items, FALSE)
  /\ UNCHANGED <<reader, toGuest>>

SegmentInOrder(h) ==
  /\ ~c.closed /\ c.state = "established" /\ h.data # 0 /\ h.seq = c.guestSeq
  /\ AckPart(h)
  /\ LET follow == Contiguous(Plus(h.seq, 1))
         cc == [Acked(h) EXCEPT !.guestSeq = Plus(@, 1 + Len(follow))]
         items == <<h.data>> \o [i \in DOMAIN follow |-> follow[i].data]
     IN /\ ooo' = ooo \ {follow[i] : i \in DOMAIN follow}
        /\ IF h.fin THEN Finish(cc, items) ELSE c' = cc /\ rest' = Answer(items, FALSE)
  /\ UNCHANGED <<reader, toGuest>>

\* A FIN without data is taken whatever its sequence number.
SegmentFin(h) ==
  /\ ~c.closed /\ c.state = "established" /\ h.data = 0 /\ h.fin
  /\ AckPart(h)
  /\ Finish(Acked(h), <<>>)
  /\ reader' = [reader EXCEPT !.cut = h.seq # c.guestSeq]
  /\ UNCHANGED <<ooo, toGuest>>

SegmentAck(h) ==
  /\ ~c.closed /\ c.state = "established" /\ h.data = 0 /\ ~h.fin /\ ~h.rst
  /\ AckPart(h)
  /\ c' = Acked(h)
  /\ toGuest' = toGuest \o FastRetransmit(h)
  /\ UNCHANGED <<ooo, rest, reader>>

\* A reset, or any ACK after the guest's FIN, closes the connection.
SegmentCloses(h) ==
  /\ ~c.closed
  /\ AckPart(h)
  /\ \/ /\ c.state = "established" /\ h.data = 0 /\ ~h.fin /\ h.rst
        /\ c' = Acked(h)
     \/ /\ c.state = "finwait"
        /\ c' = [Acked(h) EXCEPT !.state = "closed"]
  /\ rest' = Closing
  /\ toGuest' = toGuest \o FastRetransmit(h)
  /\ UNCHANGED <<ooo, reader>>

\* handleSegment up to its last unlock.
HandleSegment ==
  /\ rest = <<>> /\ toHost # <<>>
  /\ toHost' = Tail(toHost)
  /\ LET h == Head(toHost) IN
     \/ SegmentDropped(h) \/ SegmentOutOfOrder(h) \/ SegmentInOrder(h)
     \/ SegmentFin(h) \/ SegmentAck(h) \/ SegmentCloses(h)
  /\ UNCHANGED <<recvBuf, guest, faults>>

\* enqueueData gives nothing to a connection that was closed in between; the
\* ACK and the FIN are sent all the same.
HandleAnswers ==
  /\ rest # <<>> /\ ~rest[1].close
  /\ rest' = <<>>
  /\ recvBuf' = IF c.closed THEN recvBuf ELSE Enqueue(recvBuf, rest[1].items)
  /\ c' = IF rest[1].fin THEN [c EXCEPT !.hostSeq = Plus(@, 1)] ELSE c
  /\ toGuest' = toGuest \o <<Ack(c)>> \o IF rest[1].fin THEN <<Fin(c)>> ELSE <<>>
  /\ UNCHANGED <<sendBuf, ooo, timer, writer, reader, guest, toHost, faults>>

HandleCloses ==
  /\ rest # <<>> /\ rest[1].close
  /\ rest' = <<>>
  /\ IF c.closed THEN UNCHANGED <<c, sendBuf, ooo, timer, writer, toGuest>>
     ELSE Close(c, writer, toGuest) /\ timer' = StopRetxTimer(timer)
  /\ UNCHANGED <<recvBuf, reader, guest, toHost, faults>>

(***************************************************************************)
(* The proxy: its reader, and Close when a copy failed or both have ended. *)
(***************************************************************************)
Read ==
  /\ reader.pc = "read"
  /\ IF recvBuf = <<>>
       THEN /\ c.closed
            /\ reader' = [reader EXCEPT !.pc = "failed"] /\ UNCHANGED recvBuf
       ELSE /\ recvBuf' = Tail(recvBuf)
            /\ reader' = IF Head(recvBuf) = 0 THEN [reader EXCEPT !.pc = "done"]
                         ELSE [reader EXCEPT !.heard = Append(@, Head(recvBuf))]
  /\ UNCHANGED <<rest, c, sendBuf, ooo, timer, writer, guest, toGuest, toHost, faults>>

ProxyCloses ==
  /\ ~c.closed
  /\ \/ "failed" \in {writer.pc, reader.pc}
     \/ writer.pc = "done" /\ reader.pc = "done"
  /\ Close(c, writer, toGuest)
  /\ timer' = StopRetxTimer(timer)
  /\ UNCHANGED <<recvBuf, rest, reader, guest, toHost, faults>>

(***************************************************************************)
(* The guest's TCP (external): it takes segments in order, acknowledges    *)
(* every one that carries data or FIN, retransmits what is not             *)
(* acknowledged and announces a window that opens from zero.               *)
(***************************************************************************)
Window(g) == g.wnd - g.unread
Up(g, data, fin, rst, upd) ==
  [seq |-> IF data # 0 \/ fin THEN g.sndUna ELSE g.sndNxt, ack |-> g.rcvNxt, wnd |-> Window(g),
   data |-> data, fin |-> fin, rst |-> rst, upd |-> upd]

\* Data within the window and a FIN are kept until what precedes them comes.
Takes(g, p) ==
  LET off == (p.seq - g.rcvNxt) % SeqMod
      early == IF ~g.eof /\ (p.fin \/ off < Window(g)) /\ off < SeqMod \div 2
                 THEN g.early \cup {[seq |-> p.seq, data |-> p.data]} ELSE g.early
      has(i) == \E s \in early : s.seq = Plus(g.rcvNxt, i)
      n == CHOOSE k \in 0 .. Cardinality(early) : ~has(k) /\ \A i \in 0 .. k - 1 : has(i)
      run == [i \in 1 .. n |-> (CHOOSE s \in early : s.seq = Plus(g.rcvNxt, i - 1)).data]
      data == SelectSeq(run, LAMBDA u : u # 0)
  IN [g EXCEPT !.rcvNxt = Plus(@, n), !.got = @ \o data, !.unread = @ + Len(data),
               !.eof = @ \/ Len(data) < n,
               !.early = {s \in early : SeqLTE(Plus(g.rcvNxt, n), s.seq)}]

GuestReceives ==
  /\ toGuest # <<>>
  /\ toGuest' = Tail(toGuest)
  /\ LET p == Head(toGuest)
         g == [guest EXCEPT !.sndUna = IF SeqGT(p.ack, @) THEN p.ack ELSE @]
     IN IF p.data # 0 \/ p.fin
          THEN /\ guest' = Takes(g, p)
               /\ toHost' = Append(toHost, Up(guest', 0, FALSE, FALSE, FALSE))
          ELSE guest' = g /\ UNCHANGED toHost
  /\ UNCHANGED <<c, sendBuf, ooo, recvBuf, timer, writer, rest, reader, faults>>

GuestReads ==
  /\ guest.unread > 0
  /\ guest' = [guest EXCEPT !.unread = @ - 1]
  /\ toHost' = IF Window(guest) = 0 THEN Append(toHost, Up(guest', 0, FALSE, FALSE, TRUE)) ELSE toHost
  /\ UNCHANGED <<c, sendBuf, ooo, recvBuf, timer, writer, rest, reader, toGuest, faults>>

\* The guest ends after the response, or ("first") before it.
MayEnd == guest.eof \/ guest.ends = "first"

\* The last unit may carry the FIN.
GuestSends ==
  /\ guest.sent < guest.len
  /\ \E fin \in {FALSE} \cup {guest.sent + 1 = guest.len /\ MayEnd} :
     /\ guest' = [guest EXCEPT !.sent = @ + 1, !.sndNxt = Plus(@, IF fin THEN 2 ELSE 1), !.fin = fin]
     /\ toHost' = Append(toHost, [Up(guest, guest.sent + 1, fin, FALSE, FALSE) EXCEPT !.seq = guest.sndNxt])
  /\ UNCHANGED <<c, sendBuf, ooo, recvBuf, timer, writer, rest, reader, toGuest, faults>>

\* The FIN does not wait until the data before it is acknowledged.
GuestFins ==
  /\ guest.sent = guest.len /\ ~guest.fin
  /\ MayEnd
  /\ guest' = [guest EXCEPT !.fin = TRUE, !.sndNxt = Plus(@, 1)]
  /\ toHost' = Append(toHost, [Up(guest, 0, TRUE, FALSE, FALSE) EXCEPT !.seq = guest.sndNxt])
  /\ UNCHANGED <<c, sendBuf, ooo, recvBuf, timer, writer, rest, reader, toGuest, faults>>

\* A retransmission when nothing is on the way, or, as a fault, a needless one.
GuestRetransmits ==
  /\ guest.sndUna # guest.sndNxt
  /\ LET n == guest.sent - ((guest.sndNxt - guest.sndUna) % SeqMod) + 1
         unit == IF guest.fin THEN n + 1 ELSE n
     IN toHost' = Append(toHost, IF unit > guest.len THEN Up(guest, 0, TRUE, FALSE, FALSE)
                                 ELSE Up(guest, unit, FALSE, FALSE, FALSE))
  /\ \/ toHost = <<>> /\ toGuest = <<>> /\ ~c.closed /\ UNCHANGED faults
     \/ faults > 0 /\ faults' = faults - 1
  /\ UNCHANGED <<c, sendBuf, ooo, recvBuf, timer, writer, rest, reader, guest, toGuest>>

GuestResets ==
  /\ guest.ends = "reset" /\ faults > 0
  /\ faults' = 0
  /\ toHost' = Append(toHost, Up(guest, 0, FALSE, TRUE, FALSE))
  /\ UNCHANGED <<c, sendBuf, ooo, recvBuf, timer, writer, rest, reader, guest, toGuest>>

(***************************************************************************)
(* The link loses the segment at the head of one direction.                *)
(***************************************************************************)
Kind(p, upd) == CASE p.data # 0 -> "data" [] p.fin -> "fin" [] upd -> "update" [] OTHER -> "ack"

Loses ==
  /\ faults > 0 /\ faults' = faults - 1
  /\ \/ /\ toGuest # <<>> /\ Kind(Head(toGuest), FALSE) \in Lossy
        /\ toGuest' = Tail(toGuest) /\ UNCHANGED toHost
     \/ /\ toHost # <<>> /\ ~Head(toHost).rst /\ Kind(Head(toHost), Head(toHost).upd) \in Lossy
        /\ toHost' = Tail(toHost) /\ UNCHANGED toGuest
  /\ UNCHANGED <<c, sendBuf, ooo, recvBuf, timer, writer, rest, reader, guest>>

Writes == WritePick \/ WriteSend \/ WriteAppend \/ WriteFull \/ WritePark \/ WriteReconcile \/ WriteTimer \/ CloseWrite
Timeout == TimeoutIdle \/ TimeoutGivesUp \/ TimeoutPicks
Guest == GuestReceives \/ GuestReads \/ GuestSends \/ GuestFins

Next ==
  \/ Writes \/ Read \/ ProxyCloses
  \/ TimerFires \/ TimeoutSpurious \/ Timeout \/ TimeoutResends \/ TimeoutSchedules
  \/ HandleSegment \/ HandleAnswers \/ HandleCloses
  \/ Guest \/ GuestRetransmits \/ GuestResets \/ Loses

Spec == Init /\ [][Next]_vars

(***************************************************************************)
(* Fairness: the program and the guest do not all stop while one of the    *)
(* proxy's goroutines, the network loop or the guest can go on, a timer    *)
(* fires and its callback runs.  A timer is not early for ever (SF on      *)
(* Timeout): the age of the oldest segment grows between two callbacks.    *)
(***************************************************************************)
FairSpec ==
  /\ Spec
  /\ WF_vars(Writes \/ Read \/ ProxyCloses \/ HandleSegment \/ HandleAnswers \/ HandleCloses
            \/ Guest \/ GuestRetransmits)
  /\ WF_vars(TimerFires \/ TimeoutResends \/ TimeoutSchedules) /\ SF_vars(Timeout)

\* Types and capacities: numbers stay within their width, no buffer exceeds its
\* capacity, no segment is sent again more often than onRetxTimeout allows.
TypeOK ==
  /\ c.state \in {"established", "finwait", "closed"} /\ (c.closed => c.state = "closed")
  /\ {c.hostSeq, c.guestSeq, c.sendAcked} \subseteq 0 .. SeqMod - 1
  /\ c.peerWnd \in 0 .. guest.wnd /\ c.dupAcks \in 0 .. DupThreshold + 1
  /\ Len(sendBuf) <= writer.cap /\ Len(recvBuf) <= RecvCap /\ Cardinality(ooo) <= OOOCap
  /\ \A i \in DOMAIN sendBuf : sendBuf[i].retx \in 0 .. MaxRetries
  /\ timer.cur \in {"nil", "armed", "fired"} /\ timer.stray \in 0 .. writer.len
  /\ timer.cb \in {"idle", "run", "resend", "schedule"}

\* Both ends get the units in order, none twice, none left out (Write,
\* handleSegment, collectContiguous), whatever is lost and sent again.
InOrder ==
  /\ guest.got = [i \in DOMAIN guest.got |-> i]
  /\ reader.heard = [i \in DOMAIN reader.heard |-> i]

\* A guest that sees the end of the response has all of it: the FIN of a
\* connection that did not fail follows the last byte ("Wait for the peer to
\* finish the other half so response bytes are not truncated", proxyConns).
ResponseWhole == guest.eof /\ (c.writeClosed \/ ~c.closed) => Len(guest.got) = writer.len

\* A reader that sees the end of the request has all of it (handleSegment
\* delivers the payload before the EOF).  The exception is a FIN without data
\* that comes while data before it is missing: handleSegment does not compare
\* its number, and the reader gets a clean EOF after part of the request.
RequestWhole == reader.pc = "done" /\ ~reader.cut => Len(reader.heard) = guest.len

\* What Write reported as written and the guest has not received is in the
\* retransmission queue: an ACK handled before the segment is queued, or by
\* another goroutine, drops no other segment.
NothingLost ==
  ~c.closed => \A k \in Len(guest.got) + 1 .. writer.n :
                 \E i \in DOMAIN sendBuf : sendBuf[i].data = k

\* Units that wait in recvBuf or that handleSegment is about to put there.
Queued ==
  LET given == IF rest = <<>> THEN <<>> ELSE rest[1].items
  IN SelectSeq(recvBuf \o given, LAMBDA u : u # 0)

\* What the host acknowledged is read, waits in recvBuf or is about to be put
\* there (handleSegment, enqueueData): an acknowledged unit will not be sent
\* again.  A FIN counts as one unit.
AckedKept ==
  ~c.closed =>
    Len(reader.heard) + Len(Queued)
      = ((c.guestSeq - InitSeq) % SeqMod) - (IF c.state = "established" THEN 0 ELSE 1)

\* While segments wait for their ACK a timer will fire or its callback runs:
\* startRetxTimer, restartRetxTimer, stopRetxTimer and onRetxTimeout run in
\* three goroutines.  Write is excepted between its append and startRetxTimer.
RetxArmed ==
  ~c.closed /\ sendBuf # <<>> /\ writer.pc \notin {"reconcile", "timer"}
    => timer.cur = "armed" \/ timer.stray > 0 \/ timer.cb # "idle"

Over == {"done", "failed"}

\* The connection closes and both copies of the proxy end.  A writer that waits
\* for room in the queue is excepted: Write tests the room, then takes c.mu
\* again and waits, and misses a broadcast between the two.
Ends ==
  \/ <>(c.closed /\ writer.pc \in Over /\ reader.pc \in Over)
  \/ <>[](writer.pc = "parked")
=============================================================================
