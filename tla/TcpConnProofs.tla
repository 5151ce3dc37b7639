--------------------------- MODULE TcpConnProofs ---------------------------
(***************************************************************************)
(* RetxArmed for every load, window, capacity, width of the sequence       *)
(* numbers and number of faults.                                           *)
(*                                                                         *)
(* The invariant adds that a timer of c.retxTimer that has fired has its   *)
(* callback running.  startRetxTimer does nothing when c.retxTimer is set; *)
(* without this fact it might be set to a timer that will not act again.   *)
(***************************************************************************)
EXTENDS TcpConn, FiniteSetTheorems, TLAPS

Shape ==
  /\ {"closed", "state", "hostSeq", "writeClosed"} \subseteq DOMAIN c
  /\ {"pc", "n"} \subseteq DOMAIN writer
  /\ {"cur", "stray", "cb", "seg"} \subseteq DOMAIN timer
  /\ timer.cur \in {"nil", "armed", "fired"} /\ timer.stray \in Nat

FiredRuns == ~c.closed /\ timer.cur = "fired" => timer.cb # "idle"

IInv == Shape /\ FiredRuns /\ RetxArmed

\* A queue that is empty stays empty when acknowledged segments leave it.
LEMMA AckBufEmpty == ASSUME NEW a PROVE AckBuf(<<>>, a) = <<>>
<1>1. {i \in 1 .. Len(<<>>) : SeqGT(Plus(<<>>[i].seq, 1), a)} = {}
  OBVIOUS
<1>2. Cardinality({}) = 0
  BY FS_EmptySet, Zenon
<1> QED
  BY <1>1, <1>2 DEF AckBuf, Kept

\* Write and CloseWrite.
LEMMA WritesKeep == ASSUME IInv, Writes PROVE IInv'
<1>1. CASE WritePick
  BY <1>1, Zenon DEF IInv, Shape, FiredRuns, RetxArmed, WritePick
<1>2. CASE WriteSend
  BY <1>2, Zenon DEF IInv, Shape, FiredRuns, RetxArmed, WriteSend
<1>3. CASE WriteAppend
  BY <1>3, Zenon DEF IInv, Shape, FiredRuns, RetxArmed, WriteAppend
<1>4. CASE WriteFull
  BY <1>4, AckBufEmpty, Zenon DEF IInv, Shape, FiredRuns, RetxArmed, WriteFull
<1>5. CASE WritePark
  BY <1>5, Zenon DEF IInv, Shape, FiredRuns, RetxArmed, WritePark
<1>6. CASE WriteReconcile
  BY <1>6, Zenon DEF IInv, Shape, FiredRuns, RetxArmed, WriteReconcile, Written
<1>7. CASE WriteTimer
  BY <1>7, Zenon DEF IInv, Shape, FiredRuns, RetxArmed, WriteTimer, Written, StartRetxTimer
<1>8. CASE CloseWrite
  BY <1>8, Zenon DEF IInv, Shape, FiredRuns, RetxArmed, CloseWrite
<1> QED
  BY <1>1, <1>2, <1>3, <1>4, <1>5, <1>6, <1>7, <1>8, Zenon DEF Writes

\* Close, whoever calls it, ends every claim about the timer.
LEMMA CloseKeeps ==
  ASSUME NEW cc, NEW w, NEW out, Close(cc, w, out), Shape',
         {"closed", "state", "hostSeq", "writeClosed"} \subseteq DOMAIN cc
  PROVE  IInv'
<1>1. c'.closed
  BY Zenon DEF Close
<1> QED
  BY <1>1, Zenon DEF IInv, FiredRuns, RetxArmed

\* The timer and its callback.
LEMMA TimerKeeps ==
  ASSUME IInv, TimerFires \/ TimeoutSpurious \/ Timeout \/ TimeoutResends \/ TimeoutSchedules
  PROVE  IInv'
<1>1. CASE TimerFires
  <2>1. timer'.cb = "run" /\ timer'.cur \in {timer.cur, "fired"} /\ timer'.stray \in Nat
    <3>1. CASE timer' = [timer EXCEPT !.cur = "fired", !.cb = "run"]
      BY <3>1, Zenon DEF IInv, Shape
    <3>2. CASE timer.stray > 0 /\ timer' = [timer EXCEPT !.stray = @ - 1, !.cb = "run"]
      <4>1. timer'.stray = timer.stray - 1 /\ timer'.cb = "run" /\ timer'.cur = timer.cur
        BY <3>2, Zenon DEF IInv, Shape
      <4> QED
        BY <3>2, <4>1 DEF IInv, Shape
    <3> QED
      BY <1>1, <3>1, <3>2, Zenon DEF TimerFires
  <2>2. {"cur", "stray", "cb", "seg"} \subseteq DOMAIN timer'
    BY <1>1, Zenon DEF IInv, Shape, TimerFires
  <2> QED
    BY <1>1, <2>1, <2>2, Zenon DEF IInv, Shape, FiredRuns, RetxArmed, TimerFires
<1>2. CASE TimeoutSpurious
  BY <1>2, Zenon DEF IInv, Shape, FiredRuns, RetxArmed, TimeoutSpurious
<1>3. CASE TimeoutIdle
  BY <1>3 DEF IInv, Shape, FiredRuns, RetxArmed, TimeoutIdle
<1>4. CASE TimeoutGivesUp
  <2>1. Shape'
    BY <1>4, Zenon DEF IInv, Shape, TimeoutGivesUp, Close, Broadcast, StopRetxTimer
  <2> QED
    BY <1>4, <2>1, CloseKeeps, Zenon DEF IInv, Shape, TimeoutGivesUp
<1>5. CASE TimeoutPicks
  BY <1>5, Zenon DEF IInv, Shape, FiredRuns, RetxArmed, TimeoutPicks
<1>6. CASE TimeoutResends
  BY <1>6, Zenon DEF IInv, Shape, FiredRuns, RetxArmed, TimeoutResends
<1>7. CASE TimeoutSchedules
  BY <1>7 DEF IInv, Shape, FiredRuns, RetxArmed, TimeoutSchedules, Schedule
<1> QED
  BY <1>1, <1>2, <1>3, <1>4, <1>5, <1>6, <1>7, Zenon DEF Timeout

\* The acknowledgement of a segment: the timer follows the queue.
LEMMA AckPartKeeps ==
  ASSUME IInv, NEW h, AckPart(h), c'.closed = c.closed,
         {"closed", "state", "hostSeq", "writeClosed"} \subseteq DOMAIN c'
  PROVE  IInv'
<1>1. writer'.pc = writer.pc \/ (writer.pc \in {"wait", "parked"} /\ writer'.pc \in {"pick", "append"})
  BY Zenon DEF IInv, Shape, AckPart, AckedWriter, Broadcast
<1>2. {"pc", "n"} \subseteq DOMAIN writer'
  BY Zenon DEF IInv, Shape, AckPart, AckedWriter, Broadcast
<1>3. CASE ~Advances(h)
  BY <1>1, <1>2, <1>3, Zenon DEF IInv, Shape, FiredRuns, RetxArmed, AckPart, AckedBuf, AckedTimer
<1>4. CASE Advances(h) /\ AckedBuf(h) # <<>>
  BY <1>1, <1>2, <1>4, Zenon DEF IInv, Shape, FiredRuns, RetxArmed, AckPart, AckedTimer, RestartRetxTimer
<1>5. CASE Advances(h) /\ AckedBuf(h) = <<>>
  BY <1>1, <1>2, <1>5, Zenon DEF IInv, Shape, FiredRuns, RetxArmed, AckPart, AckedTimer, StopRetxTimer
<1> QED
  BY <1>3, <1>4, <1>5, Zenon

\* handleSegment.
LEMMA SegmentKeeps == ASSUME IInv, HandleSegment PROVE IInv'
<1> DEFINE h == Head(toHost)
           Fields == {"closed", "state", "hostSeq", "writeClosed"}
<1>1. Acked(h).closed = c.closed /\ Fields \subseteq DOMAIN Acked(h)
  BY Zenon DEF IInv, Shape, Acked
<1>2. ASSUME NEW items, NEW cc, cc.closed = c.closed, Fields \subseteq DOMAIN cc, Finish(cc, items)
      PROVE  c'.closed = c.closed /\ Fields \subseteq DOMAIN c'
  BY <1>2, Zenon DEF Finish
<1>3. CASE SegmentDropped(h)
  BY <1>3, Zenon DEF IInv, Shape, FiredRuns, RetxArmed, SegmentDropped
<1>4. CASE SegmentOutOfOrder(h)
  BY <1>4, <1>1, AckPartKeeps, Zenon DEF SegmentOutOfOrder
<1>5. CASE SegmentInOrder(h)
  <2> DEFINE cc == [Acked(h) EXCEPT !.guestSeq = Plus(@, 1 + Len(Contiguous(Plus(h.seq, 1))))]
  <2>1. cc.closed = c.closed /\ Fields \subseteq DOMAIN cc
    BY <1>1, Zenon
  <2>2. c'.closed = c.closed /\ Fields \subseteq DOMAIN c'
    BY <1>5, <2>1, <1>2, Zenon DEF SegmentInOrder
  <2> QED
    BY <1>5, <2>2, AckPartKeeps, Zenon DEF SegmentInOrder
<1>6. CASE SegmentFin(h)
  BY <1>6, <1>1, <1>2, AckPartKeeps, Zenon DEF SegmentFin
<1>7. CASE SegmentAck(h)
  BY <1>7, <1>1, AckPartKeeps, Zenon DEF SegmentAck
<1>8. CASE SegmentCloses(h)
  <2>1. c'.closed = c.closed /\ Fields \subseteq DOMAIN c'
    BY <1>1, <1>8, Zenon DEF SegmentCloses
  <2> QED
    BY <1>8, <2>1, AckPartKeeps, Zenon DEF SegmentCloses
<1> QED
  BY <1>3, <1>4, <1>5, <1>6, <1>7, <1>8, Zenon DEF HandleSegment

\* What handleSegment does after its last unlock.
LEMMA RestKeeps == ASSUME IInv, HandleAnswers \/ HandleCloses PROVE IInv'
<1>1. CASE HandleAnswers
  BY <1>1, Zenon DEF IInv, Shape, FiredRuns, RetxArmed, HandleAnswers
<1>2. CASE HandleCloses /\ c.closed
  BY <1>2, Zenon DEF IInv, Shape, FiredRuns, RetxArmed, HandleCloses
<1>3. CASE HandleCloses /\ ~c.closed
  <2>1. Shape'
    BY <1>3, Zenon DEF IInv, Shape, HandleCloses, Close, Broadcast, StopRetxTimer
  <2> QED
    BY <1>3, <2>1, CloseKeeps, Zenon DEF IInv, Shape, HandleCloses
<1> QED
  BY <1>1, <1>2, <1>3

\* The invariant of the retransmission timer.
THEOREM InvCorrect == Spec => []IInv
<1>1. Init => IInv
  BY DEF Init, IInv, Shape, FiredRuns, RetxArmed
<1>2. IInv /\ [Next]_vars => IInv'
  <2> SUFFICES ASSUME IInv, [Next]_vars PROVE IInv'
    OBVIOUS
  <2>1. CASE Read \/ Guest \/ GuestRetransmits \/ GuestResets \/ Loses
    BY <2>1, Zenon DEF IInv, Shape, FiredRuns, RetxArmed, Read, Guest, GuestReceives, GuestReads, GuestSends,
                GuestFins, GuestRetransmits, GuestResets, Loses
  <2>2. CASE ProxyCloses
    <3>1. Shape'
      BY <2>2, Zenon DEF IInv, Shape, ProxyCloses, Close, Broadcast, StopRetxTimer
    <3> QED
      BY <2>2, <3>1, CloseKeeps, Zenon DEF IInv, Shape, ProxyCloses
  <2>3. CASE UNCHANGED vars
    BY <2>3, Zenon DEF vars, IInv, Shape, FiredRuns, RetxArmed
  <2> QED
    BY <2>1, <2>2, <2>3, WritesKeep, TimerKeeps, SegmentKeeps, RestKeeps, Zenon DEF Next
<1> QED
  BY <1>1, <1>2, PTL DEF Spec

\* A segment that waits for its ACK is never left without a timer or a running
\* callback (startRetxTimer, stopRetxTimer, onRetxTimeout), for every load,
\* window, capacity, width of the sequence numbers and number of faults.
THEOREM RetxArmedCorrect == Spec => []RetxArmed
<1>1. IInv => RetxArmed
  BY Zenon DEF IInv
<1> QED
  BY <1>1, InvCorrect, PTL
=============================================================================
