------------------------------- MODULE Vsock -------------------------------
(***************************************************************************)
(* The virtio-vsock device (vsock.go): connections that a guest opens to a *)
(* service of the host, the goroutine that carries each connection's bytes *)
(* to the guest, flow control by credit, and the end of the device.        *)
(*                                                                         *)
(* Every handler of a guest packet runs under v.mu, so it is one step,     *)
(* except that two call the backend with the lock held and may block in    *)
(* it: handleConnectLocked in Connect, while the listener's queue is full, *)
(* and handleDataLocked in Write, while the connection's channel is full.  *)
(* The packet whose handler is in the backend is in `held'; until it       *)
(* leaves, nothing that needs v.mu happens.                                *)
(*                                                                         *)
(* A packet to the guest is appended to pendingRx and moves to the used    *)
(* ring as receive buffers allow.  The guest's driver and the service are  *)
(* external: they are modelled by the packets they send and by the calls   *)
(* they make.  The service need not accept, read or close.                 *)
(*                                                                         *)
(* Bytes are numbers: byte i of a connection is the i-th the service wrote.*)
(* A packet's `conn' and `at' (its first byte) stand for its payload; the  *)
(* device never looks at them.                                             *)
(***************************************************************************)
EXTENDS Integers, Sequences, FiniteSets, SequencesExt, FiniteSetsExt

CONSTANTS
  Ports,        \* the guest's ports; the service's port is fixed
  MaxConns,     \* connections opened in a behaviour
  GuestAlloc,   \* buf_alloc of the guest's sockets
  HostAlloc,    \* vsockDefaultBufSize
  Wrap,         \* 2^32, the range of the credit counters
  Chunks,       \* sizes of the service's writes
  MaxDown,      \* a bound on the bytes the services write
  ChanCap,      \* 64, the capacity of a simpleVsockConn's channel
  Backlog,      \* 16, the capacity of a listener's queue
  RxBufs,       \* receive buffers of the guest's driver
  MaxOut,       \* packets the guest's sockets have waiting for the device
  Loads,        \* what may happen in a behaviour: connections opened, bytes the
                \* services write (down), packets of data the guest sends (up),
                \* which ends occur, whether a keepalive ever runs (KVM alone has one)
  EarlyReuse    \* a port is used again while its last reader still runs

ASSUME WidthAssumption ==
  /\ GuestAlloc \in Nat \ {0} /\ HostAlloc \in Nat \ {0}
  /\ Wrap \in Nat /\ GuestAlloc < Wrap /\ HostAlloc < Wrap
ASSUME PortAssumption == 0 \notin Ports
ASSUME BoundAssumption ==
  /\ {MaxConns, ChanCap, Backlog, RxBufs} \subseteq Nat \ {0}
  /\ {MaxDown, MaxOut} \subseteq Nat
  /\ Chunks \subseteq Nat \ {0}
  /\ Loads \subseteq
       [conns : 1..MaxConns, down : 0..MaxDown, up : Nat, keepalive : BOOLEAN,
        ends : SUBSET {"service", "guest", "listener", "close", "detach", "reset"}]
  /\ EarlyReuse \in BOOLEAN

VARIABLES
  load,       \* the member of Loads
  table,      \* v.connections: port -> connection, or None
  conn,       \* the vsockConnection and the simpleVsockConn pair of each
  reader,     \* readFromBackend of each: where it is, bytes left of its chunk
  held,       \* the packet whose handler is in the backend with v.mu held, if any
  pendingRx,  \* v.pendingRx
  used,       \* packets in the used ring that the driver has not taken
  avail,      \* receive buffers the device may fill
  wake,       \* the device's interrupt: "idle", "raised" or the driver "awake"
  attached,   \* v.mem # nil
  closing,    \* Close: "no", "marked", "waiting", "returned"
  listener,   \* the service's simpleVsockListener: its queue, whether it is open
  keepalive,  \* whether startVirtioKeepalive's goroutine runs
  guest,      \* the guest's socket on each port
  out         \* packets the guest's sockets wait to send

vars == <<load, table, conn, reader, held, pendingRx, used, avail, wake, attached,
          closing, listener, keepalive, guest, out>>
Host == <<load, attached, closing, listener, keepalive>>

None == 0
Conns == 1..MaxConns
Opened == {c \in Conns : conn[c].port # None}

NoSocket == [state |-> "closed", conn |-> None, unread |-> 0, fwd |-> 0,
             sent |-> 0, known |-> 0, asked |-> FALSE]
Unused ==
  [port |-> None, state |-> "idle", peerCnt |-> 0, txCnt |-> 0, rxCnt |-> 0,
   asked |-> FALSE, closed |-> FALSE, serviceClosed |-> FALSE,
   down |-> <<>>, up |-> <<>>, written |-> 0, taken |-> 0, got |-> 0, spoken |-> 0]

Init ==
  /\ load \in Loads
  /\ table = [p \in Ports |-> None]
  /\ conn = [c \in Conns |-> Unused]
  /\ reader = [c \in Conns |-> [at |-> "none", left |-> 0]]
  /\ held = <<>>
  /\ pendingRx = <<>> /\ used = <<>> /\ avail = RxBufs /\ wake = "idle"
  /\ attached = TRUE /\ closing = "no"
  /\ listener = [open |-> TRUE, queue |-> <<>>] /\ keepalive = FALSE
  /\ guest = [p \in Ports |-> NoSocket]
  /\ out = <<>>

-----------------------------------------------------------------------------
(* Packets and the receive queue. *)

\* The counters are uint32.
Plus(count, n) == (count + n) % Wrap

ToGuest(op, port, c, first, len) ==
  [op |-> op, port |-> port, conn |-> c, at |-> first, len |-> len,
   cnt |-> IF c = None THEN 0 ELSE conn[c].rxCnt]
Control(op, port, c) == ToGuest(op, port, c, 0, 0)
FromGuest(op, port) == [op |-> op, port |-> port, cnt |-> guest[port].fwd]

\* The mutant of ProcessRX: packets that find no buffer are lost.
ProcessRXDrops(q, raise) ==
  LET n == IF attached THEN Min({avail, Len(q)}) ELSE 0
  IN  /\ pendingRx' = <<>>
      /\ used' = used \o SubSeq(q, 1, n)
      /\ avail' = avail - n
      /\ wake' = IF (n > 0 \/ raise) /\ wake = "idle" /\ used' # <<>>
                 THEN "raised" ELSE wake

\* processRXLocked on the queue q: packets move to the used ring while there
\* are buffers and guest memory.  The interrupt is raised if one moved, or if
\* the caller raises it anyway (processTXLocked, Poke); one that finds the used
\* ring empty wakes the driver for nothing and is left out.
ProcessRX(q, raise) ==
  LET n == IF attached THEN Min({avail, Len(q)}) ELSE 0
  IN  /\ pendingRx' = SubSeq(q, n + 1, Len(q))
      /\ used' = used \o SubSeq(q, 1, n)
      /\ avail' = avail - n
      /\ wake' = IF (n > 0 \/ raise) /\ wake = "idle" /\ used' # <<>>
                 THEN "raised" ELSE wake

\* What a handler of a guest packet queued, and the end of processTXLocked.
Answer(packets) == ProcessRX(pendingRx \o packets, TRUE)
Rx == <<pendingRx, used, avail, wake>>

Lookup(port) == table[port]
Connected(c) == c # None /\ conn[c].state = "connected"
Delete(port) == table' = [table EXCEPT ![port] = None]

\* creditCond.Broadcast.
Woken == [c \in Conns |-> IF reader[c].at = "wait"
                          THEN [reader[c] EXCEPT !.at = "send"] ELSE reader[c]]

-----------------------------------------------------------------------------
(* processTXLocked: the device handles the guest's next packet. *)

Receive(op) ==
  /\ held = <<>> /\ attached
  /\ out # <<>> /\ Head(out).op = op
  /\ out' = Tail(out)
  /\ UNCHANGED <<Host, guest>>

\* handleConnectLocked up to the backend's Connect: it fails at once if nobody
\* listens on the port, else it queues the service's end with the listener.
HandleConnect ==
  /\ Receive("request")
  /\ \/ Answer(<<Control("rst", Head(out).port, None)>>) /\ held' = held
     \/ held' = <<Head(out)>> /\ UNCHANGED Rx
  /\ UNCHANGED <<table, conn, reader>>

\* A handler is in the backend with v.mu held, for a packet of this kind.
InBackend(op) == held # <<>> /\ Head(held).op = op
LeavesBackend ==
  held' = <<>> /\ UNCHANGED <<load, attached, closing, keepalive, guest, out>>

\* There is room in the listener's queue, also if the listener was closed
\* meanwhile: a pair of channels is made and the connection's reader starts.
ConnectDone ==
  /\ InBackend("request")
  /\ Len(listener.queue) < Backlog
  /\ LET port == Head(held).port
     IN  \E c \in Conns :
           /\ c \notin Opened /\ \A d \in Conns : d < c => d \in Opened
           /\ conn' = [conn EXCEPT ![c] = [Unused EXCEPT !.port = port,
                         !.state = "connected", !.peerCnt = Head(held).cnt]]
           /\ table' = [table EXCEPT ![port] = c]
           /\ reader' = [reader EXCEPT ![c].at = "top"]
           /\ listener' = [listener EXCEPT !.queue = Append(@, c)]
           /\ Answer(<<Control("response", port, c)>>)
  /\ LeavesBackend

ConnectFails ==
  /\ InBackend("request")
  /\ ~listener.open
  /\ Answer(<<Control("rst", Head(held).port, None)>>)
  /\ LeavesBackend
  /\ UNCHANGED <<table, conn, reader, listener>>

HandleReset ==
  /\ Receive("rst")
  /\ LET port == Head(out).port
         c == Lookup(port)
     IN  /\ conn' = IF c = None THEN conn ELSE [conn EXCEPT ![c].closed = TRUE]
         /\ Delete(port)
  /\ Answer(<<>>)
  /\ UNCHANGED <<reader, held>>

HandleShutdown ==
  /\ Receive("shutdown")
  /\ LET port == Head(out).port
         c == Lookup(port)
     IN  IF c = None
         THEN Answer(<<>>) /\ UNCHANGED <<table, conn>>
         ELSE /\ conn' = [conn EXCEPT ![c].state = "closing", ![c].closed = TRUE]
              /\ Answer(<<Control("rst", port, None)>>)
              /\ Delete(port)
  /\ UNCHANGED <<reader, held>>

\* handleDataLocked up to the backend's Write, which WriteDone or WriteFails
\* completes: v.mu stays locked in between.
HandleData ==
  /\ Receive("rw")
  /\ LET port == Head(out).port
         c == Lookup(port)
     IN  IF Connected(c)
         THEN /\ conn' = [conn EXCEPT ![c].peerCnt = Head(out).cnt,
                                      ![c].rxCnt = Plus(@, 1)]
              /\ held' = <<Head(out)>>
              /\ UNCHANGED Rx
         ELSE /\ Answer(<<Control("rst", port, None)>>)
              /\ UNCHANGED <<conn, held>>
  /\ UNCHANGED <<table, reader>>

WriteDone ==
  LET c == Lookup(Head(held).port) IN
  /\ InBackend("rw")
  /\ Len(conn[c].up) < ChanCap
  /\ conn' = [conn EXCEPT ![c].up = Append(@, 1)]
  /\ Answer(<<Control("update", conn[c].port, c)>>)
  /\ LeavesBackend
  /\ UNCHANGED <<table, reader, listener>>

\* The mutant of WriteError: only the device's own end is looked at.
WriteErrorOwnEnd(c) == conn[c].closed

\* simpleVsockConn.Write fails once either end is closed.
WriteError(c) == conn[c].serviceClosed \/ conn[c].closed

WriteFails ==
  LET c == Lookup(Head(held).port) IN
  /\ InBackend("rw")
  /\ WriteError(c)
  /\ conn' = [conn EXCEPT ![c].closed = TRUE]
  /\ Answer(<<Control("rst", conn[c].port, None)>>)
  /\ Delete(conn[c].port)
  /\ LeavesBackend
  /\ UNCHANGED <<reader, listener>>

HandleCreditUpdate ==
  /\ Receive("update")
  /\ LET c == Lookup(Head(out).port)
     IN  IF c = None THEN UNCHANGED <<conn, reader>>
         ELSE /\ conn' = [conn EXCEPT ![c].peerCnt = Head(out).cnt,
                                      ![c].asked = FALSE]
              /\ reader' = Woken
  /\ Answer(<<>>)
  /\ UNCHANGED <<table, held>>

HandleCreditRequest ==
  /\ Receive("ask")
  /\ LET c == Lookup(Head(out).port)
     IN  Answer(IF c = None THEN <<>>
                ELSE <<Control("update", Head(out).port, c)>>)
  /\ UNCHANGED <<table, conn, reader, held>>

ProcessTX ==
  \/ HandleConnect \/ HandleReset \/ HandleShutdown \/ HandleData
  \/ HandleCreditUpdate \/ HandleCreditRequest

-----------------------------------------------------------------------------
(* readFromBackend *)

Move(c, at) == reader' = [reader EXCEPT ![c].at = at]

ReaderTop(c) ==
  /\ reader[c].at = "top"
  /\ Move(c, IF closing = "no" THEN "read" ELSE "done")
  /\ UNCHANGED <<table, conn, held, Rx, Host, guest, out>>

\* simpleVsockConn.Read: a select, so when data waits and an end is closed
\* either may be returned.
ReaderReads(c) ==
  /\ reader[c].at = "read"
  /\ conn[c].down # <<>>
  /\ reader' = [reader EXCEPT ![c] = [at |-> "send", left |-> Head(conn[c].down)]]
  /\ conn' = [conn EXCEPT ![c].down = Tail(@), ![c].taken = @ + Head(conn[c].down)]
  /\ UNCHANGED <<table, held, Rx, Host, guest, out>>

ReaderEOF(c) ==
  /\ reader[c].at = "read"
  /\ conn[c].closed \/ conn[c].serviceClosed
  /\ Move(c, "eof")
  /\ UNCHANGED <<table, conn, held, Rx, Host, guest, out>>

\* The end of a stream: the reader returns if the device is closed, and tells
\* the guest if the port's connection is still connected.
ReaderQuits(c) ==
  /\ reader[c].at = "eof" /\ closing # "no"
  /\ Move(c, "done")
  /\ UNCHANGED <<table, conn, held, Rx, Host, guest, out>>

\* The mutant of ReaderShutdown: the connection stays connected.
ReaderShutdownStaysConnected(c) ==
  /\ reader[c].at = "eof" /\ held = <<>>
  /\ IF Connected(Lookup(conn[c].port))
     THEN ProcessRX(Append(pendingRx,
            Control("shutdown", conn[c].port, Lookup(conn[c].port))), FALSE)
     ELSE UNCHANGED Rx
  /\ Move(c, "done")
  /\ UNCHANGED <<table, conn, held, Host, guest, out>>

ReaderShutdown(c) ==
  /\ reader[c].at = "eof" /\ held = <<>>
  /\ LET port == conn[c].port
         d == Lookup(port)
     IN  IF Connected(d)
         THEN /\ conn' = [conn EXCEPT ![d].state = "closing"]
              /\ ProcessRX(Append(pendingRx, Control("shutdown", port, d)), FALSE)
         ELSE UNCHANGED <<conn, Rx>>
  /\ Move(c, "done")
  /\ UNCHANGED <<table, held, Host, guest, out>>

\* The mutant of Credit: counters compared as if they never wrapped.
CreditUnwrapped(d) ==
  LET inFlight == conn[d].txCnt - conn[d].peerCnt
  IN  IF inFlight >= GuestAlloc THEN 0 ELSE GuestAlloc - inFlight

\* vsockPeerCredit
Credit(d) ==
  LET inFlight == (conn[d].txCnt - conn[d].peerCnt) % Wrap
  IN  IF inFlight >= GuestAlloc THEN 0 ELSE GuestAlloc - inFlight

ReaderGone(c) ==
  /\ reader[c].at = "send" /\ held = <<>>
  /\ ~Connected(Lookup(conn[c].port))
  /\ reader' = [reader EXCEPT ![c] = [at |-> "done", left |-> 0]]
  /\ UNCHANGED <<table, conn, held, Rx, Host, guest, out>>

\* No credit: the guest is asked for it, once until it answers, and the reader
\* waits on creditCond, which releases v.mu.
ReaderWaits(c) ==
  LET d == Lookup(conn[c].port) IN
  /\ reader[c].at = "send" /\ held = <<>>
  /\ Connected(d) /\ Credit(d) = 0
  /\ ProcessRX(IF conn[d].asked THEN pendingRx
               ELSE Append(pendingRx, Control("ask", conn[c].port, d)), FALSE)
  /\ conn' = [conn EXCEPT ![d].asked = TRUE]
  /\ Move(c, "wait")
  /\ UNCHANGED <<table, held, Host, guest, out>>

ReaderSends(c) ==
  LET d == Lookup(conn[c].port)
      n == Min({Credit(d), reader[c].left})
      packet == [ToGuest("rw", conn[c].port, c,
                         conn[c].taken - reader[c].left + 1, n)
                 EXCEPT !.cnt = conn[d].rxCnt]
  IN  /\ reader[c].at = "send" /\ held = <<>>
      /\ Connected(d) /\ Credit(d) > 0
      /\ conn' = [conn EXCEPT ![d].txCnt = Plus(@, n)]
      /\ ProcessRX(Append(pendingRx, packet), FALSE)
      /\ reader' = [reader EXCEPT ![c] =
                      [at |-> IF n = reader[c].left THEN "top" ELSE "send",
                       left |-> reader[c].left - n]]
      /\ UNCHANGED <<table, held, Host, guest, out>>
-----------------------------------------------------------------------------
(* Poke, the receive queue's notification, and the ends of the device. *)

\* The mutant of Poke: it only pulses the interrupt.
PokeInterruptOnly ==
  /\ keepalive /\ held = <<>> /\ attached
  /\ wake' = IF wake = "idle" /\ used # <<>> THEN "raised" ELSE wake
  /\ UNCHANGED <<table, conn, reader, held, pendingRx, used, avail, Host, guest, out>>

\* Delivery is tried again and the interrupt pulsed: a keepalive calls it.
Poke ==
  /\ keepalive /\ held = <<>> /\ attached
  /\ ProcessRX(pendingRx, TRUE)
  /\ UNCHANGED <<table, conn, reader, held, Host, guest, out>>

\* startVirtioKeepalive and its cancel: on KVM a keepalive runs while a command
\* or a restore is outstanding, on the other hypervisors none does.
Keepalive ==
  /\ load.keepalive
  /\ keepalive' = ~keepalive
  /\ UNCHANGED <<table, conn, reader, held, Rx, load, attached, closing, listener,
                 guest, out>>

\* A write to the notify register for the receive queue; it may be missed.
NotifyRX ==
  /\ held = <<>> /\ attached
  /\ pendingRx # <<>> /\ avail > 0
  /\ ProcessRX(pendingRx, FALSE)
  /\ UNCHANGED <<table, conn, reader, held, Host, guest, out>>

Detach ==
  /\ "detach" \in load.ends
  /\ held = <<>> /\ attached
  /\ attached' = FALSE /\ pendingRx' = <<>>
  /\ UNCHANGED <<table, conn, reader, held, used, avail, wake, load, closing,
                 listener, keepalive, guest, out>>

\* The mutant of CloseTable: readers that wait for credit are not woken.
CloseTableQuietly ==
  /\ conn' = [c \in Conns |-> IF \E p \in Ports : table[p] = c
                              THEN [conn[c] EXCEPT !.closed = TRUE] ELSE conn[c]]
  /\ table' = [p \in Ports |-> None]
  /\ reader' = reader

\* Every connection of the table is closed and forgotten.
CloseTable ==
  /\ conn' = [c \in Conns |-> IF \E p \in Ports : table[p] = c
                              THEN [conn[c] EXCEPT !.closed = TRUE] ELSE conn[c]]
  /\ table' = [p \in Ports |-> None]
  /\ reader' = Woken

\* resetLocked: the guest's driver resets the device; its sockets go with it.
Reset ==
  /\ "reset" \in load.ends
  /\ held = <<>> /\ attached
  /\ CloseTable
  /\ pendingRx' = <<>> /\ used' = <<>> /\ avail' = 0 /\ wake' = "idle"
  /\ guest' = [p \in Ports |-> NoSocket] /\ out' = <<>>
  /\ UNCHANGED <<held, Host>>

CloseMarks ==
  /\ "close" \in load.ends /\ closing = "no"
  /\ closing' = "marked"
  /\ UNCHANGED <<table, conn, reader, held, Rx, load, attached, listener,
                 keepalive, guest, out>>

CloseAll ==
  /\ closing = "marked" /\ held = <<>>
  /\ CloseTable
  /\ closing' = "waiting"
  /\ UNCHANGED <<held, Rx, load, attached, listener, keepalive, guest, out>>

\* v.wg.Wait
CloseReturns ==
  /\ closing = "waiting"
  /\ \A c \in Conns : reader[c].at \in {"none", "done"}
  /\ closing' = "returned"
  /\ UNCHANGED <<table, conn, reader, held, Rx, load, attached, listener,
                 keepalive, guest, out>>

-----------------------------------------------------------------------------
(* The guest's driver and sockets. *)

Total(f) == FoldFunction(+, 0, f)
Device == <<table, reader, held, Host>>
Room == Len(out) < MaxOut
Sends(op, p) == out' = Append(out, FromGuest(op, p))

GuestConnect(p) ==
  /\ guest[p].state = "closed" /\ Room
  /\ Cardinality(Opened) + Len(SelectSeq(held \o out, LAMBDA m : m.op = "request")) < load.conns
  /\ EarlyReuse \/ \A c \in Opened : conn[c].port = p => reader[c].at = "done"
  /\ guest' = [guest EXCEPT ![p] = [NoSocket EXCEPT !.state = "connecting"]]
  /\ Sends("request", p)
  /\ UNCHANGED <<conn, Rx, Device>>

NoCredit(p) == (guest[p].sent - guest[p].known) % Wrap >= HostAlloc

GuestWrite(p) ==
  /\ guest[p].state = "open" /\ Room
  /\ ~NoCredit(p)
  /\ Total([d \in Conns |-> conn[d].spoken]) < load.up
  /\ conn' = [conn EXCEPT ![guest[p].conn].spoken = @ + 1]
  /\ guest' = [guest EXCEPT ![p].sent = Plus(@, 1)]
  /\ Sends("rw", p)
  /\ UNCHANGED <<Rx, Device>>

GuestAsks(p) ==
  /\ guest[p].state = "open" /\ Room
  /\ NoCredit(p) /\ ~guest[p].asked
  /\ guest' = [guest EXCEPT ![p].asked = TRUE]
  /\ Sends("ask", p)
  /\ UNCHANGED <<conn, Rx, Device>>

\* The application reads all there is; the driver may or may not tell.
GuestRead(p) ==
  /\ guest[p].unread > 0
  /\ guest' = [guest EXCEPT ![p].fwd = Plus(@, guest[p].unread), ![p].unread = 0]
  /\ \/ out' = out
     \/ Room /\ out' = Append(out, [FromGuest("update", p) EXCEPT !.cnt = guest'[p].fwd])
  /\ UNCHANGED <<conn, Rx, Device>>

GuestClose(p) ==
  /\ "guest" \in load.ends
  /\ guest[p].state = "open" /\ Room
  /\ guest' = [guest EXCEPT ![p].state = "closing"]
  /\ Sends("shutdown", p)
  /\ UNCHANGED <<conn, Rx, Device>>

\* The interrupt reaches the driver, or its wakeup is missed.
GuestInterrupt ==
  /\ wake = "raised"
  /\ wake' = "awake"
  /\ UNCHANGED <<conn, pendingRx, used, avail, guest, out, Device>>

InterruptMissed ==
  /\ wake = "raised"
  /\ wake' = "idle"
  /\ UNCHANGED <<conn, pendingRx, used, avail, guest, out, Device>>

GuestRefill ==
  /\ avail + Len(used) < RxBufs
  /\ avail' = RxBufs - Len(used)
  /\ UNCHANGED <<conn, pendingRx, used, wake, guest, out, Device>>

\* What a socket does with a packet, by its state.
Accepts(p, m) ==
  /\ guest[p].state = "open" /\ m.op \in {"rw", "update", "ask"}
  /\ guest' = [guest EXCEPT ![p].unread = @ + m.len, ![p].known = m.cnt,
                               ![p].asked = @ /\ m.op # "update"]
  /\ IF m.op = "ask" THEN Sends("update", p) ELSE out' = out
  /\ conn' = IF m.op = "rw" THEN [conn EXCEPT ![guest[p].conn].got = @ + m.len] ELSE conn

Opens(p, m) ==
  /\ guest[p].state = "connecting" /\ m.op = "response"
  /\ guest' = [guest EXCEPT ![p].state = "open", ![p].conn = m.conn]
  /\ UNCHANGED <<out, conn>>

Closes(p, m) ==
  /\ m.op = "rst" \/ (guest[p].state = "open" /\ m.op = "shutdown")
  /\ guest' = [guest EXCEPT ![p] = NoSocket]
  /\ IF m.op = "shutdown" THEN Sends("rst", p) ELSE out' = out
  /\ UNCHANGED conn

Drops(p, m) ==
  /\ guest[p].state = "closing" /\ m.op # "rst"
  /\ UNCHANGED <<guest, out, conn>>

Refuses(p, m) ==
  /\ m.op # "rst"
  /\ \/ guest[p].state = "closed"
     \/ guest[p].state = "connecting" /\ m.op # "response"
     \/ guest[p].state = "open" /\ m.op = "response"
  /\ guest' = [guest EXCEPT ![p] = NoSocket]
  /\ Sends("rst", p)
  /\ UNCHANGED conn

GuestTake ==
  /\ wake = "awake" /\ used # <<>>
  /\ LET m == Head(used)
     IN  \/ Accepts(m.port, m)
         \/ Opens(m.port, m)
         \/ Closes(m.port, m)
         \/ Drops(m.port, m)
         \/ Refuses(m.port, m)
  /\ used' = Tail(used)
  /\ wake' = IF Tail(used) = <<>> THEN "idle" ELSE "awake"
  /\ UNCHANGED <<pendingRx, avail, Device>>

-----------------------------------------------------------------------------
(* The service: its listener, and the other end of a simpleVsockConn pair. *)

\* Accept: a select, so a connection may be taken from a closed listener too.
ServiceAccept ==
  /\ listener.queue # <<>>
  /\ listener' = [listener EXCEPT !.queue = Tail(@)]
  /\ UNCHANGED <<table, conn, reader, held, Rx, load, attached, closing, keepalive,
                 guest, out>>

ListenerClose ==
  /\ "listener" \in load.ends /\ listener.open
  /\ listener' = [listener EXCEPT !.open = FALSE]
  /\ UNCHANGED <<table, conn, reader, held, Rx, load, attached, closing, keepalive,
                 guest, out>>

Accepted == Opened \ Range(listener.queue)

ServiceWrite(c, n) ==
  /\ ~conn[c].serviceClosed
  /\ Len(conn[c].down) < ChanCap
  /\ Total([d \in Conns |-> conn[d].written]) + n <= load.down
  /\ conn' = [conn EXCEPT ![c].down = Append(@, n), ![c].written = @ + n]
  /\ UNCHANGED <<Rx, guest, out, Device>>

ServiceRead(c) ==
  /\ ~conn[c].serviceClosed /\ conn[c].up # <<>>
  /\ conn' = [conn EXCEPT ![c].up = Tail(@)]
  /\ UNCHANGED <<Rx, guest, out, Device>>

ServiceClose(c) ==
  /\ "service" \in load.ends
  /\ ~conn[c].serviceClosed
  /\ conn' = [conn EXCEPT ![c].serviceClosed = TRUE]
  /\ UNCHANGED <<Rx, guest, out, Device>>
-----------------------------------------------------------------------------
Reader(c) ==
  \/ ReaderTop(c) \/ ReaderReads(c) \/ ReaderEOF(c) \/ ReaderQuits(c)
  \/ ReaderShutdown(c) \/ ReaderGone(c) \/ ReaderWaits(c) \/ ReaderSends(c)

\* A guest runs as long as its memory is attached.
Guest ==
  /\ attached
  /\ \/ \E p \in Ports : \/ GuestConnect(p) \/ GuestWrite(p) \/ GuestAsks(p)
                         \/ GuestRead(p) \/ GuestClose(p)
     \/ GuestInterrupt \/ InterruptMissed \/ GuestRefill \/ GuestTake

Service ==
  \/ ServiceAccept \/ ListenerClose
  \/ \E c \in Accepted : \/ \E n \in Chunks : ServiceWrite(c, n)
                         \/ ServiceRead(c)
                         \/ ServiceClose(c)

Next ==
  \/ ProcessTX \/ ConnectDone \/ ConnectFails \/ WriteDone \/ WriteFails
  \/ \E c \in Conns : Reader(c)
  \/ Keepalive \/ Poke \/ NotifyRX \/ Detach \/ Reset
  \/ CloseMarks \/ CloseAll \/ CloseReturns
  \/ Guest \/ Service

Spec == Init /\ [][Next]_vars

\* Goroutines run; a keepalive pokes as long as it runs; the guest runs, its
\* application reads, and wakeups are not missed for ever.  Who waits for v.mu
\* gets it although handlers take it again and again (a sync.Mutex hands itself
\* to a waiter that starves), so their fairness is strong.  Nothing is asked of
\* the service: it may stop accepting, reading or closing.
Fairness ==
  /\ WF_vars(ProcessTX)
  /\ WF_vars(ConnectDone \/ ConnectFails \/ WriteDone \/ WriteFails)
  /\ \A c \in Conns : SF_vars(Reader(c))
  /\ SF_vars(Poke) /\ SF_vars(CloseAll) /\ WF_vars(CloseReturns)
  /\ SF_vars(attached /\ GuestInterrupt)
  /\ WF_vars(attached /\ GuestTake) /\ WF_vars(attached /\ GuestRefill)
  /\ \A p \in Ports : WF_vars(attached /\ GuestRead(p))

FairSpec == Spec /\ Fairness

-----------------------------------------------------------------------------
(* Properties. *)

Counter == 0..(Wrap - 1)
Packet ==
  [op : {"response", "rst", "shutdown", "rw", "update", "ask"}, port : Ports,
   conn : Conns \cup {None}, at : 0..MaxDown, len : 0..MaxDown, cnt : Counter]
Request ==
  [op : {"request", "rst", "shutdown", "rw", "update", "ask"}, port : Ports,
   cnt : Counter]

\* Every variable has its type; in particular the four counters keep their
\* width, and the queues between the ends of a connection their capacity.
TypeOK ==
  /\ load \in Loads
  /\ table \in [Ports -> Conns \cup {None}]
  /\ \A c \in Conns :
       /\ conn[c].port \in Ports \cup {None}
       /\ conn[c].state \in {"idle", "connected", "closing"}
       /\ {conn[c].peerCnt, conn[c].txCnt, conn[c].rxCnt} \subseteq Counter
       /\ Len(conn[c].down) <= ChanCap /\ Len(conn[c].up) <= ChanCap
       /\ {conn[c].written, conn[c].taken, conn[c].got} \subseteq 0..MaxDown
       /\ reader[c].at \in {"none", "top", "read", "send", "wait", "eof", "done"}
       /\ reader[c].left \in 0..MaxDown
  /\ Range(held) \subseteq Request /\ Len(held) <= 1
  /\ listener.open \in BOOLEAN /\ Len(listener.queue) <= Backlog
  /\ Range(listener.queue) \subseteq Opened /\ keepalive \in BOOLEAN
  /\ Range(pendingRx) \subseteq Packet /\ Range(used) \subseteq Packet
  /\ avail \in 0..RxBufs /\ avail + Len(used) <= RxBufs
  /\ wake \in {"idle", "raised", "awake"}
  /\ attached \in BOOLEAN /\ closing \in {"no", "marked", "waiting", "returned"}
  /\ \A p \in Ports :
       /\ guest[p].state \in {"closed", "connecting", "open", "closing"}
       /\ guest[p].conn \in Conns \cup {None}
       /\ {guest[p].fwd, guest[p].sent, guest[p].known} \subseteq Counter
  /\ Range(out) \subseteq Request

\* The bytes on their way to a port, in the order the guest will take them.
InFlight(p) ==
  SelectSeq(used \o pendingRx, LAMBDA m : m.op = "rw" /\ m.port = p)
Bytes(q) == FoldSeq(LAMBDA m, n : m.len + n, 0, q)

\* Flow control: what a socket has not read and what is on its way to it never
\* exceeds the buffer the guest granted, however often the counters wrap
\* (vsockPeerCredit, sendDataLocked).
CreditRespected ==
  \A p \in Ports :
    guest[p].state = "open" => guest[p].unread + Bytes(InFlight(p)) <= GuestAlloc

\* The packet q[i] begins where the one before it ended.
Joins(q, n) ==
  \A i \in DOMAIN q : q[i].at = n + 1 + Bytes(SubSeq(q, 1, i - 1))

\* A stream is delivered whole and in order: while guest memory is
\* attached and a socket and its connection are open, the packets on their way
\* are of this connection, begin with the byte after the last one received,
\* leave no gap, and end where the reader's chunk and the channel continue
\* (readFromBackend, processRXLocked).
StreamIntact ==
  \A p \in Ports :
    LET c == guest[p].conn
        q == InFlight(p)
    IN  attached /\ guest[p].state = "open" /\ table[p] = c =>
          /\ \A i \in DOMAIN q : q[i].conn = c
          /\ Joins(q, conn[c].got)
          /\ Connected(c) =>
               conn[c].got + Bytes(q) + reader[c].left = conn[c].taken
          /\ conn[c].taken + FoldSeq(+, 0, conn[c].down) = conn[c].written

\* Every connected connection has a reader that will notice its end, until the
\* device is closed (handleConnectLocked, readFromBackend).
ReaderAlive ==
  \A p \in Ports :
    Connected(table[p]) /\ closing = "no" => reader[table[p]].at \notin {"none", "done"}

\* A handler waits in the backend for the service, which does not accept
\* although its listener is open, or does not read although its end is.
Stalled ==
  \/ InBackend("request") /\ Len(listener.queue) = Backlog /\ listener.open
  \/ /\ InBackend("rw")
     /\ LET c == Lookup(Head(held).port)
        IN  Len(conn[c].up) = ChanCap /\ ~conn[c].serviceClosed

\* The connection c has ended, or the device has, or the guest's socket.
Over(c) ==
  \/ conn[c].closed \/ conn[c].serviceClosed \/ ~attached \/ closing # "no"
  \/ \A p \in Ports : conn[c].port = p => guest[p].state \notin {"connecting", "open"}

\* Forward progress: what the service writes to a connection reaches the
\* guest while a keepalive runs, although notifications and wakeups are missed
\* and credit runs out, unless the connection or the device ends or a handler
\* waits for the service for ever (Poke, handleCreditUpdateLocked).
Delivered ==
  \A c \in Conns, n \in 1..MaxDown :
    conn[c].written >= n ~> (conn[c].got >= n \/ Over(c) \/ ~keepalive \/ []Stalled)

\* Close returns, whatever the readers wait for; the one thing that keeps it
\* from returning is a handler that waits for the service for ever with the
\* lock Close needs (Close).
CloseEnds == closing = "marked" ~> (closing = "returned" \/ []Stalled)

\* A handler that calls the backend with the device's lock held leaves it, also
\* if the service ends meanwhile, unless the service stays open for ever and
\* never makes room (handleConnectLocked, SimpleVsockBackend.Connect,
\* handleDataLocked, simpleVsockConn.Write).
WriteEnds == held # <<>> ~> (held = <<>> \/ []Stalled)
============================================================================
