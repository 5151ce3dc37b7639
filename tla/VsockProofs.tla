---------------------------- MODULE VsockProofs ----------------------------
(***************************************************************************)
(* ReaderAlive for any number of ports and connections, any sizes, and     *)
(* also when a port is used again while its last reader still runs.        *)
(*                                                                         *)
(* The invariant adds that an entry of the table is under its own port.    *)
(* Without it a reader that finds its port's entry gone or closing could   *)
(* be the reader of a connection that is connected under another port.     *)
(***************************************************************************)
EXTENDS Vsock, TLAPS

Shape ==
  /\ table \in [Ports -> Conns \cup {None}]
  /\ DOMAIN conn = Conns /\ DOMAIN reader = Conns
  /\ \A c \in Conns : /\ {"port", "state", "closed"} \subseteq DOMAIN conn[c]
                      /\ {"at", "left"} \subseteq DOMAIN reader[c]

OwnPort == \A p \in Ports : table[p] # None => conn[table[p]].port = p

IInv == Shape /\ OwnPort /\ ReaderAlive

Ended(c) == reader[c].at \in {"none", "done"}

\* A step that opens no connection keeps the invariant if it starts no
\* connection's life again and lets a reader end only when the device is closed
\* or the reader's connection is not connected under its port.
LEMMA Preserved ==
  ASSUME IInv, Shape', closing' = "no" => closing = "no",
         \A p \in Ports : table'[p] \in {table[p], None},
         \A c \in Conns : /\ conn'[c].port = conn[c].port
                          /\ conn'[c].state = "connected" => conn[c].state = "connected",
         \A c \in Conns : Ended(c)' => \/ Ended(c)
                                       \/ closing' # "no"
                                       \/ conn'[c].state # "connected"
                                       \/ table'[conn[c].port] # c
  PROVE  IInv'
<1>2. OwnPort'
  <2> SUFFICES ASSUME NEW p \in Ports, table'[p] # None
               PROVE  conn'[table'[p]].port = p
    BY Zenon DEF OwnPort, None
  <2>1. table'[p] = table[p] /\ table[p] # None
    OBVIOUS
  <2>2. table[p] \in Conns
    BY <2>1, Zenon DEF IInv, Shape
  <2> QED
    BY <2>1, <2>2, Zenon DEF IInv, OwnPort
<1>3. ReaderAlive'
  <2> SUFFICES ASSUME NEW p \in Ports, Connected(table[p])', closing' = "no"
               PROVE  ~Ended(table[p])'
    BY Zenon DEF ReaderAlive, Ended
  <2> DEFINE c == table[p]
  <2>1. table'[p] = c /\ c # None /\ c \in Conns
    BY Zenon DEF Connected, IInv, Shape
  <2>2. conn[c].port = p /\ conn[c].state = "connected"
    BY <2>1, Zenon DEF IInv, OwnPort, Connected
  <2>3. ~Ended(c)
    BY <2>1, <2>2, Zenon DEF IInv, ReaderAlive, Connected, Ended
  <2> QED
    BY <2>1, <2>2, <2>3, Zenon DEF Connected, Ended
<1> QED
  BY <1>2, <1>3, Zenon DEF IInv
-----------------------------------------------------------------------------
(* One lemma per group of actions. *)

\* The device's handlers of guest packets, up to a call of the backend.
LEMMA HandlersKeep ==
  ASSUME IInv, \/ HandleConnect \/ HandleReset \/ HandleShutdown \/ HandleData
               \/ HandleCreditUpdate \/ HandleCreditRequest
  PROVE  IInv'
<1>1. CASE HandleReset
  <2>1. Shape'
    BY <1>1, ZenonT(60) DEF IInv, Shape, HandleReset, Receive, Lookup, Delete, None
  <2> QED
    BY <1>1, <2>1, Preserved, Zenon DEF IInv, Shape, HandleReset, Receive, Host, Lookup, Delete, Ended, None
<1>2. CASE HandleShutdown
  <2>1. Shape'
    BY <1>2, ZenonT(60) DEF IInv, Shape, HandleShutdown, Receive, Host, Lookup, Delete, None
  <2> QED
    BY <1>2, <2>1, Preserved, SMTT(30)
       DEF IInv, Shape, HandleShutdown, Receive, Host, Lookup, Delete, Ended, None
<1>3. CASE HandleData
  <2>1. Shape'
    BY <1>3, Zenon DEF IInv, Shape, HandleData, Receive, Host, Lookup
  <2>2. \A c \in Conns : /\ conn'[c].port = conn[c].port
                         /\ conn'[c].state = conn[c].state
    <3> DEFINE c == table[Head(out).port]
    <3>1. CASE conn' = conn
      BY <3>1, Zenon
    <3>2. CASE c \in Conns /\ conn' = [conn EXCEPT ![c].peerCnt = Head(out).cnt,
                                                  ![c].rxCnt = Plus(@, 1)]
      <4>1. \A d \in Conns : d # c => conn'[d] = conn[d]
        BY <3>2, Zenon DEF IInv, Shape
      <4>2. conn'[c] = [conn[c] EXCEPT !.peerCnt = Head(out).cnt,
                                       !.rxCnt = Plus(@, 1)]
        BY <3>2, Zenon DEF IInv, Shape
      <4>3. conn'[c].port = conn[c].port /\ conn'[c].state = conn[c].state
        BY <4>2, <3>2, Zenon DEF IInv, Shape
      <4> QED
        BY <4>1, <4>3, Zenon
    <3> QED
      BY <1>3, <3>1, <3>2, Zenon DEF IInv, Shape, HandleData, Receive, Host, Lookup, Connected
  <2>3. table' = table /\ reader' = reader /\ closing' = closing
    BY <1>3, Zenon DEF HandleData, Receive, Host
  <2> QED
    BY <2>1, <2>2, <2>3, Preserved, Zenon DEF Ended
<1>4. CASE HandleCreditUpdate
  <2>1. Shape'
    BY <1>4, ZenonT(60) DEF IInv, Shape, HandleCreditUpdate, Receive, Host, Lookup, Woken
  <2>2. table' = table /\ closing' = closing
    BY <1>4, Zenon DEF HandleCreditUpdate, Receive, Host
  <2>3. \A c \in Conns : /\ conn'[c].port = conn[c].port
                         /\ conn'[c].state = conn[c].state
                         /\ Ended(c)' => Ended(c)
    <3>1. CASE UNCHANGED <<conn, reader>>
      BY <3>1, Zenon DEF Ended
    <3>2. CASE ~UNCHANGED <<conn, reader>>
      <4> DEFINE c == Lookup(Head(out).port)
      <4>1. /\ conn' = [conn EXCEPT ![c].peerCnt = Head(out).cnt, ![c].asked = FALSE]
            /\ reader' = Woken
        BY <1>4, <3>2, Zenon DEF HandleCreditUpdate
      <4>2. \A d \in Conns : /\ conn'[d].port = conn[d].port
                             /\ conn'[d].state = conn[d].state
        BY <4>1, SMTT(30) DEF IInv, Shape
      <4>3. \A d \in Conns : Ended(d)' => Ended(d)
        BY <4>1, ZenonT(60) DEF IInv, Shape, Woken, Ended
      <4> QED
        BY <4>2, <4>3, Zenon
    <3> QED
      BY <3>1, <3>2, Zenon
  <2> QED
    BY <2>1, <2>2, <2>3, Preserved, Zenon
<1>5. CASE HandleCreditRequest \/ HandleConnect
  <2>1. UNCHANGED <<table, conn, reader, closing>>
    BY <1>5, Zenon DEF HandleCreditRequest, HandleConnect, Receive, Host
  <2> QED
    BY <2>1, Zenon DEF IInv, Shape, OwnPort, ReaderAlive, Connected
<1> QED
  BY <1>1, <1>2, <1>3, <1>4, <1>5, Zenon

\* The end of a call of the backend with the lock held, but for a new
\* connection, and the steps that only deliver.
LEMMA WritesKeep ==
  ASSUME IInv, \/ ConnectFails \/ WriteDone \/ WriteFails
               \/ Keepalive \/ Poke \/ NotifyRX \/ Detach
  PROVE  IInv'
<1>1. CASE WriteDone
  <2>1. Shape'
    BY <1>1, Zenon DEF IInv, Shape, WriteDone
  <2> QED
    BY <1>1, <2>1, Preserved, Zenon DEF IInv, Shape, WriteDone, LeavesBackend, Ended
<1>2. CASE WriteFails
  <2>1. Shape'
    BY <1>2, Zenon DEF IInv, Shape, WriteFails, Delete, None
  <2> QED
    BY <1>2, <2>1, Preserved, Zenon DEF IInv, Shape, WriteFails, LeavesBackend, Delete, Ended, None
<1>3. CASE ConnectFails \/ Keepalive \/ Poke \/ NotifyRX \/ Detach
  <2>1. UNCHANGED <<table, conn, reader, closing>>
    BY <1>3, Zenon DEF ConnectFails, LeavesBackend, Keepalive, Poke, NotifyRX, Detach, Host
  <2> QED
    BY <2>1, Zenon DEF IInv, Shape, OwnPort, ReaderAlive, Connected
<1> QED
  BY <1>1, <1>2, <1>3, Zenon

\* A reset of the device and its Close.
LEMMA EndsKeep ==
  ASSUME IInv, Reset \/ CloseMarks \/ CloseAll \/ CloseReturns
  PROVE  IInv'
<1>1. ASSUME CloseTable PROVE /\ Shape'
                              /\ \A p \in Ports : table'[p] = None
                              /\ \A c \in Conns : Ended(c)' => Ended(c)
  BY <1>1, Zenon DEF IInv, Shape, CloseTable, Woken, Ended, None
<1>2. CASE Reset \/ CloseAll
  <2>1. CloseTable
    BY <1>2, Zenon DEF Reset, CloseAll
  <2> QED
    BY <2>1, <1>1, Zenon DEF IInv, OwnPort, ReaderAlive, Connected
<1>3. CASE CloseMarks \/ CloseReturns
  <2>1. UNCHANGED <<table, conn, reader>> /\ closing' # "no"
    BY <1>3, Zenon DEF CloseMarks, CloseReturns
  <2> QED
    BY <2>1, Zenon DEF IInv, Shape, OwnPort, ReaderAlive
<1> QED
  BY <1>2, <1>3, Zenon

\* The guest and the service change neither the table nor a reader.
LEMMA OutsideKeeps ==
  ASSUME IInv, Guest \/ Service
  PROVE  IInv'
<1>1. UNCHANGED <<table, reader, closing>>
  BY Zenon DEF Guest, Service, GuestConnect, GuestWrite, GuestAsks, GuestRead,
     GuestClose, GuestInterrupt, InterruptMissed, GuestRefill, GuestTake,
     ServiceAccept, ListenerClose, ServiceWrite, ServiceRead, ServiceClose, Device, Host
<1>2. /\ DOMAIN conn' = Conns
      /\ \A c \in Conns : /\ conn'[c].port = conn[c].port
                          /\ conn'[c].state = conn[c].state
                          /\ DOMAIN conn'[c] = DOMAIN conn[c]
  <2>0. CASE ServiceAccept \/ ListenerClose
    BY <2>0, Zenon DEF ServiceAccept, ListenerClose, IInv, Shape
  <2>1. CASE Service /\ ~ServiceAccept /\ ~ListenerClose
    <3>1. PICK c \in Conns : \/ \E n \in Chunks : ServiceWrite(c, n)
                             \/ ServiceRead(c) \/ ServiceClose(c)
      BY <2>1, Zenon DEF Service, Accepted, Opened
    <3>2. CASE \E n \in Chunks : ServiceWrite(c, n)
      <4>1. PICK n \in Chunks : ServiceWrite(c, n)
        BY <3>2, Zenon
      <4>2. \A d \in Conns : d # c => conn'[d] = conn[d]
        BY <4>1, Zenon DEF IInv, Shape, ServiceWrite
      <4>3. conn'[c] = [conn[c] EXCEPT !.down = Append(@, n), !.written = @ + n]
        BY <4>1, Zenon DEF IInv, Shape, ServiceWrite
      <4>4. /\ conn'[c].port = conn[c].port /\ conn'[c].state = conn[c].state
            /\ DOMAIN conn'[c] = DOMAIN conn[c]
        BY <4>3, Zenon DEF IInv, Shape
      <4>5. DOMAIN conn' = Conns
        BY <4>1, Zenon DEF IInv, Shape, ServiceWrite
      <4> QED
        BY <4>2, <4>4, <4>5, Zenon
    <3>3. CASE ServiceRead(c) \/ ServiceClose(c)
      BY <3>3 DEF IInv, Shape, ServiceRead, ServiceClose
    <3> QED
      BY <3>1, <3>2, <3>3, Zenon
  <2>2. CASE Guest /\ conn' = conn
    BY <2>2, Zenon DEF IInv, Shape
  <2>3. CASE \E p \in Ports : GuestWrite(p)
    BY <2>3 DEF IInv, Shape, GuestWrite
  <2>4. CASE GuestTake /\ conn' # conn
    <3>1. PICK p \in {Head(used).port} : Accepts(p, Head(used))
      BY <2>4, Zenon DEF GuestTake, Accepts, Opens, Closes, Drops, Refuses
    <3> QED
      BY <2>4, <3>1, Zenon DEF IInv, Shape, Accepts
  <2> QED
    BY <2>0, <2>1, <2>2, <2>3, <2>4, Zenon DEF Guest, GuestConnect, GuestAsks, GuestRead,
       GuestClose, GuestInterrupt, InterruptMissed, GuestRefill
<1>3. Shape'
  BY <1>1, <1>2, Zenon DEF IInv, Shape
<1> QED
  BY <1>1, <1>2, <1>3, Preserved, Zenon DEF Ended
\* A new connection gets an identity no entry of the table has, and a reader
\* that runs.
LEMMA ConnectKeeps ==
  ASSUME IInv, ConnectDone
  PROVE  IInv'
<1> DEFINE port == Head(held).port
<1>1. PICK c \in Conns :
        /\ c \notin Opened
        /\ conn' = [conn EXCEPT ![c] = [Unused EXCEPT !.port = port,
                      !.state = "connected", !.peerCnt = Head(held).cnt]]
        /\ table' = [table EXCEPT ![port] = c]
        /\ reader' = [reader EXCEPT ![c].at = "top"]
  BY Zenon DEF ConnectDone
<1>2. conn'[c].port = port /\ {"port", "state", "closed"} \subseteq DOMAIN conn'[c]
  BY <1>1, Zenon DEF IInv, Shape, Unused
<1>3. reader'[c].at = "top" /\ DOMAIN reader'[c] = DOMAIN reader[c]
  BY <1>1, Zenon DEF IInv, Shape
<1>4. \A d \in Conns : d # c => conn'[d] = conn[d] /\ reader'[d] = reader[d]
  BY <1>1, Zenon DEF IInv, Shape
<1>5. \A p \in Ports : table[p] # c
  BY <1>1, PortAssumption DEF IInv, OwnPort, Opened, Conns, None
<1>6. \A p \in Ports : table'[p] = IF p = port THEN c ELSE table[p]
  BY <1>1, Zenon DEF IInv, Shape
<1>7. Shape'
  <2>1. table' \in [Ports -> Conns \cup {None}]
    BY <1>1, Zenon DEF IInv, Shape
  <2>2. DOMAIN conn' = Conns /\ DOMAIN reader' = Conns
    BY <1>1, Zenon DEF IInv, Shape
  <2> QED
    BY <2>1, <2>2, <1>2, <1>3, <1>4, Zenon DEF IInv, Shape
<1>8. OwnPort'
  <2> SUFFICES ASSUME NEW p \in Ports, table'[p] # None
               PROVE  conn'[table'[p]].port = p
    BY Zenon DEF OwnPort, None
  <2>1. CASE p = port
    BY <2>1, <1>2, <1>6, Zenon
  <2>2. CASE p # port
    <3>1. table'[p] = table[p] /\ table[p] \in Conns /\ table[p] # c
      BY <2>2, <1>5, <1>6, Zenon DEF IInv, Shape
    <3> QED
      BY <3>1, <1>4, Zenon DEF IInv, OwnPort
  <2> QED
    BY <2>1, <2>2, Zenon
<1>9. ReaderAlive'
  <2> SUFFICES ASSUME NEW p \in Ports, Connected(table[p])', closing' = "no"
               PROVE  ~Ended(table[p])'
    BY Zenon DEF ReaderAlive, Ended
  <2>1. CASE p = port
    BY <2>1, <1>3, <1>6, Zenon DEF Ended
  <2>2. CASE p # port
    <3>1. table'[p] = table[p] /\ table[p] \in Conns /\ table[p] # c
      BY <2>2, <1>5, <1>6, Zenon DEF IInv, Shape, Connected
    <3>2. closing = "no"
      BY Zenon DEF ConnectDone, LeavesBackend
    <3> QED
      BY <3>1, <3>2, <1>4, Zenon DEF IInv, ReaderAlive, Connected, Ended
  <2> QED
    BY <2>1, <2>2, Zenon
<1> QED
  BY <1>7, <1>8, <1>9, Zenon DEF IInv

\* A reader that moves on without ending keeps the invariant; so does one that
\* ends because the device is closed.
LEMMA ReaderRunsKeeps ==
  ASSUME IInv, NEW c \in Conns,
         \/ ReaderTop(c) \/ ReaderReads(c) \/ ReaderEOF(c) \/ ReaderQuits(c)
         \/ ReaderWaits(c) \/ ReaderSends(c)
  PROVE  IInv'
<1>1. table' = table /\ closing' = closing
  BY Zenon DEF ReaderTop, ReaderReads, ReaderEOF, ReaderQuits, ReaderWaits, ReaderSends, Host
<1>2. /\ DOMAIN reader' = Conns
      /\ \A d \in Conns : d # c => reader'[d] = reader[d]
      /\ {"at", "left"} \subseteq DOMAIN reader'[c]
      /\ reader'[c].at \in {"none", "done"} => closing # "no"
  <2>1. CASE ReaderTop(c) \/ ReaderEOF(c) \/ ReaderQuits(c) \/ ReaderWaits(c)
    <3>1. CASE ReaderTop(c) /\ closing = "no"
      <4>1. Move(c, "read")
        BY <3>1, Zenon DEF ReaderTop
      <4> QED
        BY <4>1, Zenon DEF IInv, Shape, Move
    <3>2. CASE (ReaderTop(c) \/ ReaderQuits(c)) /\ closing # "no"
      <4>1. Move(c, "done")
        BY <3>2, Zenon DEF ReaderTop, ReaderQuits
      <4> QED
        BY <4>1, <3>2, Zenon DEF IInv, Shape, Move
    <3>3. CASE ReaderEOF(c)
      BY <3>3, Zenon DEF IInv, Shape, ReaderEOF, Move
    <3>4. CASE ReaderWaits(c)
      <4>1. Move(c, "wait")
        BY <3>4, Zenon DEF ReaderWaits
      <4> QED
        BY <4>1, Zenon DEF IInv, Shape, Move
    <3> QED
      BY <2>1, <3>1, <3>2, <3>3, <3>4, Zenon DEF ReaderQuits
  <2>2. CASE ReaderReads(c) \/ ReaderSends(c)
    <3>0. PICK at \in {"send", "top"} : \E left :
            reader' = [reader EXCEPT ![c] = [at |-> at, left |-> left]]
      <4>1. CASE ReaderReads(c)
        BY <4>1, Zenon DEF ReaderReads
      <4>2. CASE ReaderSends(c)
        <5>1. PICK n : reader' = [reader EXCEPT ![c] =
                        [at |-> IF n = reader[c].left THEN "top" ELSE "send",
                         left |-> reader[c].left - n]]
          BY <4>2, Zenon DEF ReaderSends
        <5>2. (IF n = reader[c].left THEN "top" ELSE "send") \in {"send", "top"}
          OBVIOUS
        <5> QED
          BY <5>1, <5>2, Zenon
      <4> QED
        BY <2>2, <4>1, <4>2, Zenon
    <3>1. PICK left : reader' = [reader EXCEPT ![c] = [at |-> at, left |-> left]]
      BY <3>0, Zenon
    <3>2. reader'[c] = [at |-> at, left |-> left]
      BY <3>1, Zenon DEF IInv, Shape
    <3>3. /\ DOMAIN reader' = Conns
          /\ \A d \in Conns : d # c => reader'[d] = reader[d]
      BY <3>1, Zenon DEF IInv, Shape
    <3>4. {"at", "left"} \subseteq DOMAIN reader'[c] /\ reader'[c].at = at
      BY <3>2
    <3> QED
      BY <3>0, <3>3, <3>4, Zenon
  <2> QED
    BY <2>1, <2>2, Zenon
<1>3. /\ DOMAIN conn' = Conns
      /\ \A d \in Conns : /\ conn'[d].port = conn[d].port
                          /\ conn'[d].state = conn[d].state
                          /\ DOMAIN conn'[d] = DOMAIN conn[d]
  <2>1. CASE conn' = conn
    BY <2>1, Zenon DEF IInv, Shape
  <2>2. CASE ReaderReads(c)
    <3>1. conn' = [conn EXCEPT ![c] = [conn[c] EXCEPT !.down = Tail(@),
                                         !.taken = @ + Head(conn[c].down)]]
      BY <2>2, ZenonT(60) DEF ReaderReads, IInv, Shape
    <3> HIDE DEF IInv
    <3>2. conn'[c] = [conn[c] EXCEPT !.down = Tail(@), !.taken = @ + Head(conn[c].down)]
      BY <3>1, Zenon DEF IInv, Shape
    <3>3. /\ conn'[c].port = conn[c].port /\ conn'[c].state = conn[c].state
          /\ DOMAIN conn'[c] = DOMAIN conn[c]
      BY <3>2, Zenon DEF IInv, Shape
    <3> QED
      BY <3>1, <3>3, Zenon DEF IInv, Shape
  <2>3. CASE ReaderWaits(c) \/ ReaderSends(c)
    <3> DEFINE d == table[conn[c].port]
    <3>1. CASE ReaderWaits(c)
      <4>1. conn' = [conn EXCEPT ![d].asked = TRUE]
        BY <3>1, Zenon DEF ReaderWaits, Lookup
      <4> QED
        BY <4>1, Zenon DEF IInv, Shape
    <3>2. CASE ReaderSends(c)
      <4>1. PICK n : conn' = [conn EXCEPT ![d].txCnt = Plus(@, n)]
        BY <3>2, Zenon DEF ReaderSends, Lookup
      <4> QED
        BY <4>1, Zenon DEF IInv, Shape
    <3> QED
      BY <2>3, <3>1, <3>2, Zenon
  <2> QED
    BY <2>1, <2>2, <2>3, Zenon DEF ReaderTop, ReaderEOF, ReaderQuits
<1>4. Shape'
  BY <1>1, <1>2, <1>3, Zenon DEF IInv, Shape
<1> QED
  BY <1>1, <1>2, <1>3, <1>4, Preserved, Zenon DEF Ended
\* A reader that ends on its own account leaves no connected connection: it
\* marks the entry of its port, or has found it gone or marked.
LEMMA ReaderEndsKeeps ==
  ASSUME IInv, NEW c \in Conns, ReaderShutdown(c) \/ ReaderGone(c)
  PROVE  IInv'
<1> DEFINE d == table[conn[c].port]
<1>1. CASE ReaderGone(c)
  <2>1. UNCHANGED <<table, conn, closing>> /\ ~Connected(d)
    BY <1>1, Zenon DEF ReaderGone, Lookup, Host
  <2>2. Shape' /\ \A e \in Conns : e # c => reader'[e] = reader[e]
    BY <1>1, Zenon DEF IInv, Shape, ReaderGone
  <2>3. c # None
    BY DEF Conns, None
  <2>4. conn'[c].state # "connected" \/ table'[conn[c].port] # c
    BY <2>1, <2>3, Zenon DEF Connected
  <2> QED
    BY <2>1, <2>2, <2>4, Preserved, Zenon DEF Ended
<1>2. CASE ReaderShutdown(c)
  <2>1. UNCHANGED <<table, closing>>
    BY <1>2, Zenon DEF ReaderShutdown, Host
  <2>2. /\ DOMAIN reader' = Conns
        /\ \A e \in Conns : e # c => reader'[e] = reader[e]
        /\ {"at", "left"} \subseteq DOMAIN reader'[c]
    BY <1>2, Zenon DEF IInv, Shape, ReaderShutdown, Move
  <2>3. \/ ~Connected(d) /\ conn' = conn
        \/ Connected(d) /\ conn' = [conn EXCEPT ![d].state = "closing"]
    BY <1>2, Zenon DEF ReaderShutdown, Lookup
  <2>4. /\ DOMAIN conn' = Conns
        /\ \A e \in Conns : /\ conn'[e].port = conn[e].port
                            /\ conn'[e].state = "connected" => conn[e].state = "connected"
                            /\ DOMAIN conn'[e] = DOMAIN conn[e]
    BY <2>3 DEF IInv, Shape
  <2>5. conn'[c].state # "connected" \/ table'[conn[c].port] # c
    <3> SUFFICES ASSUME d = c PROVE conn'[c].state # "connected"
      BY <2>1, Zenon
    <3>1. CASE ~Connected(d) /\ conn' = conn
      BY <3>1 DEF Connected, Conns, None
    <3>2. CASE conn' = [conn EXCEPT ![d].state = "closing"]
      BY <3>2, Zenon DEF IInv, Shape
    <3> QED
      BY <2>3, <3>1, <3>2, Zenon
  <2>6. Shape'
    BY <2>1, <2>2, <2>4, Zenon DEF IInv, Shape
  <2> QED
    BY <2>1, <2>2, <2>4, <2>5, <2>6, Preserved, Zenon DEF Ended
<1> QED
  BY <1>1, <1>2, Zenon

-----------------------------------------------------------------------------
\* The invariant holds at the start and every step of the device, its readers,
\* the guest and the service keeps it.
THEOREM InvCorrect == Spec => []IInv
<1>1. Init => IInv
  <2> SUFFICES ASSUME Init PROVE IInv
    OBVIOUS
  <2>1. Shape
    BY Zenon DEF Init, Shape, Unused
  <2>2. \A p \in Ports : table[p] = None
    BY Zenon DEF Init
  <2> QED
    BY <2>1, <2>2, Zenon DEF IInv, OwnPort, ReaderAlive, Connected
<1>2. IInv /\ [Next]_vars => IInv'
  <2> SUFFICES ASSUME IInv, [Next]_vars PROVE IInv'
    OBVIOUS
  <2>1. CASE ProcessTX
    BY <2>1, HandlersKeep, Zenon DEF ProcessTX
  <2>2. CASE \/ ConnectFails \/ WriteDone \/ WriteFails
             \/ Keepalive \/ Poke \/ NotifyRX \/ Detach
    BY <2>2, WritesKeep, Zenon
  <2>0. CASE ConnectDone
    BY <2>0, ConnectKeeps, Zenon
  <2>3. CASE Reset \/ CloseMarks \/ CloseAll \/ CloseReturns
    BY <2>3, EndsKeep, Zenon
  <2>4. CASE Guest \/ Service
    BY <2>4, OutsideKeeps, Zenon
  <2>5. CASE \E c \in Conns : Reader(c)
    BY <2>5, ReaderRunsKeeps, ReaderEndsKeeps, Zenon DEF Reader
  <2>6. CASE UNCHANGED vars
    BY <2>6, Zenon DEF vars, IInv, Shape, OwnPort, ReaderAlive, Connected
  <2> QED
    BY <2>0, <2>1, <2>2, <2>3, <2>4, <2>5, <2>6, Zenon DEF Next
<1> QED
  BY <1>1, <1>2, PTL DEF Spec

\* Every connected connection has a reader that will notice its end
\* (handleConnectLocked, readFromBackend), for any ports, sizes and number of
\* connections.
THEOREM ReaderAliveCorrect == Spec => []ReaderAlive
<1>1. IInv => ReaderAlive
  BY Zenon DEF IInv
<1> QED
  BY <1>1, InvCorrect, PTL
============================================================================
