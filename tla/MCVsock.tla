------------------------------ MODULE MCVsock ------------------------------
(***************************************************************************)
(* Instances of Vsock.  Each load stresses one part, so that bounds that   *)
(* matter for it can be larger than all of them together would allow.      *)
(***************************************************************************)
EXTENDS Vsock

L(conns, down, up, ends, pokes) ==
  [conns |-> conns, down |-> down, up |-> up, ends |-> ends, keepalive |-> pokes]

\* Several packets on their way in a stream that uses up its credit, and that
\* either side ends; two connections, one after the other on a port, with the
\* end of the listener or a reset between them; a device that is
\* reset or detached with both directions in use.
Streams == {L(1, 5, 0, {"service", "guest"}, FALSE),
            L(2, 3, 0, {"service", "guest", "listener"}, FALSE),
            L(2, 3, 0, {"reset"}, FALSE),
            L(1, 3, 1, {"service", "reset", "detach"}, FALSE)}

\* A stream under a keepalive, alone and with a write of the guest's data that
\* waits for a service; Close while a reader waits for credit, while a write
\* waits, and while a connection waits for the listener.
Progress == {L(1, 2, 0, {"service", "close"}, TRUE),
             L(1, 1, 2, {"service"}, TRUE),
             L(1, 1, 2, {"service", "close"}, FALSE),
             L(2, 0, 0, {"guest", "listener", "close"}, TRUE)}
============================================================================
