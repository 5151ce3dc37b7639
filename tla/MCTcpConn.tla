----------------------------- MODULE MCTcpConn -----------------------------
(***************************************************************************)
(* Instances of TcpConn.  Each connection stresses one part: a queue       *)
(* smaller than the window, losses of the response, a window of one unit,  *)
(* losses of the request (a FIN may overtake them), both directions at     *)
(* once, and a reset.                                                      *)
(***************************************************************************)
EXTENDS TcpConn

L(down, up, wnd, cap, fs, ends) ==
  [down |-> down, up |-> up, wnd |-> wnd, cap |-> cap, faults |-> fs, ends |-> ends]

Mixed == {L(2, 0, 2, 1, 0, "last"), L(2, 0, 2, 2, 1, "last"), L(2, 0, 1, 2, 0, "last"),
          L(0, 3, 1, 1, 2, "last"), L(1, 1, 1, 1, 0, "last"), L(1, 0, 1, 1, 1, "reset")}

\* A guest that ends its request before the response has come.
HalfClose == {L(1, 1, 1, 1, 0, "first")}
=============================================================================
