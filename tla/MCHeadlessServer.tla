-------------------------- MODULE MCHeadlessServer --------------------------
(* An instance of HeadlessServer for TLC. *)
EXTENDS HeadlessServer

CONSTANTS c1, parent

MCClients == {c1}

\* Every session begins with an image and a machine.  Then a window is opened
\* or the machine is stopped, and last it is started again, stopped or the
\* server shut down, each at any time after the answer to the one before.
MCAsks == <<{"pull"}, {"start"}, {"glass", "stop"}, {"start", "stop", "shutdown"}>>
=============================================================================
