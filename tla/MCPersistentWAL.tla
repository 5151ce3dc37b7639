-------------------------- MODULE MCPersistentWAL --------------------------
(***************************************************************************)
(* Instances of PersistentWAL for TLC.                                      *)
(***************************************************************************)
EXTENDS PersistentWAL, TLC

CONSTANTS k1, k2, v1, absent

MCKeys == {k1, k2}
MCValues == {absent, v1}
MCSymmetry == Permutations(MCKeys)

HostOf(w, f, c) == [windows |-> w, faults |-> f, crashes |-> c]

\* A POSIX host where everything may happen, and a Windows host where all but
\* power failures may.
AllHosts == {HostOf(FALSE, FaultPoints, {"process", "power"}),
             HostOf(TRUE, FaultPoints, {"process"})}

\* A POSIX host where a write to the log may stop half way.
TearingHosts == {HostOf(FALSE, {"wal-write"}, {"process"})}
=============================================================================
