------------------------- MODULE MCPersistentStore -------------------------
(***************************************************************************)
(* Instances of PersistentStore for TLC.                                    *)
(***************************************************************************)
EXTENDS PersistentStore

CONSTANTS k1, k2, v1, absent

MCKeys == {k1, k2}
MCValues == {absent, v1}

HostOf(w, f, c) == [windows |-> w, faults |-> f, crashes |-> c]

\* A POSIX host whose log and directory syncs work and whose power may fail.
ReliableHosts == {HostOf(FALSE, FaultPoints \ {"wal-write", "wal-sync", "dir-sync"}, {"power"})}
=============================================================================
