SPECIFICATION FairSpec
CONSTANTS
    Ids = {i1}
    Attempts = {a1, a2}
    Callers = {c1}
    Ops = {o1}
    NoOne = NoOne
    Networks = {FALSE}
    Hosts = 1
    HostMax = 1
    LastLease = 2
    MaxTombstones = 1
    MaxStops = 2
INVARIANTS ClosedNeverUsed KeptForRetry
PROPERTIES StopEnds ShutdownEnds
CHECK_DEADLOCK FALSE
