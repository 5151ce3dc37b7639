SPECIFICATION Spec
CONSTANTS
    Ids = {i1, i2}
    Attempts = {a1, a2, a3}
    Callers = {c1}
    Ops = {}
    NoOne = NoOne
    Networks = {TRUE}
    Hosts = 2
    HostMax = 1
    LastLease = 4
    MaxTombstones = 1
    MaxStops = 1
SYMMETRY MCSymmetry
INVARIANTS TypeOK LiveAccounted AddressesDistinct AdmittedFits SlotsCounted ExitHonest ShutdownComplete
CHECK_DEADLOCK FALSE
