CONSTANTS
  k1 = k1
  k2 = k2
  v1 = v1
  absent = absent
  Absent = absent
  Keys <- MCKeys
  Values <- MCValues
  Hosts <- ReliableHosts
  MaxSeq = 5
  MaxLog = 4
  MaxCrashes = 2
SPECIFICATION Spec
INVARIANTS Durability AlwaysRecoverable
PROPERTY Implements
