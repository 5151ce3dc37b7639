CONSTANTS
  k1 = k1
  k2 = k2
  v1 = v1
  absent = absent
  Absent = absent
  Keys <- MCKeys
  Values <- MCValues
  Hosts <- TearingHosts
  MaxSeq = 5
  MaxLog = 6
  MaxCrashes = 1
SPECIFICATION Spec
INVARIANT Durability
SYMMETRY MCSymmetry
