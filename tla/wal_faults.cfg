CONSTANTS
  k1 = k1
  k2 = k2
  v1 = v1
  absent = absent
  Absent = absent
  Keys <- MCKeys
  Values <- MCValues
  Hosts <- AllHosts
  MaxSeq = 4
  MaxLog = 2
  MaxCrashes = 1
SPECIFICATION Spec
INVARIANTS TypeOK NothingForgotten UsedReopens
SYMMETRY MCSymmetry
