SPECIFICATION Spec
CONSTANTS
  Loads <- HalfClose
  InitSeq = 0
  SeqMod = 16
  RecvCap = 4
  OOOCap = 2
  MaxRetries = 1
  DupThreshold = 1
  Lossy = {"data", "ack"}
INVARIANT ResponseWhole
CHECK_DEADLOCK FALSE
