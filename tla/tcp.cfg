SPECIFICATION FairSpec
CONSTANTS
  Loads <- Mixed
  InitSeq = 0
  SeqMod = 16
  RecvCap = 4
  OOOCap = 2
  MaxRetries = 1
  DupThreshold = 1
  Lossy = {"data", "ack"}
INVARIANTS InOrder ResponseWhole RequestWhole NothingLost AckedKept RetxArmed
PROPERTY Ends
CHECK_DEADLOCK FALSE
