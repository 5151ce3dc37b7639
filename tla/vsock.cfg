SPECIFICATION Spec
CONSTANTS
  Ports = {1}
  MaxConns = 2
  GuestAlloc = 2
  HostAlloc = 1
  Wrap = 3
  Chunks = {1,3}
  MaxDown = 5
  ChanCap = 1
  Backlog = 1
  RxBufs = 2
  MaxOut = 1
  Loads <- Streams
  EarlyReuse = FALSE
INVARIANTS CreditRespected StreamIntact ReaderAlive
CHECK_DEADLOCK FALSE
