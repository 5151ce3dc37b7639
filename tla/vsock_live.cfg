SPECIFICATION FairSpec
CONSTANTS
  Ports = {1}
  MaxConns = 2
  GuestAlloc = 1
  HostAlloc = 3
  Wrap = 4
  Chunks = {1,2}
  MaxDown = 2
  ChanCap = 1
  Backlog = 1
  RxBufs = 1
  MaxOut = 1
  Loads <- Progress
  EarlyReuse = FALSE
PROPERTIES Delivered CloseEnds WriteEnds
CHECK_DEADLOCK FALSE
