CONSTANTS
  c1 = c1
  parent = parent
  Parent = parent
  Clients <- MCClients
  MaxKeys = 4
  Asks <- MCAsks
SPECIFICATION FairSpec
INVARIANTS OneMachine DetachedFirst ActiveHonest ShutdownComplete
PROPERTIES FinishedStays NeverRevived OperationsEnd
