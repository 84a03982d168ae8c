SPECIFICATION FairSpec
CONSTANTS
  Clients = {c1, c2}
  Clean = Clean
  SignalLen = 1
  TranSignalLen = 1
  MaxStarts = 3
INVARIANTS TypeOK OnePoolListener PoolServed
PROPERTIES EmptyPoolCloses
CHECK_DEADLOCK FALSE
