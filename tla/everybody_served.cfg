SPECIFICATION FairSpec
CONSTANTS
  Trans = {t1, t2, t3}
  Spots = {a}
  NoTran = NoTran
  Orig = Orig
  Nil = Nil
  NoSpot = NoSpot
  SignalLen = 2
  TranSignalLen = 2
  CleanCycle = 200
  MaxGen = 1
  IOFails = FALSE
  AllowedOps = {"WriteField"}
  MaxCalls = 1
PROPERTIES EndAnswered WritersServed
CHECK_DEADLOCK FALSE
