SPECIFICATION Spec
CONSTANTS
  Trans = {t1, t2, t3}
  Spots = {a}
  NoTran = NoTran
  Orig = Orig
  Nil = Nil
  NoSpot = NoSpot
  SignalLen = 2
  TranSignalLen = 2
  CleanCycle = 1
  MaxGen = 2
  IOFails = FALSE
  AllowedOps = {"ReadField", "WriteField", "WriteContext", "StoreSpot"}
  MaxCalls = 1
SYMMETRY SymmetryOfTrans
INVARIANTS WaitersQueued
CHECK_DEADLOCK FALSE
