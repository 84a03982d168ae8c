SPECIFICATION Spec
CONSTANTS
  Trans = {t1, t2}
  Spots = {a, b}
  NoTran = NoTran
  Orig = Orig
  Nil = Nil
  NoSpot = NoSpot
  SignalLen = 2
  TranSignalLen = 2
  CleanCycle = 200
  MaxGen = 1
  IOFails = TRUE
  AllowedOps = {"ExistSpot", "ReadField", "ReadSpot", "WriteField", "StoreSpot", "DeleteSpot"}
  MaxCalls = 2
SYMMETRY Symmetry
INVARIANTS TypeOK HoldsInvariant OccupiedByHolder CacheCoherent ReadsCommitted DiskCommitted
PROPERTIES ImplementsExclusiveStore
CHECK_DEADLOCK FALSE
