SPECIFICATION FairSpec
CONSTANTS
  Trans = {t1, t2}
  Monitor = Monitor
  Nil = Nil
  SignalLen = 1
  TimesOut = TRUE
  MaxWork = 1
  MaxFails = 1
INVARIANTS TypeOK ClosedAfterAll
PROPERTIES CloseReturns
CHECK_DEADLOCK FALSE
