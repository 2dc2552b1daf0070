SPECIFICATION BothSpec
CONSTANTS
  Proc = {p1, p2}
  Closer = {q1, q2}
  Caller = {p1, p2, p3, p4}
  FailureThreshold = 2
  CoolDown = 1
  Bypass = TRUE
INVARIANTS EngineTypeOK FlagHasOwner TripCount AwaitsCounted ClosedOnReturn
PROPERTIES RefinesBreaker CoolsDown RecoversAlone ShutdownReturns
CHECK_DEADLOCK FALSE
