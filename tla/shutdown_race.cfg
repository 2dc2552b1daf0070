SPECIFICATION EngineSpec
CONSTANTS
  Proc = {p1, p2}
  Closer = {q1}
  FailureThreshold = 2
  CoolDown = 2
  Bypass = TRUE
INVARIANTS InFlightCompletes
CHECK_DEADLOCK FALSE
