SPECIFICATION Spec
CONSTANTS
  Proc = {p1, p2}
  SID = {s1, s2}
  CID = {c1}
  NoSID = NoSID
  NoCID = NoCID
  Free = Free
  Orphan = Orphan
  WaitRoom = TRUE
  Captcha = TRUE
  WaitTime = 1
  WaitGrace = 2
  CaptchaTTL = 2
  CaptchaGrace = 1
  SessionTTL = 2
  AbsLifetime = 0
  RevokeTTL = 2
  ExpireTTL = 1
  MaxAttempts = 1
  MaxRenewals = 1
  MaxSessions = 1
  Ops = {"issue", "validate"}
  Faults = {}
  Slow = FALSE
  MaxTime = 5
SYMMETRY Symmetry
INVARIANTS CapacityBound
CHECK_DEADLOCK FALSE
