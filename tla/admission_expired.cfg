SPECIFICATION Spec
CONSTANTS
  Proc = {p1, p2}
  SID = {s1}
  CID = {}
  NoSID = NoSID
  NoCID = NoCID
  Free = Free
  Orphan = Orphan
  WaitRoom = TRUE
  Captcha = TRUE
  WaitTime = 1
  WaitGrace = 2
  CaptchaTTL = 2
  CaptchaGrace = 1
  SessionTTL = 4
  AbsLifetime = 0
  RevokeTTL = 2
  ExpireTTL = 1
  MaxAttempts = 2
  MaxRenewals = 1
  MaxSessions = 2
  Ops = {"transition"}
  Faults = {}
  Slow = FALSE
  MaxTime = 6
SYMMETRY Symmetry
PROPERTIES ExpiredIsFinal
CHECK_DEADLOCK FALSE
