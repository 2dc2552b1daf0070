SPECIFICATION LapsingSpec
CONSTANTS
  Proc = {p1, p2}
  SID = {s1}
  CID = {}
  NoSID = NoSID
  NoCID = NoCID
  Free = Free
  Orphan = Orphan
  WaitRoom = TRUE
  Captcha = FALSE
  WaitTime = 1
  WaitGrace = 2
  CaptchaTTL = 2
  CaptchaGrace = 1
  SessionTTL = 2
  AbsLifetime = 4
  RevokeTTL = 2
  ExpireTTL = 1
  MaxAttempts = 2
  MaxRenewals = 1
  MaxSessions = 2
  Ops = {"revoke"}
  Faults = {}
  Slow = FALSE
  MaxTime = 5
SYMMETRY Symmetry
PROPERTIES RevokedIsFinal
CHECK_DEADLOCK FALSE
