SPECIFICATION Spec
CONSTANTS
  Proc = {p1, p2}
  SID = {s1, s2, s3}
  CID = {}
  NoSID = NoSID
  NoCID = NoCID
  Free = Free
  Orphan = Orphan
  WaitRoom = FALSE
  Captcha = FALSE
  WaitTime = 1
  WaitGrace = 2
  CaptchaTTL = 2
  CaptchaGrace = 1
  SessionTTL = 1
  AbsLifetime = 4
  RevokeTTL = 1
  ExpireTTL = 1
  MaxAttempts = 2
  MaxRenewals = 0
  MaxSessions = 2
  Ops = {"rotate", "revoke", "transition"}
  Faults = {"store", "crash"}
  Slow = FALSE
  MaxTime = 2
SYMMETRY Symmetry
INVARIANTS NoResurrection
PROPERTIES OneHeir RevokedIsFinal RevokedSlotRunsOut
CHECK_DEADLOCK FALSE
