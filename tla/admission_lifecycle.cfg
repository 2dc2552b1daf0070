SPECIFICATION Spec
CONSTANTS
  Proc = {p1, p2}
  SID = {s1, s2, s3}
  CID = {c1}
  NoSID = NoSID
  NoCID = NoCID
  Free = Free
  Orphan = Orphan
  WaitRoom = FALSE
  Captcha = TRUE
  WaitTime = 1
  WaitGrace = 2
  CaptchaTTL = 2
  CaptchaGrace = 1
  SessionTTL = 2
  AbsLifetime = 4
  RevokeTTL = 2
  ExpireTTL = 1
  MaxAttempts = 2
  MaxRenewals = 0
  MaxSessions = 1
  Ops = {"issue", "validate", "rotate", "revoke"}
  Faults = {}
  Slow = FALSE
  MaxTime = 5
SYMMETRY Symmetry
INVARIANTS AbsoluteCeiling RevokedFreesSlot CapacityBound
CHECK_DEADLOCK FALSE
