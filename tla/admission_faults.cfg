SPECIFICATION Spec
CONSTANTS
  Proc = {p1, p2}
  SID = {s1}
  CID = {c1, c2}
  NoSID = NoSID
  NoCID = NoCID
  Free = Free
  Orphan = Orphan
  WaitRoom = TRUE
  Captcha = TRUE
  WaitTime = 1
  WaitGrace = 2
  CaptchaTTL = 2
  CaptchaGrace = 1
  SessionTTL = 2
  AbsLifetime = 3
  RevokeTTL = 2
  ExpireTTL = 1
  MaxAttempts = 2
  MaxRenewals = 1
  MaxSessions = 1
  Ops = {"issue", "validate", "revoke"}
  Faults = {"store", "crash"}
  Slow = TRUE
  MaxTime = 4
SYMMETRY Symmetry
INVARIANTS TypeOK GuessBudget
PROPERTIES PatienceServed RefinesFSM
CHECK_DEADLOCK FALSE
