CONSTANTS
  Tab = {t1, t2}
  Html = {t1}
  SID = {s1, s2, s3}
  NoSID = NoSID
  MaxAttempts = 2
  Configs <- Deployments
SPECIFICATION Spec
INVARIANTS GatewayTypeOK OnlyTheAdmitted Isolated
PROPERTY Served
CHECK_DEADLOCK FALSE
