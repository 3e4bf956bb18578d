SPECIFICATION SessionsSpec
CONSTANTS
  BsRequests = {q1, q2}
  BsMaxExpiries = 2
  BsMaxOutages = 1
  BsTries = 2
  McCalls = {k1, k2}
  McTokens = {t1}
  McTTL = 1
  McMaxClock = 2
  McMaxStarts = 2
  CfRunners = {a, b}
  CfRequests = {m1}
  CfMaxVersion = 3
  CfUnusable = {2}
  CfMaxFaults = 1
  CfNobody = CfNobody
INVARIANTS
  ConfirmedOnce
PROPERTIES
  RequestsSettle
  Reconnects
  AppliedIsNew
  ConfigApplied
CHECK_DEADLOCK FALSE
