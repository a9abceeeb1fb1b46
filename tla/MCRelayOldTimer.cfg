SPECIFICATION ExpirySpec
CONSTANTS
  Conns = {c1}
  Reqs = {q1}
  StreamOf <- MCStreamOf
  Sources = {s1}
  Mode = "groups"
  ConnCap = 2
  SourceConnCap = 1
  Grace = 1
  MaxLease = 1
  MaxAttempts = 1
  MaxTime = 2
  MaxRedeemed = 2
  MaxSessions = 2
  SourceSessions = 1
PROPERTIES
  OldTimerNeverCancels
CHECK_DEADLOCK FALSE
