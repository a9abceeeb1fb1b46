SPECIFICATION ExpirySpec
CONSTANTS
  Conns = {c1}
  Reqs = {q1, q2}
  StreamOf <- MCStreamOf
  Sources = {s1}
  Mode = "groups"
  ConnCap = 2
  SourceConnCap = 1
  Grace = 1
  MaxLease = 1
  MaxAttempts = 1
  MaxTime = 1
  MaxRedeemed = 2
  MaxSessions = 2
  SourceSessions = 1
INVARIANTS
  RelayTypeOK
  ExpiryPending
  ConnectionsCounted
  SessionsCounted
  CloseOrder
PROPERTIES
  ExpiryEnforced
  CloseReturns
CHECK_DEADLOCK FALSE
