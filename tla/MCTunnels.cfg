SPECIFICATION TunnelsSpec
CONSTANTS
  Conns = {c1}
  Reqs = {q1, q2}
  StreamOf <- MCStreamOf
  Sources = {s1}
  Mode = "public"
  ConnCap = 1
  SourceConnCap = 1
  Grace = 1
  MaxLease = 1
  MaxAttempts = 0
  MaxTime = 0
  MaxRedeemed = 0
  MaxSessions = 2
  SourceSessions = 2
  SendCap = 1
INVARIANTS
  NoLostWakeup
PROPERTIES
  ImplementsRelay
  NothingLeftRunning
  CancelledEnds
CHECK_DEADLOCK FALSE
