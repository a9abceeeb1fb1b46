SPECIFICATION MembershipSpec
CONSTANTS
  Callers = {l1}
  Addresses = {a1}
  AllowedGroups = {g1, g2}
  b1 = b1
  b2 = b2
  CoreURLBases <- TwoBases
  Slots = 2
  Parallel = 2
  PendingCap = 1
  CacheCap = 1
INVARIANTS
  HealthyKeepTheirPlace
CHECK_DEADLOCK FALSE
