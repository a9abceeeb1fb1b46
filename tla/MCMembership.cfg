SPECIFICATION MembershipFairSpec
CONSTANTS
  Callers = {l1, l2}
  Addresses = {a1, a2}
  AllowedGroups = {g1, g2}
  b1 = b1
  b2 = b2
  CoreURLBases <- TwoBases
  Slots = 1
  Parallel = 1
  PendingCap = 1
  CacheCap = 1
INVARIANTS
  AnswersJustified
  SlotsAccounted
PROPERTIES
  LookupsEnd
CHECK_DEADLOCK FALSE
