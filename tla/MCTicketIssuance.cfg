SPECIFICATION IssuanceSpec
CONSTANTS
  Accounts = {a1}
  Policies = {p1}
  Pins = {c1}
  Lifetime = 2
  MaxHour = 2
  QuotaMax = 2
  MaxTickets = 3
  Handlers = {h1, h2}
  MaxBatch = 2
  MaxNonces = 2
  ChallengeCap = 2
  QuotaCap = 2
SYMMETRY IssuanceSymmetry
INVARIANTS
  QuotaRespected
  ChallengeSingleUse
  SignedForRecentMember
PROPERTIES
  SameKeyThroughout
CHECK_DEADLOCK FALSE
