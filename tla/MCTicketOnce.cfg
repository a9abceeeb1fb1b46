SPECIFICATION RedemptionSpec
CONSTANTS
  Accounts = {a1}
  Policies = {p1}
  Pins = {c1}
  Lifetime = 2
  MaxHour = 3
  QuotaMax = 1
  MaxTickets = 2
  Requests = {r1, r2}
  SpentCap = 2
  NoTicket = NoTicket
SYMMETRY RequestSymmetry
INVARIANTS
  RedeemedAtMostOnce
CHECK_DEADLOCK FALSE
