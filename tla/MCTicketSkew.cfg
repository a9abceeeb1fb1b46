SPECIFICATION RedemptionSkewSpec
CONSTANTS
  Accounts = {a1}
  Policies = {p1, p2}
  Pins = {c1}
  Lifetime = 2
  MaxHour = 3
  QuotaMax = 0
  MaxTickets = 1
  Requests = {r1}
  SpentCap = 1
  NoTicket = NoTicket
SYMMETRY PolicySymmetry
INVARIANTS
  OneKeyPerHour
  TicketsStayRedeemable
CHECK_DEADLOCK FALSE
