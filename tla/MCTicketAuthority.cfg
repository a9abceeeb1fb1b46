SPECIFICATION AuthoritySpec
CONSTANTS
  Accounts = {a1}
  Policies = {p1}
  Pins = {c1}
  Lifetime = 2
  MaxHour = 3
  QuotaMax = 1
  MaxTickets = 1
  Handlers = {h1}
  MaxBatch = 1
  MaxNonces = 1
  ChallengeCap = 1
  QuotaCap = 1
  Requests = {r1, r2}
  SpentCap = 2
  NoTicket = NoTicket
INVARIANTS
  GrantEndsWithTicket
  UsableTicketIsMarked
  RevocationBound
  NoDoubleLiveGrant
CHECK_DEADLOCK FALSE
PROPERTIES
  ImplementsParts
