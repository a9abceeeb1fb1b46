SPECIFICATION LifecycleSafety
CONSTANTS
  Clients <- TwoClients
  Lease = 2
INVARIANTS
  RemovedMeansGone
