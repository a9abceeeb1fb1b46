SPECIFICATION BufferSpec
CONSTANTS
  Queues = {s1, s2}
  Admitted = {s1}
  Datagrams = {"small", "large"}
  Size <- MCSize
  DefaultLimit <- MCDefaultLimit
  BurstPackets = 3
  BurstBytes = 5
  BurstAge = 0
  GlobalLimit = 8
  SlotCharge = 1
  FirstRing = 2
  KeptRing = 2
  MaxTime = 1
INVARIANTS
  BudgetExact
  NoReceiverForgotten
PROPERTIES
  ImplementsFifo
CHECK_DEADLOCK FALSE
