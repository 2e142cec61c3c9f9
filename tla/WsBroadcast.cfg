SPECIFICATION FairSpec
CONSTANTS
  Producer = {p1, p2}
  Client = {w1, w2}
  Service = Service
  NoThread = NoThread
  NoClient = NoClient
  MaxCalls = 2
INVARIANTS
  TypeOK
  Consistent
  NoLostWakeup
  DeliveredInOrder
PROPERTIES
  Implements
  CaughtUp
