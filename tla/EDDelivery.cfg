SPECIFICATION FairSpec
CONSTANTS
  e1 = e1
  e2 = e2
  c1 = c1
  c2 = c2
  Emitters = {e1, e2}
  Clients = {c1, c2}
  ObserverIds = {}
  Keys = {}
  NoKey = NoKey
  NoSub = NoSub
  Capacity = 2
  MaxSeq = 3
CHECK_DEADLOCK FALSE
INVARIANT OneCaller
INVARIANT DeliveredInOrder
PROPERTY ImplementsOrderedDelivery
PROPERTY PendingDelivered
