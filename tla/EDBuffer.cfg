SPECIFICATION Spec
CONSTANTS
  e1 = e1
  o1 = o1
  o2 = o2
  k1 = k1
  k2 = k2
  Emitters = {e1}
  Clients = {}
  ObserverIds = {o1, o2}
  Keys = {k1, k2}
  NoKey = NoKey
  NoSub = NoSub
  Capacity = 2
  MaxSeq = 4
SYMMETRY Symmetry
CHECK_DEADLOCK FALSE
INVARIANT BufferComplete
