SPECIFICATION Spec
CONSTANTS
  Daemons = {d1}
  Tuis = {t1}
  NoProcess = NoProcess
  MaxContexts = 2
CHECK_DEADLOCK FALSE
INVARIANT Serialized
