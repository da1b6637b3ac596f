SPECIFICATION FairSpec
CONSTANTS
  Daemons = {d1}
  Tuis = {t1, t2}
  NoProcess = NoProcess
  MaxContexts = 2
CHECK_DEADLOCK FALSE
INVARIANT OneContext
INVARIANT WritesUnderLease
INVARIANT HistoryComplete
PROPERTY InflightEnds
