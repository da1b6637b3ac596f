SPECIFICATION Spec
CONSTANTS
  a = a
  b = b
  NoId = NoId
  CallIds = {a, b, NoId}
  CallLists <- MCCallLists
  MaxRecords = 5
CHECK_DEADLOCK FALSE
INVARIANT RequestsPaired
INVARIANT ResumeAgrees
INVARIANT RealResultWins
INVARIANT ShrunkStaysPaired
PROPERTY RepairKeepsLastTurn
