SPECIFICATION FairSpec
CONSTANTS
  Permissions = {p1}
  Questions = {q1}
  Timed = {q1}
  Clients = {c1}
  Connected = {}
  Nobody = Nobody
  MaxSwitches = 1
  MaxLate = 1
CHECK_DEADLOCK FALSE
INVARIANT AcceptedAnswerCounts
INVARIANT NoMissedRequest
INVARIANT NoStaleCardInTurn
PROPERTY StopEndsTurn
