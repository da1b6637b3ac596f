SPECIFICATION Spec
CONSTANTS
  l1 = l1
  l2 = l2
  w1 = w1
  Loops = {l1, l2}
  Defined = {l1}
  Occurs <- MCOccurs
  Workspace <- MCWorkspace
  NoWorkspace = NoWorkspace
  Daemons = {d1, d2}
  Grace = 0
  MaxTime = 3
  MaxEdits = 1
  MaxEnds = 1
SYMMETRY Symmetry
CHECK_DEADLOCK FALSE
INVARIANT AccountedOnce
INVARIANT NoCatchUp
INVARIANT StatusFollowsSession
PROPERTY SettledStays
