SPECIFICATION Spec
CONSTANTS
  Inputs = {i1}
  Jobs = {j1}
  Controls = {}
  Continuation = continuation
  NoTask = NoTask
  MaxSteers = 1
  MaxIter = 0
  Budget = 1
  MaxCommands = 2
  UserStops = TRUE
VIEW GoalView
CHECK_DEADLOCK FALSE
INVARIANT GoalNotLost
