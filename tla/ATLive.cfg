SPECIFICATION FairSpec
CONSTANTS
  Inputs = {i1, i2}
  Jobs = {}
  Controls = {}
  Continuation = continuation
  NoTask = NoTask
  MaxSteers = 2
  MaxIter = 0
  Budget = 1
  MaxCommands = 0
  UserStops = TRUE

CHECK_DEADLOCK FALSE
PROPERTY SteerServed
PROPERTY InterruptEndsTurn
