SPECIFICATION Spec
CONSTANTS
  Inputs = {i1, i2, i3}
  Jobs = {}
  Controls = {c1}
  Continuation = continuation
  NoTask = NoTask
  MaxSteers = 2
  MaxIter = 2
  Budget = 1
  MaxCommands = 0
  UserStops = TRUE
SYMMETRY Symmetry
CHECK_DEADLOCK FALSE
INVARIANT ExactlyOnce
INVARIANT LandsInNamedTurn
INVARIANT AcceptedInOrder
INVARIANT DiscardedOnlyByFailure
INVARIANT ReceiptHolds
PROPERTY PromisedRunFirst
