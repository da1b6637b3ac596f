SPECIFICATION Spec
CONSTANTS
  Worker = w
  Tools = {u1}
  Commands = {c1}
  Budgets = {0, 1}
  MaxCommands = 1
  MaxGoals = 2
  MaxTokens = 1
CHECK_DEADLOCK FALSE
INVARIANT UsageExact
INVARIANT BudgetStops
INVARIANT StatusIsItsOwn
