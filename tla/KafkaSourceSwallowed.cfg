CONSTANTS
  NoMessage = NoMessage
  Partitions = {0}
  Length = 2
  Budgets = {1}
  MaxFaults = 0
  MaxUpsets = 0
SPECIFICATION Spec
INVARIANT NothingSkipped
CHECK_DEADLOCK FALSE
