CONSTANTS
  x1 = x1  x2 = x2  x3 = x3  k1 = k1  k2 = k2  y1 = y1  y2 = y2
  Dispatches = {x1, x2, x3}
  Keys = {k1, k2}
  MaxIterations = 2
  MaxBlocks = 2
  MaxFaults = 1
  MaxCrashes = 1
  MaxRounds = 2
  MaxMishaps = 1
  Uncached = Uncached
  Processes = {y1, y2}
  Agents = {y1, y2}
  Messages = {x1, x2, x3}
  MaxRestarts = 1
SPECIFICATION PartsSpec
INVARIANTS PartsTypeOK SessionLock Accumulates HandedOverOnce DepthIsPending
PROPERTY KeepsConversation
SYMMETRY Symmetry
CHECK_DEADLOCK FALSE
