CONSTANTS
  Dispatches = {d1, d2}
  Keys = {k1}
  MaxIterations = 1
  MaxBlocks = 1
  MaxFaults = 0
  MaxCrashes = 0
SPECIFICATION Spec
INVARIANT WaitingTurnRuns
CHECK_DEADLOCK FALSE
