CONSTANTS
  c1 = c1  c2 = c2
  Calls = {c1, c2}
  MaxServers = 3
  MaxLoops = 2
  CircuitThreshold = 2
  PingThreshold = 2
  Resubmits = {TRUE, FALSE}
  Hooks = {TRUE}
  MaxBootFaults = 0
  MaxHangs = 0
SPECIFICATION Spec
INVARIANT NoOrphanCall
