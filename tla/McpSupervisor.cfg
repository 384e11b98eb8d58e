CONSTANTS
  c1 = c1  c2 = c2
  Calls = {c1, c2}
  MaxServers = 3
  MaxLoops = 2
  CircuitThreshold = 2
  PingThreshold = 2
  Resubmits = {TRUE, FALSE}
  Hooks = {TRUE, FALSE}
  MaxBootFaults = 1
  MaxHangs = 1
SPECIFICATION TameSpec
INVARIANTS TypeOK ReadyIsServing NoStrayServer StopLeavesNoCall
PROPERTIES ResentAfterLoss Served
