CONSTANTS
  a1 = a1  a2 = a2  c1 = c1  c2 = c2  d1 = d1  d2 = d2  o1 = o1  o2 = o2
  NoId = NoId  NoKey = NoKey  NoTrigger = NoTrigger
  Ids = {a1, c1}
  Arrivals = {a1}
  Keys = {}
  Triggers = {"t"}
  Tasks = {d1}
  Operators = {o1}
  FleetSize = 1
  DepthLimit = 2
  Overlap = FALSE
  LinkCauses = FALSE
  MaxCrashes = 0
  MaxFaults = 0
  MaxErasures = 0
SPECIFICATION Spec
INVARIANT RequeuedCloneRoutes
CHECK_DEADLOCK FALSE
