CONSTANTS
  a1 = a1  a2 = a2  c1 = c1  c2 = c2  d1 = d1  d2 = d2  o1 = o1  o2 = o2
  NoId = NoId  NoKey = NoKey  NoTrigger = NoTrigger
  Ids = {a1, a2, c1, c2}
  Arrivals = {a1, a2}
  Keys = {"k"}
  Triggers = {}
  Tasks = {d1, d2}
  Operators = {o1, o2}
  FleetSize = 2
  DepthLimit = 2
  Overlap = FALSE
  LinkCauses = FALSE
  MaxCrashes = 2
  MaxFaults = 1
  MaxErasures = 1
SPECIFICATION ScopedSpec
SYMMETRY Symmetry
INVARIANTS TypeOK OneRunPerKey PendingIsOwned RecoveredAtMostOnce
PROPERTIES KeepsLedger
CHECK_DEADLOCK FALSE
