CONSTANTS
  a1 = a1  a2 = a2  c1 = c1  c2 = c2  d1 = d1  d2 = d2  o1 = o1  o2 = o2
  NoId = NoId  NoKey = NoKey  NoTrigger = NoTrigger
  Ids = {a1, c1, c2}
  Arrivals = {a1}
  Keys = {}
  Triggers = {"t"}
  Tasks = {d1, d2}
  Operators = {o1}
  FleetSize = 1
  DepthLimit = 2
  Overlap = FALSE
  LinkCauses = FALSE
  MaxCrashes = 1
  MaxFaults = 0
  MaxErasures = 0
  m1 = m1  m2 = m2
  Messages = {m1, m2}
  Strategies = {"before-publish", "after-publish", "after-dispatch"}
  Concurrency = 1
  MaxRetries = 1
  Breakers = {TRUE, FALSE}
  Hosts = {TRUE, FALSE}
  Hooks = {TRUE, FALSE}
  FailureThreshold = 2
  SuccessThreshold = 1
  High = 1
  Low = 0
  IntakeFaults = 1
  MaxDlqFaults = 1
SPECIFICATION PartsSpec
INVARIANTS DlqIsRejected IntakeSound AckedIsHandled PauseHasCause
PROPERTIES KeepsLedger AllSettle
CHECK_DEADLOCK FALSE
