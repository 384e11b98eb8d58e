CONSTANTS
  c1 = c1  c2 = c2  c3 = c3
  Callers = {c1, c2, c3}
  FailureThreshold = 3
  SuccessThreshold = 2
  MaxOperations = 2
  NoTag = NoTag
  Transports = {"amqp", "nats"}
  Reasons = {"manual", "breaker", "bus-pressure"}
  MaxCalls = 2
  MaxConsumers = 8
  NoMessage = NoMessage
  Partitions = {0, 1}
  Length = 2
  Budgets = {0, 1}
  MaxFaults = 1
  MaxUpsets = 2
  MaxMishaps = 2
SPECIFICATION PartsSpec
INVARIANTS PartsTypeOK FlowFollowsReasons OffsetsHaveCause
PROPERTIES OpenUntilCooled FreshProbes BreakerRecovers EndCommitted
CHECK_DEADLOCK FALSE
