CONSTANTS
  c1 = c1  c2 = c2  c3 = c3
  NoCall = NoCall
  NoCause = NoCause
  Turns = {1, 2, 3}
  Calls = {c1, c2, c3}
  TurnOf <- ThreeTurns
  Cause <- OneSkill
  Capacity = 1
  Transports = {"memory", "broker"}
  MaxFaults = 1
SPECIFICATION FairSpec
INVARIANTS TypeOK NoLostWaiter AnswerHasId
PROPERTIES EveryCallReturns
CHECK_DEADLOCK FALSE
