\* Cycles interrupted anywhere, with outages and agent failures, and run again.
SPECIFICATION Spec
CONSTANTS
  B = B
  C = C
  CPrime = CPrime
  x = x
  Units <- TreatedAndPlacebo
  Grants <- ArmGrants
  Answers = {x}
  MAX_FAILURES = 1
  LAST = 2
  INTERVAL = 2
  MIN_EPISODES = 1
  RECALL_LIMIT = 1
  MAX_OUTAGES = 1
  MAX_RUNS = 2
INVARIANTS TypeOK MaterialIsReplayable HolesAreFilled EveryConditionAccounted OneDecisionEach
CHECK_DEADLOCK FALSE
