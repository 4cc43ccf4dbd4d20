\* experiments/runner.py: no agent failure goes unreported.
SPECIFICATION Spec
CONSTANTS
  B = B
  C = C
  CPrime = CPrime
  x = x
  Units <- TreatedAndPlacebo
  Grants <- ArmGrants
  Answers = {x}
  MAX_FAILURES = 1
  LAST = 0
  INTERVAL = 2
  MIN_EPISODES = 1
  RECALL_LIMIT = 2
  MAX_OUTAGES = 0
  MAX_RUNS = 1
INVARIANTS FailuresAreObserved
CHECK_DEADLOCK FALSE
