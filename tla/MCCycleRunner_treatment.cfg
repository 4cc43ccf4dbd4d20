\* experiments/runner.py: the panel receives the same granted material.
SPECIFICATION Spec
CONSTANTS
  B = B
  C = C
  CPrime = CPrime
  x = x
  Units <- MemoryOnly
  Grants <- ArmGrants
  Answers = {x}
  MAX_FAILURES = 0
  LAST = 1
  INTERVAL = 2
  MIN_EPISODES = 1
  RECALL_LIMIT = 2
  MAX_OUTAGES = 1
  MAX_RUNS = 1
INVARIANTS PanelSharesMaterial
CHECK_DEADLOCK FALSE
