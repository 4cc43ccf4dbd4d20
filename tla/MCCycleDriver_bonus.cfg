\* experiments/driver.py: buying on the ex-date does not earn the dividend.
SPECIFICATION Spec
CONSTANTS
  a = a
  b = b
  Instrument = {a}
  CAPITAL = 100
  WEIGHT = 50
  MIN_NOTIONAL = 10
  FEE_MIN = 1
  FEE_BPS = 500
  Window <- NextDay
  SettleAfter <- TPlus2
  LAST = 3
  Worlds <- EventfulWorlds
  Decisions <- AnyIntents
  ProviderFails = FALSE
  MAX_RUNS = 1
INVARIANTS DividendsAreEntitled
CHECK_DEADLOCK FALSE
