\* accounting/positions.py: an oversized close is a bug.
SPECIFICATION Spec
CONSTANTS
  a = a
  b = b
  Instrument = {a}
  CAPITAL = 100
  WEIGHT = 50
  MIN_NOTIONAL = 32
  FEE_MIN = 1
  FEE_BPS = 500
  Window <- NextDay
  SettleAfter <- TPlus2
  LAST = 3
  Worlds <- MergingWorlds
  Decisions <- AnyIntents
  ProviderFails = FALSE
  MAX_RUNS = 0
INVARIANTS NoOverClose
CHECK_DEADLOCK FALSE
