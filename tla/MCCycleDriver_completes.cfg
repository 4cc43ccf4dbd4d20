\* A provider outage, a restart, and the run that is left alone.
SPECIFICATION FairSpec
CONSTANTS
  a = a
  b = b
  Instrument = {a}
  CAPITAL = 100
  WEIGHT = 50
  MIN_NOTIONAL = 10
  FEE_MIN = 1
  FEE_BPS = 500
  Window <- NextDay
  SettleAfter <- TPlus1
  LAST = 2
  Worlds <- QuietWorlds
  Decisions <- AnyIntents
  ProviderFails = TRUE
  MAX_RUNS = 1
PROPERTIES RunCompletes
CHECK_DEADLOCK FALSE
