\* A run that may stop after any commit and is run again, resolved at any time, and replayed.
SPECIFICATION ReplaySpec
CONSTANTS
  a = a
  b = b
  Instrument = {a}
  CAPITAL = 100
  WEIGHT = 50
  MIN_NOTIONAL = 10
  FEE_MIN = 1
  FEE_BPS = 500
  Window <- NextDay
  SettleAfter <- TPlus1
  LAST = 3
  Worlds <- QuietWorlds
  Decisions <- AnyIntents
  ProviderFails = FALSE
  MAX_RUNS = 2
  HORIZON = 1
INVARIANTS HonestRunsReplay
CHECK_DEADLOCK FALSE
