\* One run, never interrupted, through dividends, splits, halts and thin markets.
SPECIFICATION Spec
CONSTANTS
  a = a
  b = b
  Instrument = {a}
  CAPITAL = 100
  WEIGHT = 50
  MIN_NOTIONAL = 32
  FEE_MIN = 1
  FEE_BPS = 500
  Window <- NextDay
  SettleAfter <- TPlus2
  LAST = 4
  Worlds <- EventfulWorlds
  Decisions <- AnyIntents
  ProviderFails = FALSE
  MAX_RUNS = 0
INVARIANTS TypeOK PositionAccountMatchesLots DividendsAreEntitled
CHECK_DEADLOCK FALSE
