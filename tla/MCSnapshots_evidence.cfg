SPECIFICATION Spec
CONSTANTS
  ALPHA = ALPHA
  BETA = BETA
  NO_NEWS = 3
  LATE_DATA = 1
  MACRO_REVISION = 2
  SPLIT = 3
  DIVIDEND = 2
  TICKER_CHANGE = 2
  LAST = 3
  MAX_RUNS = 2
  MAX_STATUS = 1
INVARIANT TypeOK
INVARIANT PointInTime
INVARIANT IngestionExplained
INVARIANT RefusedOnlyByOwnChange
INVARIANT ChangesAnnounced
INVARIANT SealedDaysHold
