SPECIFICATION Spec
CONSTANTS
  a = a
  b = b
  ghost = ghost
  old = old
  bar = bar
  early = early
  news = news
  NONE = NONE
  CUTOFF = 2
  LONGEST = 2
  Universe <- TwoInstruments
  Evidence <- FourPieces
  Horizons <- TwoHorizons
  Responses <- AnyResponse
  MAX_TURNS = 2
  MAX_CALLS = 2
  MAX_CHARS = 3
INVARIANT NothingEscapes
