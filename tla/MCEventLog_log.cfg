\* Sessions that race, on SQLite as it is and as the comments take it to be.
SPECIFICATION FairSpec
CONSTANTS
  w1 = w1
  w2 = w2
  Writer = {w1, w2}
  e1 = e1
  e2 = e2
  EventId = {e1, e2}
  k1 = k1
  Key = {k1}
  b1 = b1
  b2 = b2
  Body = {b1, b2}
  None = None
  APPEND_ATTEMPTS = 3
  StaleWrite = {"constraint", "locked"}
INVARIANTS TypeOK VerifyChain NoEventTwice RetriesHaveRivals
PROPERTIES ImplementsLog AppendReturns
