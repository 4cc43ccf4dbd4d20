\* accounting/ledger.py: rows and their event land together or not at all.
SPECIFICATION Spec
CONSTANTS
  w1 = w1
  w2 = w2
  Writer = {w1, w2}
  e1 = e1
  e2 = e2
  EventId = {e1, e2}
  k1 = k1
  Key = {k1}
  b1 = b1
  b2 = b2
  Body = {b1, b2}
  None = None
  APPEND_ATTEMPTS = 3
  StaleWrite = {"locked"}
SYMMETRY Writers
PROPERTIES LandTogether
