\* Purchases, partial sales and a 2-for-1 split in every order.
SPECIFICATION Spec
CONSTANTS
  Quantities = {1, 2}
  Costs <- Rising
  Ratios <- Doubling
  LAST = 3
  MAX_BUYS = 3
  MAX_SPLITS = 2
  MAX_SALES = 2
INVARIANTS TypeOK
PROPERTIES ImplementsFifo SplitKeepsCostBasis
CHECK_DEADLOCK FALSE
