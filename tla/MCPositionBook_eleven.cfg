\* A split of eleven lots.
SPECIFICATION Spec
CONSTANTS
  Quantities = {1}
  Costs <- Rising
  Ratios <- Doubling
  LAST = 3
  MAX_BUYS = 11
  MAX_SPLITS = 1
  MAX_SALES = 0
PROPERTIES ImplementsFifo
CHECK_DEADLOCK FALSE
