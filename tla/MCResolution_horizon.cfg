\* A decision that forecasts the session it is made in.
SPECIFICATION Spec
CONSTANTS
  a = a
  Instrument = {a}
  Arm = {one, two}
  one = one
  two = two
  Repetition = {first, second}
  first = first
  second = second
  LAST = 4
  Asked = {2}
  MAX_SEALED = 3
  MAX_PASSES = 2
  Worlds <- AllWorlds
  Opinions <- Unchecked
  Answers <- InFull
SYMMETRY Alike
INVARIANTS NoForecastBreaksThePass
CHECK_DEADLOCK FALSE
