\* Passes at any time, over a study that goes on and fills its holes.
SPECIFICATION Spec
CONSTANTS
  a = a
  Instrument = {a}
  Arm = {one, two}
  one = one
  two = two
  Repetition = {first, second}
  first = first
  second = second
  LAST = 4
  Asked = {2}
  MAX_SEALED = 3
  MAX_PASSES = 2
  Worlds <- AllWorlds
  Opinions <- Twice
  Answers <- InFull
SYMMETRY Alike
INVARIANTS TypeOK VerdictIsFinal ReturnIsHolders NothingIsLost ComparisonIsSound
CHECK_DEADLOCK FALSE
