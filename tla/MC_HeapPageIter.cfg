CONSTANTS
  ZERO = ZERO
  META = META
  UNREADABLE = UNREADABLE
  PAGE_SIZE = 32
  Lengths = {1, 2, 3, 4, 99}
SPECIFICATION IterSpec
VIEW IterView
INVARIANTS
  IterTypeOK
  IterationExact
