CONSTANTS
  ZERO = ZERO
  META = META
  UNREADABLE = UNREADABLE
  PAGE_SIZE = 32
  Lengths = {0, 1, 2, 12}
SPECIFICATION IterSpec
VIEW IterView
INVARIANTS

  IterationExact
