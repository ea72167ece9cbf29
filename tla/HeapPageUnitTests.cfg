CONSTANTS
  PAGE_SIZE = 4096
  Lengths = {}
  TUPLE_LEN = 24
  ZERO = ZERO
  META = META
SPECIFICATION UnitSpec
INVARIANT UnitTestsPass
