CONSTANTS
  ZERO = ZERO
  META = META
  UNREADABLE = UNREADABLE
  PAGE_SIZE = 32
  Lengths = {0, 1, 2, 12}
SPECIFICATION Spec
VIEW MCView
INVARIANT
  ValueRoundTrip
