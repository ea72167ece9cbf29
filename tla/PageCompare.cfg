CONSTANTS
  N = 4
  Bytes = {0, 1}
SPECIFICATION CompareSpec
INVARIANT ComparePageSound
