CONSTANTS
  Sizes = {8}
  LINE = 3
  Bytes = {0, 26, 255}
SPECIFICATION DebugSpec
INVARIANT DebugHidesEmptyLines
