CONSTANTS
  Sizes = {8, 9}
  LINE = 3
  Bytes = {0, 26, 255}
SPECIFICATION DebugSpec
INVARIANT DebugLossless
