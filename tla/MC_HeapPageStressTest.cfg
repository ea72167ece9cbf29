CONSTANTS
  ZERO = ZERO
  META = META
  UNREADABLE = UNREADABLE
  PAGE_SIZE = 32
  Lengths = {1, 3, 5}
  QueueLengths = {1, 3, 5}
  QUEUE_LEN = 5
SPECIFICATION TestSpec
VIEW TestView
INVARIANTS
  StressTestPasses
