\* A console section that is not called console, and a logger that names it.
CONSTANTS
  Files <- Whole
  MaxSize = 1073741824
  MaxHandlers = 2
  MaxLoggers = 2
  MaxListeners = 2
  MaxHandlersPerLogger = 2
  DefaultRingSize = 4
  NextPow2 <- LmkNextPow2
  Bits = 30
  MaxCalls = 3
SPECIFICATION ConfigSpec
CHECK_DEADLOCK FALSE
INVARIANT SectionsAttached
