\* Every file of at most three lines, six whole ones and one for each ring size of
\* RingSizes, with room for two handler sections, two logger sections, two listeners,
\* two handlers a logger.
CONSTANTS
  Files <- SmallFiles
  MaxSize = 1073741824
  MaxHandlers = 2
  MaxLoggers = 2
  MaxListeners = 2
  MaxHandlersPerLogger = 2
  DefaultRingSize = 4
  NextPow2 <- LmkNextPow2
  Bits = 30
  MaxCalls = 3
SPECIFICATION ConfigSpec
CHECK_DEADLOCK FALSE
INVARIANTS
  ParseMatches
  LoggersAttached
  RingAsConfigured
  ReapplyKeeps
