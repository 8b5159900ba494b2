\* A build in which the stores of an attach become visible in any order.
CONSTANTS
  RingSize = 2
  MaxRecords = 1
  MaxListeners = 1
  Psks = {1}
  MaxPsks = 0
  ReceiverPsk = 1
  StoresInOrder = FALSE
SPECIFICATION SocketSpec
INVARIANT WalkSafe
