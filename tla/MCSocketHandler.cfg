\* Two listeners are attached, and a key set, the receiver's or another, at any
\* point of the walks of three records.
CONSTANTS
  RingSize = 2
  MaxRecords = 3
  MaxListeners = 2
  Psks = {1, 2}
  MaxPsks = 1
  ReceiverPsk = 1
  StoresInOrder = TRUE
SPECIFICATION SocketSpec
INVARIANTS
  SocketInv
  WalkSafe
  EveryListenerOnce
  SecretStaysSealed
  OnlyPlainRejected
PROPERTIES
  QueueDrained
