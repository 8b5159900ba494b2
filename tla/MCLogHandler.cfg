\* Two producers, three calls each, a ring of two: six records pass the two
\* slots in three laps, the ring fills up, and the consumer sleeps and is woken
\* or stopped at every point.
CONSTANTS
  p1 = p1
  p2 = p2
  Producers = {p1, p2}
  RingSize = 2
  MaxCalls = 3
SPECIFICATION HandlerSpec
INVARIANTS
  HandlerInv
  RingInv
  SlotOwnership
  WrittenInOrder
  NoLostWakeup
  IdleIsFlushed
  CountersExact
  QuietWhenFreed
PROPERTIES
  RefusedOnlyWhenFull
  ImplementsQueue
