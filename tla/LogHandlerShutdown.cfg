\* One producer, one call: enough for the consumer to miss it at shutdown.
CONSTANTS
  p1 = p1
  Producers = {p1}
  RingSize = 2
  MaxCalls = 1
SPECIFICATION HandlerSpec
INVARIANT DrainedOnExit
