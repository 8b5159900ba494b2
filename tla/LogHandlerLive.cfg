\* Liveness under fair threads.
CONSTANTS
  p1 = p1
  p2 = p2
  Producers = {p1, p2}
  RingSize = 2
  MaxCalls = 2
SPECIFICATION FairHandlerSpec
PROPERTIES
  CallsReturn
  AcceptedIsWritten
  DestroyEnds
