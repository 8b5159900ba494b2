\* Two threads, two loggers, two handlers, registration by one thread at a
\* time.  Levels: DEBUG, WARN and one out of range.
CONSTANTS
  Threads = {t1, t2}
  Loggers = {l1, l2}
  Handlers = {h1, h2}
  LoggerNames = {app, db}
  HandlerNames = {console, file}
  NoName = NoName
  Levels = {1, 3, 6}
  RefLimit = 4
  ConcurrentAttach = FALSE
SYMMETRY Symmetry
SPECIFICATION RegistrySpec
INVARIANTS
  RegistryInv
  RefCountExact
  NoDanglingRef
  NothingLeftBehind
  RoutingExact
