\* Two threads attach and detach on different loggers at once, as the user
\* guide allows.
CONSTANTS
  Threads = {t1, t2}
  Loggers = {l1, l2}
  Handlers = {h1, h2}
  LoggerNames = {app, db}
  HandlerNames = {console, file}
  NoName = NoName
  Levels = {1, 3, 6}
  RefLimit = 4
  ConcurrentAttach = TRUE
SYMMETRY Symmetry
SPECIFICATION RegistrySpec
INVARIANT NoDanglingRef
