----------------------------- MODULE ConfigFile ----------------------------
(***************************************************************************)
(* Initialisation from a configuration file (logmoko_config_file.c and     *)
(* lmk_init in logmoko.c under src/src/main): the parser, one line a step; *)
(* what applying a parsed file does to the library, one section a step;    *)
(* and the calls that lead there.                                          *)
(*                                                                         *)
(* A line is a section header, or an assignment whose key, val and num are *)
(* its key, its trimmed value and the number atoi makes of it (of a        *)
(* listener: its port).  What the parser skips is an assignment to a key   *)
(* it does not know: comments, headers without ']', listeners without ':'. *)
(* A line "handlers = a,b" stands as two lines naming one handler each,    *)
(* which is what the strtok_r loop makes of it.  Of the keys whose last    *)
(* value is simply handed to a setter, level stands for all; rotation      *)
(* limits, which have defaults, are left out.  Handlers and loggers can    *)
(* always be made.                                                         *)
(*                                                                         *)
(* The sections and the listeners of lmk_cfg are keyed by the number of    *)
(* the line they come from, in place of an array and its counter.  The     *)
(* file is where lmk_init looks for one by itself (LMK_CONFIG_FILE or      *)
(* logmoko.conf), or only where the client's path points.  Everything runs *)
(* in one thread, as the guide asks.                                       *)
(***************************************************************************)
EXTENDS Integers, Sequences, FiniteSets

CONSTANTS
  Files,                    \* the contents the file may have
  MaxSize,                  \* the largest number atoi returns
  MaxHandlers, MaxLoggers,  \* LMK_CFG_MAX_HANDLERS, LMK_CFG_MAX_LOGGERS
  MaxListeners,             \* LMK_CFG_MAX_LISTENERS
  MaxHandlersPerLogger,     \* LMK_CFG_MAX_HANDLERS_PER_LOGGER
  DefaultRingSize,          \* LMK_CFG_DEFAULT_RING_BUFFER_SIZE
  NextPow2(_),              \* lmk_next_pow2, as in module Pow2
  Bits,                     \* the bits of the sizes, for RingAsConfigured
  MaxCalls                  \* bound: calls of the client

Line == [header : BOOLEAN, key : STRING, val : STRING, num : {i \in Int : i <= MaxSize}]

ASSUME ConfigAssumption ==
  /\ Files \subseteq Seq(Line)
  /\ {MaxSize, MaxHandlers, MaxLoggers, MaxListeners, MaxHandlersPerLogger, Bits, MaxCalls} \subseteq Nat
  /\ DefaultRingSize \in 1 .. MaxSize

VARIABLES
  file,             \* the contents of the configuration file
  auto,             \* whether lmk_init finds it by itself
  lib,              \* g_lmk_initialized, g_lmk_config and the two lists, by name
  pc, call,         \* where the call in progress is, and which one it is
  nested,           \* whether the file is being applied inside lmk_init
  n, section, cur,  \* lines read; section; cur_handler or cur_logger, 0 for NULL
  cfg,              \* struct lmk_cfg
  todo,             \* the sections of cfg still to be applied
  configured,       \* history: the file has been applied since the last lmk_init
  before, again,    \* history: lib and configured when this application began
  calls

parser == <<n, section, cur, cfg>>
vars == <<file, auto, lib, pc, call, nested, parser, todo, configured, before, again, calls>>

Empty == [x \in {} |-> x]
Put(f, k, v) == [x \in DOMAIN f \cup {k} |-> IF x = k THEN v ELSE f[x]]
Least(S) == CHOOSE x \in S : \A y \in S : x <= y

----------------------------------------------------------------------------
(* lmk_cfg_parse_file *)
EmptyCfg == [ring |-> 0, handlers |-> Empty, loggers |-> Empty]

NewHandler(name) ==
  [name |-> name, type |-> "none", level |-> "unset", filename |-> "", listeners |-> {}]
NewLogger(name) == [name |-> name, level |-> "unset", handlers |-> {}]

(* A section without a name or past the limit is one whose keys are ignored. *)
OpensHandler(j) ==
  /\ file[j].key = "handler"
  /\ file[j].val # ""
  /\ Cardinality(DOMAIN cfg.handlers) < MaxHandlers
OpensLogger(j) ==
  /\ file[j].key = "logger"
  /\ file[j].val # ""
  /\ Cardinality(DOMAIN cfg.loggers) < MaxLoggers

SectionOf(word) == IF word \in {"global", "handler", "logger"} THEN word ELSE "none"

WithSection(j) ==
  [ring |-> cfg.ring,
   handlers |-> IF OpensHandler(j) THEN Put(cfg.handlers, j, NewHandler(file[j].val)) ELSE cfg.handlers,
   loggers |-> IF OpensLogger(j) THEN Put(cfg.loggers, j, NewLogger(file[j].val)) ELSE cfg.loggers]

(* Mutant of OpenSection: a section that is dropped leaves the one of its kind
   before it as the current one. *)
OpenSectionKept(j) ==
  /\ section' = SectionOf(file[j].key)
  /\ cur' = IF OpensHandler(j) \/ OpensLogger(j) THEN j
            ELSE IF SectionOf(file[j].key) = section THEN cur ELSE 0
  /\ cfg' = WithSection(j)

OpenSection(j) ==
  /\ section' = SectionOf(file[j].key)
  /\ cur' = IF OpensHandler(j) \/ OpensLogger(j) THEN j ELSE 0
  /\ cfg' = WithSection(j)

Types == {"console", "file", "socket", "syslog"}
Levels == {"trace", "debug", "info", "warn", "error", "off"}
ParseLevel(val) == IF val \in Levels THEN val ELSE "unset"

SetHandlerKey(ch, j) ==
  LET key == file[j].key
      val == file[j].val
  IN [name |-> ch.name,
      type |-> IF key = "type" /\ val \in Types THEN val ELSE ch.type,
      level |-> IF key = "level" THEN ParseLevel(val) ELSE ch.level,
      filename |-> IF key = "filename" THEN val ELSE ch.filename,
      listeners |-> IF key = "listener" /\ Cardinality(ch.listeners) < MaxListeners
                    THEN ch.listeners \cup {j} ELSE ch.listeners]

SetLoggerKey(cl, j) ==
  LET key == file[j].key
      val == file[j].val
  IN [name |-> cl.name,
      level |-> IF key = "level" THEN ParseLevel(val) ELSE cl.level,
      handlers |-> IF key = "handlers" /\ val # "" /\ Cardinality(cl.handlers) < MaxHandlersPerLogger
                   THEN cl.handlers \cup {j} ELSE cl.handlers]

SetKey(j) ==
  /\ cfg' =
       [ring |-> IF section = "global" /\ file[j].key = "ring_buffer_size" THEN file[j].num ELSE cfg.ring,
        handlers |-> IF section = "handler" /\ cur # 0
                     THEN Put(cfg.handlers, cur, SetHandlerKey(cfg.handlers[cur], j)) ELSE cfg.handlers,
        loggers |-> IF section = "logger" /\ cur # 0
                    THEN Put(cfg.loggers, cur, SetLoggerKey(cfg.loggers[cur], j)) ELSE cfg.loggers]
  /\ UNCHANGED <<section, cur>>

ParseLine ==
  /\ pc = "parse" /\ n < Len(file)
  /\ n' = n + 1
  /\ IF file[n + 1].header THEN OpenSection(n + 1) ELSE SetKey(n + 1)
  /\ UNCHANGED <<file, auto, lib, pc, call, nested, todo, configured, before, again, calls>>

----------------------------------------------------------------------------
(* lmk_cfg_apply, which begins with the sizes. *)
Sized(l, ring) == [l EXCEPT !.ring = IF ring > 0 THEN ring ELSE DefaultRingSize]

ParseEnd ==
  /\ pc = "parse" /\ n = Len(file)
  /\ pc' = "handlers"
  /\ todo' = DOMAIN cfg.handlers
  /\ lib' = Sized(lib, cfg.ring)
  /\ UNCHANGED <<file, auto, call, nested, parser, configured, before, again, calls>>

(* The handler of a section: a console handler is always named "console"; a file
   handler needs a filename; one that exists under the name is taken, whatever
   its type. *)
HandlerName(ch) == IF ch.type = "console" THEN "console" ELSE ch.name
MakesHandler(ch) == ch.type \in Types /\ (ch.type = "file" => ch.filename # "")

(* lmk_search_log_handler_by_name and lmk_search_logger_by_name *)
HasHandler(name) == name \in DOMAIN lib.handlers
HasLogger(name) == name \in DOMAIN lib.loggers

GetHandler(ch) ==
  IF HasHandler(HandlerName(ch)) THEN lib.handlers[HandlerName(ch)]
  ELSE [type |-> ch.type, level |-> "trace", ring |-> NextPow2(lib.ring), listeners |-> 0]

(* Its level if the section sets one; lmk_attach_log_listener for each listener,
   which returns at once for another type of handler or a port that is not positive. *)
SetUp(handler, ch) ==
  [type |-> handler.type,
   level |-> IF ch.level # "unset" THEN ch.level ELSE handler.level,
   ring |-> handler.ring,
   listeners |-> IF ch.type = "socket" /\ handler.type = "socket"
                 THEN handler.listeners + Cardinality({j \in ch.listeners : file[j].num > 0})
                 ELSE handler.listeners]

ApplyHandler ==
  /\ pc = "handlers" /\ todo # {}
  /\ todo' = todo \ {Least(todo)}
  /\ LET ch == cfg.handlers[Least(todo)]
     IN lib' = IF MakesHandler(ch)
               THEN [lib EXCEPT !.handlers = Put(@, HandlerName(ch), SetUp(GetHandler(ch), ch))]
               ELSE lib
  /\ UNCHANGED <<file, auto, pc, call, nested, parser, configured, before, again, calls>>

HandlersDone ==
  /\ pc = "handlers" /\ todo = {}
  /\ pc' = "loggers"
  /\ todo' = DOMAIN cfg.loggers
  /\ UNCHANGED <<file, auto, lib, call, nested, parser, configured, before, again, calls>>

(* lmk_attach_log_handler for each handler named: refs[x] is the number of
   references to handler x in the logger's list. *)
Names(cl) == {file[j].val : j \in cl.handlers}

(* Mutants of Attached: a handler attached already is attached again; the
   handlers of a logger that has some are left alone. *)
AttachedAgain(refs, names) ==
  [x \in DOMAIN refs \cup names |->
     (IF x \in DOMAIN refs THEN refs[x] ELSE 0) + (IF x \in names THEN 1 ELSE 0)]
AttachedFirst(refs, names) == IF refs # Empty THEN refs ELSE [x \in names |-> 1]

Attached(refs, names) ==
  [x \in DOMAIN refs \cup names |-> IF x \in DOMAIN refs THEN refs[x] ELSE 1]

GetLogger(cl) ==
  IF HasLogger(cl.name) THEN lib.loggers[cl.name] ELSE [level |-> "info", refs |-> Empty]

ApplyLogger ==
  /\ pc = "loggers" /\ todo # {}
  /\ todo' = todo \ {Least(todo)}
  /\ LET cl == cfg.loggers[Least(todo)]
         logger == GetLogger(cl)
     IN lib' = [lib EXCEPT !.loggers = Put(@, cl.name,
                 [level |-> IF cl.level # "unset" THEN cl.level ELSE logger.level,
                  refs |-> Attached(logger.refs, {x \in Names(cl) : HasHandler(x)})])]
  /\ UNCHANGED <<file, auto, pc, call, nested, parser, configured, before, again, calls>>

LoggersDone ==
  /\ pc = "loggers" /\ todo = {}
  /\ pc' = "close"
  /\ configured' = TRUE
  /\ UNCHANGED <<file, auto, lib, call, nested, parser, todo, before, again, calls>>

----------------------------------------------------------------------------
NoLib == [initialized |-> FALSE, ring |-> 0, handlers |-> Empty, loggers |-> Empty]

ConfigInit ==
  /\ file \in Files
  /\ auto \in BOOLEAN
  /\ lib = NoLib
  /\ pc = "idle" /\ call = "none" /\ nested = FALSE
  /\ n = 0 /\ section = "none" /\ cur = 0 /\ cfg = EmptyCfg
  /\ todo = {}
  /\ configured = FALSE
  /\ before = NoLib /\ again = FALSE
  /\ calls = 0

(* The client calls lmk_init; or lmk_init_from_file, with NULL, with the path of
   the file, or with that of a file that does not exist. *)
Call(c) ==
  /\ pc = "idle" /\ calls < MaxCalls
  /\ calls' = calls + 1
  /\ call' = c
  /\ pc' = "init"
  /\ UNCHANGED <<file, auto, lib, nested, parser, todo, configured, before, again>>

(* What follows lmk_init: lmk_init_from_file goes on to the file. *)
AfterInit ==
  IF call = "init" THEN pc' = "idle" /\ call' = "none" ELSE pc' = "open" /\ UNCHANGED call

(* lmk_init.  The flag is set before the configuration is applied, since applying
   it calls lmk_init again. *)
InitOnce ==
  /\ pc = "init" /\ lib.initialized
  /\ AfterInit
  /\ UNCHANGED <<file, auto, lib, nested, parser, todo, configured, before, again, calls>>

LmkInit ==
  /\ pc = "init" /\ ~lib.initialized
  /\ lib' = [NoLib EXCEPT !.initialized = TRUE]
  /\ pc' = "open" /\ nested' = TRUE
  /\ UNCHANGED <<file, auto, call, parser, todo, configured, before, again, calls>>

(* fopen, in lmk_apply_auto_config or on the path of the client *)
Found == IF nested \/ call = "null" THEN auto ELSE call = "file"

OpenFile ==
  /\ pc = "open"
  /\ pc' = IF Found THEN "parse" ELSE "close"
  /\ before' = lib /\ again' = configured
  /\ UNCHANGED <<file, auto, lib, call, nested, parser, todo, configured, calls>>

(* The return of lmk_parse_and_apply: to lmk_init, which makes up for a size that
   is still zero, or to lmk_init_from_file. *)
Close ==
  /\ pc = "close"
  /\ IF nested THEN lib' = Sized(lib, lib.ring) /\ AfterInit
     ELSE pc' = "idle" /\ call' = "none" /\ UNCHANGED lib
  /\ nested' = FALSE
  /\ n' = 0 /\ section' = "none" /\ cur' = 0 /\ cfg' = EmptyCfg
  /\ before' = NoLib /\ again' = FALSE
  /\ UNCHANGED <<file, auto, todo, configured, calls>>

LmkDestroy ==
  /\ pc = "idle" /\ lib.initialized /\ calls < MaxCalls
  /\ calls' = calls + 1
  /\ lib' = NoLib
  /\ configured' = FALSE
  /\ UNCHANGED <<file, auto, pc, call, nested, parser, todo, before, again>>

ConfigNext ==
  \/ \E c \in {"init", "null", "file", "missing"} : Call(c)
  \/ InitOnce \/ LmkInit \/ OpenFile \/ ParseLine \/ ParseEnd \/ ApplyHandler \/ HandlersDone
  \/ ApplyLogger \/ LoggersDone \/ Close \/ LmkDestroy

ConfigSpec == ConfigInit /\ [][ConfigNext]_vars

----------------------------------------------------------------------------
(* What the first m lines of the file say, without reading them in order.  Owner
   is the header that line j comes under, 0 if none. *)
MaxOf(S) == IF S = {} THEN 0 ELSE CHOOSE x \in S : \A y \in S : y <= x
Before(S, x) == {y \in S : y < x}
First(S, k) == {x \in S : Cardinality(Before(S, x)) < k}

Headers(m) == {h \in 1 .. m : file[h].header}
Owner(j) == MaxOf(Headers(j))
Sections(kind, m) == {h \in Headers(m) : file[h].key = kind /\ file[h].val # ""}
Keys(h, key, m) == {j \in 1 .. m : ~file[j].header /\ file[j].key = key /\ Owner(j) = h}
TypeLines(h, m) == {j \in Keys(h, "type", m) : file[j].val \in Types}
NameLines(h, m) == {j \in Keys(h, "handlers", m) : file[j].val # ""}
RingLines(m) ==
  {j \in 1 .. m : /\ ~file[j].header /\ file[j].key = "ring_buffer_size"
                  /\ Owner(j) # 0 /\ file[Owner(j)].key = "global"}

LastVal(S, default) == IF S = {} THEN default ELSE file[MaxOf(S)].val
LastLevel(S) == ParseLevel(LastVal(S, "unset"))

ReadHandler(h, m) ==
  [name |-> file[h].val,
   type |-> LastVal(TypeLines(h, m), "none"),
   level |-> LastLevel(Keys(h, "level", m)),
   filename |-> LastVal(Keys(h, "filename", m), ""),
   listeners |-> First(Keys(h, "listener", m), MaxListeners)]
ReadLogger(h, m) ==
  [name |-> file[h].val,
   level |-> LastLevel(Keys(h, "level", m)),
   handlers |-> First(NameLines(h, m), MaxHandlersPerLogger)]
Read(m) ==
  [ring |-> IF RingLines(m) = {} THEN 0 ELSE file[MaxOf(RingLines(m))].num,
   handlers |-> [h \in First(Sections("handler", m), MaxHandlers) |-> ReadHandler(h, m)],
   loggers |-> [h \in First(Sections("logger", m), MaxLoggers) |-> ReadLogger(h, m)]]
Says == Read(Len(file))

(* The parser, which goes through the file once and keeps a current section, has
   found at every line what the sections so far say: as many as there is room
   for, each with the keys under its own header, and nothing of the sections it
   drops; and it has read the whole file when the file is applied. *)
ParseMatches ==
  /\ cfg = Read(n)
  /\ pc \in {"handlers", "loggers"} => n = Len(file)

(* The sections that make a handler, by the names the file gives them, and the
   handlers that loggers of a name ask for. *)
HandlersDefined ==
  {Says.handlers[h].name : h \in {x \in DOMAIN Says.handlers : MakesHandler(Says.handlers[x])}}
HandlersNamed(name) ==
  UNION {Names(Says.loggers[g]) : g \in {x \in DOMAIN Says.loggers : Says.loggers[x].name = name}}

(* Whether each console section has the name of the one console handler. *)
ConsoleByName ==
  \A h \in DOMAIN Says.handlers :
    Says.handlers[h].type = "console" => Says.handlers[h].name = "console"

(* Once the file is applied the loggers are those it names.  If the file calls its
   console sections "console", each logger is attached, once, to the handlers that
   its sections name and the file defines, whatever the order of the sections, and
   so also while the file is applied again. *)
LoggersAttached ==
  configured =>
    /\ DOMAIN lib.loggers = {Says.loggers[g].name : g \in DOMAIN Says.loggers}
    /\ ConsoleByName => \A name \in DOMAIN lib.loggers :
         lib.loggers[name].refs = [x \in HandlersNamed(name) \cap HandlersDefined |-> 1]

(* docs/logmoko-user-guide.md: a handler section is "[handler:<name>]", of type
   console or another, and a logger's line "handlers = <handler-name>[, ...]" names
   the sections it logs to.  Every logger is attached to the handlers it names, a
   console handler too. *)
SectionsAttached ==
  configured => \A name \in DOMAIN lib.loggers :
    HandlersNamed(name) \cap HandlersDefined \subseteq DOMAIN lib.loggers[name].refs

(* The ring of every handler is the smallest power of two that holds
   ring_buffer_size records, or the default number of them. *)
Powers == {2 ^ e : e \in 1 .. Bits}
LeastPower(v, p) == p \in Powers /\ v <= p /\ \A q \in Powers : v <= q => p <= q
RingAsConfigured ==
  \A x \in DOMAIN lib.handlers :
    LeastPower(IF Says.ring > 0 THEN Says.ring ELSE DefaultRingSize, lib.handlers[x].ring)

(* Applying the file once more changes nothing but the listeners. *)
Unheard(l) ==
  [l EXCEPT !.handlers = [x \in DOMAIN l.handlers |-> [l.handlers[x] EXCEPT !.listeners = 0]]]
ReapplyKeeps == pc = "close" /\ again => Unheard(lib) = Unheard(before)

(* docs/logmoko-user-guide.md: a socket handler's section has one line
   "listener = <host>:<port>" for each listener, and lmk_init_from_file may be
   given the file that lmk_init finds by itself.  No handler has more listeners
   than the file gives it, so that no record is sent to one of them twice. *)
ListenersAsConfigured ==
  calls <= 1 => \A x \in DOMAIN lib.handlers :
    lib.handlers[x].listeners <= Cardinality({j \in DOMAIN file : file[j].key = "listener"})
============================================================================
