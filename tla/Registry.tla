----------------------------- MODULE Registry ------------------------------
(***************************************************************************)
(* The registry of loggers and log handlers (src/src/main/logmoko.c,       *)
(* logmoko_logger.c, logmoko_handler.c): the two global lists, the         *)
(* references from loggers to handlers, the count nr_logger_ref that       *)
(* guards a handler's destruction, the levels, and the walk of a log call  *)
(* over the handlers of its logger.                                        *)
(*                                                                         *)
(* The library takes no lock around any of this, so the model has the      *)
(* client's side of the bargain in its guards (docs/logmoko-user-guide.md, *)
(* Thread Safety).  Calls that create or destroy run alone (Alone).  A     *)
(* logger is not logged to while a handler is attached to it or detached.  *)
(* ConcurrentAttach chooses between the two readings of the rest: TRUE is  *)
(* what the guide allows, two threads changing different loggers at once;  *)
(* FALSE is a client that registers from one thread at a time.             *)
(*                                                                         *)
(* Lists are sets: nothing here depends on their order.  Objects are named *)
(* by their addresses, which lmk_malloc reuses; a freed one has NoName.    *)
(***************************************************************************)
EXTENDS Integers, FiniteSets

CONSTANTS
  Threads,
  Loggers,          \* addresses of struct lmk_logger
  Handlers,         \* addresses of struct lmk_log_handler, of any type
  LoggerNames,
  HandlerNames,
  NoName,
  Levels,           \* bound: the levels that callers pass
  RefLimit,         \* the range of an unsigned int, 2^32 in the code
  ConcurrentAttach

ASSUME RegistryAssumption ==
  /\ IsFiniteSet(Loggers)
  /\ NoName \notin LoggerNames \cup HandlerNames
  /\ Levels \subseteq Int
  /\ RefLimit \in Nat /\ RefLimit > Cardinality(Loggers)
  /\ ConcurrentAttach \in BOOLEAN

VARIABLES
  g_lmk_initialized,
  g_lmk_logger_list,
  g_lmk_handler_list,
  loggerName, loggerLevel,
  refs,             \* handler_ref_list of each logger
  handlerName, handlerLevel,
  nr_logger_ref,    \* of each handler
  call              \* the call each thread is in: where it is, and its locals

lists == <<g_lmk_initialized, g_lmk_logger_list, g_lmk_handler_list>>
loggerVars == <<loggerName, loggerLevel, refs>>
handlerVars == <<handlerName, handlerLevel, nr_logger_ref>>
vars == <<lists, loggerVars, handlerVars, call>>

----------------------------------------------------------------------------
TRACE == 0
INFO == 2
ERROR == 4
OFF == 5
ValidLevel == TRACE .. OFF

AllocatedLogger(l) == loggerName[l] # NoName
AllocatedHandler(h) == handlerName[h] # NoName

(* The loggers on the list that hold a reference to h. *)
Referrers(h) == {l \in g_lmk_logger_list : h \in refs[l]}

(* A thread is outside the library, between the halves of an attach or a
   detach (count is nr_logger_ref as it loaded it), or in a log call: past
   the first level check, or walking the handlers.  Of a walk, todo is what
   its cursor has not reached; reached, the handlers given the record, and
   stable, that no level changed since the call began, are history. *)
NoCall == [pc |-> "idle"]
Counting == [pc : {"attached", "detached"}, logger : Loggers, handler : Handlers]
Counted == [pc : {"increment", "decrement"}, logger : Loggers, handler : Handlers,
            count : 0 .. RefLimit - 1]
Enabled == [pc : {"enabled"}, logger : Loggers, level : TRACE .. ERROR, stable : BOOLEAN]
Walk == [pc : {"walk"}, logger : Loggers, level : TRACE .. ERROR, stable : BOOLEAN,
         todo : SUBSET Handlers, reached : SUBSET Handlers]

Idle(t) == call[t].pc = "idle"
Registering(t) == call[t].pc \in {"attached", "increment", "detached", "decrement"}
Logging(t) == call[t].pc \in {"enabled", "walk"}

(* The client's guards. *)
Alone == \A u \in Threads : Idle(u)
MayRegister(t, l) ==
  /\ Idle(t)
  /\ \A u \in Threads : ~Idle(u) => call[u].logger # l
  /\ ConcurrentAttach \/ \A u \in Threads : ~Registering(u)
MayLog(t, l) == Idle(t) /\ \A u \in Threads : Registering(u) => call[u].logger # l

RegistryTypeOK ==
  /\ g_lmk_initialized \in BOOLEAN
  /\ g_lmk_logger_list \subseteq Loggers
  /\ g_lmk_handler_list \subseteq Handlers
  /\ loggerName \in [Loggers -> LoggerNames \cup {NoName}]
  /\ loggerLevel \in [Loggers -> ValidLevel]
  /\ refs \in [Loggers -> SUBSET Handlers]
  /\ handlerName \in [Handlers -> HandlerNames \cup {NoName}]
  /\ handlerLevel \in [Handlers -> ValidLevel]
  /\ nr_logger_ref \in [Handlers -> 0 .. RefLimit - 1]
  /\ call \in [Threads -> {NoCall} \cup Counting \cup Counted \cup Enabled \cup Walk]

RegistryInit ==
  /\ g_lmk_initialized = FALSE
  /\ g_lmk_logger_list = {}
  /\ g_lmk_handler_list = {}
  /\ loggerName = [l \in Loggers |-> NoName]
  /\ loggerLevel = [l \in Loggers |-> INFO]
  /\ refs = [l \in Loggers |-> {}]
  /\ handlerName = [h \in Handlers |-> NoName]
  /\ handlerLevel = [h \in Handlers |-> TRACE]
  /\ nr_logger_ref = [h \in Handlers |-> 0]
  /\ call = [t \in Threads |-> NoCall]

----------------------------------------------------------------------------
(* lmk_init, the first thing almost every call does: an uninitialised library
   starts from empty lists, whatever the lists hold. *)
InitLoggers == IF g_lmk_initialized THEN g_lmk_logger_list ELSE {}
InitHandlers == IF g_lmk_initialized THEN g_lmk_handler_list ELSE {}

LmkInit ==
  /\ g_lmk_initialized' = TRUE
  /\ g_lmk_logger_list' = InitLoggers
  /\ g_lmk_handler_list' = InitHandlers

(* lmk_init called by itself, through lmk_get_nr_loggers, or by a factory
   function that then runs out of memory and returns NULL. *)
InitOnly ==
  /\ Alone
  /\ ~g_lmk_initialized
  /\ LmkInit
  /\ UNCHANGED <<loggerVars, handlerVars, call>>

(* Mutant of GetLogger: the search by name compares with the wrong entry. *)
GetLoggerAnyway(n) ==
  /\ Alone
  /\ \E l \in Loggers :
       /\ ~AllocatedLogger(l)
       /\ loggerName' = [loggerName EXCEPT ![l] = n]
       /\ loggerLevel' = [loggerLevel EXCEPT ![l] = INFO]
       /\ refs' = [refs EXCEPT ![l] = {}]
       /\ g_lmk_logger_list' = InitLoggers \cup {l}
  /\ g_lmk_initialized' = TRUE
  /\ g_lmk_handler_list' = InitHandlers
  /\ UNCHANGED <<handlerVars, call>>

(* lmk_get_logger: the logger of this name, made when the list has none. *)
GetLogger(n) ==
  /\ Alone
  /\ \A l \in InitLoggers : loggerName[l] # n
  /\ \E l \in Loggers :
       /\ ~AllocatedLogger(l)
       /\ loggerName' = [loggerName EXCEPT ![l] = n]
       /\ loggerLevel' = [loggerLevel EXCEPT ![l] = INFO]
       /\ refs' = [refs EXCEPT ![l] = {}]
       /\ g_lmk_logger_list' = InitLoggers \cup {l}
  /\ g_lmk_initialized' = TRUE
  /\ g_lmk_handler_list' = InitHandlers
  /\ UNCHANGED <<handlerVars, call>>

(* lmk_get_console_log_handler ("console" is one of HandlerNames) and the
   factory functions of the three other types. *)
GetLogHandler(n) ==
  /\ Alone
  /\ \A h \in InitHandlers : handlerName[h] # n
  /\ \E h \in Handlers :
       /\ ~AllocatedHandler(h)
       /\ handlerName' = [handlerName EXCEPT ![h] = n]
       /\ handlerLevel' = [handlerLevel EXCEPT ![h] = TRACE]
       /\ nr_logger_ref' = [nr_logger_ref EXCEPT ![h] = 0]
       /\ g_lmk_handler_list' = InitHandlers \cup {h}
  /\ g_lmk_initialized' = TRUE
  /\ g_lmk_logger_list' = InitLoggers
  /\ UNCHANGED <<loggerVars, call>>

(* lmk_attach_log_handler up to the new reference.  A handler that is attached
   already is left as it is. *)
Attach(t, l, h) ==
  /\ MayRegister(t, l)
  /\ AllocatedLogger(l) /\ AllocatedHandler(h)
  /\ h \notin refs[l]
  /\ LmkInit
  /\ refs' = [refs EXCEPT ![l] = @ \cup {h}]
  /\ call' = [call EXCEPT ![t] = [pc |-> "attached", logger |-> l, handler |-> h]]
  /\ UNCHANGED <<loggerName, loggerLevel, handlerVars>>

(* lmk_detach_log_handler up to the freed reference. *)
Detach(t, l, h) ==
  /\ MayRegister(t, l)
  /\ AllocatedLogger(l) /\ AllocatedHandler(h)
  /\ h \in refs[l]
  /\ LmkInit
  /\ refs' = [refs EXCEPT ![l] = @ \ {h}]
  /\ call' = [call EXCEPT ![t] = [pc |-> "detached", logger |-> l, handler |-> h]]
  /\ UNCHANGED <<loggerName, loggerLevel, handlerVars>>

(* nr_logger_ref++ and nr_logger_ref-- are a load and a store of a plain
   unsigned int. *)
LoadCount(t) ==
  /\ call[t].pc \in {"attached", "detached"}
  /\ call' = [call EXCEPT ![t] =
       [pc |-> IF @.pc = "attached" THEN "increment" ELSE "decrement",
        logger |-> @.logger, handler |-> @.handler, count |-> nr_logger_ref[@.handler]]]
  /\ UNCHANGED <<lists, loggerVars, handlerVars>>

StoreCount(t) ==
  /\ call[t].pc \in {"increment", "decrement"}
  /\ LET step == IF call[t].pc = "increment" THEN 1 ELSE -1
     IN nr_logger_ref' = [nr_logger_ref EXCEPT
          ![call[t].handler] = (call[t].count + step) % RefLimit]
  /\ call' = [call EXCEPT ![t] = NoCall]
  /\ UNCHANGED <<lists, loggerVars, handlerName, handlerLevel>>

(* nr_logger_ref of h once the loggers in S have detached from it. *)
CountWithout(S, h) == (nr_logger_ref[h] - Cardinality({l \in S : h \in refs[l]})) % RefLimit

(* Mutant of DestroyLogger: the references are freed without a detach. *)
DestroyLoggerUncounted(l) ==
  /\ Alone
  /\ AllocatedLogger(l)
  /\ refs' = [refs EXCEPT ![l] = {}]
  /\ loggerName' = [loggerName EXCEPT ![l] = NoName]
  /\ g_lmk_logger_list' = InitLoggers \ {l}
  /\ g_lmk_initialized' = TRUE
  /\ g_lmk_handler_list' = InitHandlers
  /\ UNCHANGED <<loggerLevel, handlerVars, call>>

(* lmk_destroy_logger: detaches every handler, then frees the logger. *)
DestroyLogger(l) ==
  /\ Alone
  /\ AllocatedLogger(l)
  /\ nr_logger_ref' = [h \in Handlers |-> CountWithout({l}, h)]
  /\ refs' = [refs EXCEPT ![l] = {}]
  /\ loggerName' = [loggerName EXCEPT ![l] = NoName]
  /\ g_lmk_logger_list' = InitLoggers \ {l}
  /\ g_lmk_initialized' = TRUE
  /\ g_lmk_handler_list' = InitHandlers
  /\ UNCHANGED <<loggerLevel, handlerName, handlerLevel, call>>

(* Mutant of DestroyLogHandler: off by one, the last reference is overlooked. *)
DestroyReferenced(h) ==
  /\ Alone
  /\ AllocatedHandler(h)
  /\ nr_logger_ref[h] <= 1
  /\ handlerName' = [handlerName EXCEPT ![h] = NoName]
  /\ g_lmk_handler_list' = g_lmk_handler_list \ {h}
  /\ UNCHANGED <<g_lmk_initialized, g_lmk_logger_list, loggerVars, handlerLevel,
                 nr_logger_ref, call>>

(* lmk_destroy_log_handler: refused while nr_logger_ref is not 0.  The
   handler's own destroy (module LogHandler) runs first. *)
DestroyLogHandler(h) ==
  /\ Alone
  /\ AllocatedHandler(h)
  /\ nr_logger_ref[h] = 0
  /\ handlerName' = [handlerName EXCEPT ![h] = NoName]
  /\ g_lmk_handler_list' = g_lmk_handler_list \ {h}
  /\ UNCHANGED <<g_lmk_initialized, g_lmk_logger_list, loggerVars, handlerLevel,
                 nr_logger_ref, call>>

(* Mutant of LmkDestroy: the loop over the handlers is missing. *)
DestroyLoggersOnly ==
  /\ Alone
  /\ g_lmk_initialized
  /\ nr_logger_ref' = [h \in Handlers |-> CountWithout(g_lmk_logger_list, h)]
  /\ refs' = [l \in Loggers |-> IF l \in g_lmk_logger_list THEN {} ELSE refs[l]]
  /\ loggerName' = [l \in Loggers |-> IF l \in g_lmk_logger_list THEN NoName ELSE loggerName[l]]
  /\ g_lmk_logger_list' = {}
  /\ g_lmk_initialized' = FALSE
  /\ UNCHANGED <<g_lmk_handler_list, loggerLevel, handlerName, handlerLevel, call>>

(* Once lmk_destroy has destroyed the loggers, lmk_destroy_log_handler refuses
   none of the handlers.  A handler it refused would stay on the list, and the
   loop, whose cursor goes back one entry, would come to it again for ever. *)
HandlerLoopEnds == \A h \in g_lmk_handler_list : CountWithout(g_lmk_logger_list, h) = 0

(* lmk_destroy, when it returns: every logger, then every handler. *)
LmkDestroy ==
  /\ Alone
  /\ g_lmk_initialized
  /\ HandlerLoopEnds
  /\ nr_logger_ref' = [h \in Handlers |-> CountWithout(g_lmk_logger_list, h)]
  /\ refs' = [l \in Loggers |-> IF l \in g_lmk_logger_list THEN {} ELSE refs[l]]
  /\ loggerName' = [l \in Loggers |-> IF l \in g_lmk_logger_list THEN NoName ELSE loggerName[l]]
  /\ handlerName' = [h \in Handlers |-> IF h \in g_lmk_handler_list THEN NoName ELSE handlerName[h]]
  /\ g_lmk_logger_list' = {}
  /\ g_lmk_handler_list' = {}
  /\ g_lmk_initialized' = FALSE
  /\ UNCHANGED <<loggerLevel, handlerLevel, call>>

(* A level is about to change under the log calls in flight. *)
Unsettle ==
  call' = [u \in Threads |-> IF Logging(u) THEN [call[u] EXCEPT !.stable = FALSE] ELSE call[u]]

(* lmk_set_log_level and lmk_set_handler_log_level: a level out of range is
   ignored. *)
SetLogLevel(l, v) ==
  /\ AllocatedLogger(l)
  /\ v \in ValidLevel
  /\ loggerLevel' = [loggerLevel EXCEPT ![l] = v]
  /\ LmkInit
  /\ Unsettle
  /\ UNCHANGED <<loggerName, refs, handlerVars>>

SetHandlerLogLevel(h, v) ==
  /\ AllocatedHandler(h)
  /\ v \in ValidLevel
  /\ handlerLevel' = [handlerLevel EXCEPT ![h] = v]
  /\ LmkInit
  /\ Unsettle
  /\ UNCHANGED <<loggerVars, handlerName, nr_logger_ref>>

(* LMK_LOG_TRACE .. LMK_LOG_ERROR: lmk_log_common goes on only when the level
   is enabled, and formats the record into the thread's own buffer. *)
LogCommon(t, l, v) ==
  /\ MayLog(t, l)
  /\ AllocatedLogger(l)
  /\ v \in TRACE .. ERROR
  /\ v >= loggerLevel[l]
  /\ LmkInit
  /\ call' = [call EXCEPT ![t] = [pc |-> "enabled", logger |-> l, level |-> v, stable |-> TRUE]]
  /\ UNCHANGED <<loggerVars, handlerVars>>

(* lmk_log_impl reads the level again, then walks the references. *)
LogImpl(t) ==
  /\ call[t].pc = "enabled"
  /\ call' = [call EXCEPT ![t] =
       IF @.level < loggerLevel[@.logger] THEN NoCall
       ELSE [pc |-> "walk", logger |-> @.logger, level |-> @.level, stable |-> @.stable,
             todo |-> refs[@.logger], reached |-> {}]]
  /\ UNCHANGED <<lists, loggerVars, handlerVars>>

(* Mutant of LogForward: the walk ends at a handler whose level filters the
   record. *)
LogForwardBreak(t) ==
  /\ call[t].pc = "walk"
  /\ \E h \in call[t].todo :
       call' = [call EXCEPT ![t] =
         IF call[t].level >= handlerLevel[h]
           THEN [@ EXCEPT !.todo = @ \ {h}, !.reached = @ \cup {h}]
           ELSE [@ EXCEPT !.todo = {}]]
  /\ UNCHANGED <<lists, loggerVars, handlerVars>>

(* The walk c passes handler h, which gets the record if its level admits it. *)
Visit(c, h) ==
  [c EXCEPT !.todo = @ \ {h},
            !.reached = IF c.level >= handlerLevel[h] THEN @ \cup {h} ELSE @]

LogForward(t) ==
  /\ call[t].pc = "walk"
  /\ \E h \in call[t].todo : call' = [call EXCEPT ![t] = Visit(@, h)]
  /\ UNCHANGED <<lists, loggerVars, handlerVars>>

LogReturn(t) ==
  /\ call[t].pc = "walk"
  /\ call[t].todo = {}
  /\ call' = [call EXCEPT ![t] = NoCall]
  /\ UNCHANGED <<lists, loggerVars, handlerVars>>

----------------------------------------------------------------------------
RegistryNext ==
  \/ InitOnly
  \/ \E n \in LoggerNames : GetLogger(n)
  \/ \E n \in HandlerNames : GetLogHandler(n)
  \/ \E t \in Threads, l \in Loggers, h \in Handlers : Attach(t, l, h) \/ Detach(t, l, h)
  \/ \E t \in Threads : LoadCount(t) \/ StoreCount(t)
  \/ \E l \in Loggers : DestroyLogger(l)
  \/ \E h \in Handlers : DestroyLogHandler(h)
  \/ LmkDestroy
  \/ \E l \in Loggers, v \in Levels : SetLogLevel(l, v)
  \/ \E h \in Handlers, v \in Levels : SetHandlerLogLevel(h, v)
  \/ \E t \in Threads, l \in Loggers, v \in Levels : LogCommon(t, l, v)
  \/ \E t \in Threads : LogImpl(t) \/ LogForward(t) \/ LogReturn(t)

RegistrySpec == RegistryInit /\ [][RegistryNext]_vars

----------------------------------------------------------------------------
(* Whenever no thread is inside an attach or a detach of a handler, its
   nr_logger_ref is the number of loggers that reference it: the number
   lmk_destroy_log_handler trusts before it frees the handler, and on which the
   loop of lmk_destroy spins for as long as it is not 0. *)
RefCountExact ==
  \A h \in Handlers :
    /\ AllocatedHandler(h)
    /\ \A t \in Threads : Registering(t) => call[t].handler # h
    => nr_logger_ref[h] = Cardinality(Referrers(h))

(* A log call never follows a reference to freed memory: what a logger on the
   list references, and what a log call has still to visit, is a handler that
   exists and is on the handler list. *)
NoDanglingRef ==
  /\ \A l \in g_lmk_logger_list : \A h \in refs[l] :
       AllocatedHandler(h) /\ h \in g_lmk_handler_list
  /\ \A t \in Threads : call[t].pc = "walk" =>
       \A h \in call[t].todo : AllocatedHandler(h) /\ h \in g_lmk_handler_list

(* lmk_get_logger and the factory functions give one object per name. *)
UniqueNames ==
  /\ \A k, l \in g_lmk_logger_list : loggerName[k] = loggerName[l] => k = l
  /\ \A g, h \in g_lmk_handler_list : handlerName[g] = handlerName[h] => g = h

(* lmk_destroy frees everything: no logger and no handler, with its thread and
   its file, outlives it, and until then each one is on its list. *)
NothingLeftBehind ==
  /\ {l \in Loggers : AllocatedLogger(l)} = InitLoggers
  /\ {h \in Handlers : AllocatedHandler(h)} = InitHandlers

(* When no level changes during a log call, the record reaches exactly the
   handlers of its logger whose level admits it, however the call interleaves
   with other threads. *)
RoutingExact ==
  \A t \in Threads :
    call[t].pc = "walk" /\ call[t].todo = {} /\ call[t].stable =>
      /\ call[t].level >= loggerLevel[call[t].logger]
      /\ call[t].reached =
           {h \in refs[call[t].logger] : call[t].level >= handlerLevel[h]}

----------------------------------------------------------------------------
(* The inductive invariant, in parts, for a client that registers from one
   thread at a time. *)

(* What is allocated is listed, and references stay within the lists. *)
ListInv ==
  /\ ~g_lmk_initialized => g_lmk_logger_list = {} /\ g_lmk_handler_list = {}
  /\ \A l \in Loggers : AllocatedLogger(l) <=> l \in g_lmk_logger_list
  /\ \A h \in Handlers : AllocatedHandler(h) <=> h \in g_lmk_handler_list
  /\ \A l \in g_lmk_logger_list : refs[l] \subseteq g_lmk_handler_list

(* What the attach or detach in progress has still to add to a count. *)
Missing(t) == IF call[t].pc \in {"attached", "increment"} THEN 1 ELSE -1

(* One thread registers, and has loaded the count it will overwrite. *)
RegisterInv ==
  \A t \in Threads : Registering(t) =>
    /\ \A u \in Threads : Registering(u) => t = u
    /\ call[t].pc \in {"increment", "decrement"} => call[t].count = nr_logger_ref[call[t].handler]

(* A count is the number of references, but for what is missing. *)
CountInv ==
  \A h \in g_lmk_handler_list :
    \/ /\ \A t \in Threads : Registering(t) => call[t].handler # h
       /\ Cardinality(Referrers(h)) = nr_logger_ref[h]
    \/ \E t \in Threads :
         /\ Registering(t) /\ call[t].handler = h
         /\ Cardinality(Referrers(h)) = nr_logger_ref[h] + Missing(t)

(* The references a log call walks are not changed under it, and what it has
   done so far is what the levels ask for. *)
WalkInv ==
  \A t \in Threads : Logging(t) =>
    /\ call[t].logger \in g_lmk_logger_list
    /\ \A u \in Threads : Registering(u) => call[u].logger # call[t].logger
    /\ call[t].stable => call[t].level >= loggerLevel[call[t].logger]
    /\ call[t].pc = "walk" =>
         /\ call[t].todo \subseteq refs[call[t].logger]
         /\ call[t].stable => call[t].reached =
              {h \in refs[call[t].logger] \ call[t].todo : call[t].level >= handlerLevel[h]}

RegistryInv ==
  /\ RegistryTypeOK
  /\ ListInv
  /\ UniqueNames
  /\ RegisterInv
  /\ CountInv
  /\ WalkInv
============================================================================
