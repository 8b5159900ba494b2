--------------------------- MODULE RegistryProof ---------------------------
(***************************************************************************)
(* Proofs about Registry for a client that attaches and detaches from one  *)
(* thread at a time: the reference count is exact, so that no logger ever  *)
(* references a freed handler and lmk_destroy leaves nothing behind.       *)
(***************************************************************************)
EXTENDS Registry, FiniteSetTheorems, TLAPS

(* A thread is in one kind of call, whose locals have their types. *)
LEMMA CallShape ==
  ASSUME RegistryTypeOK, NEW t \in Threads
  PROVE  /\ Idle(t) => call[t] = NoCall
         /\ call[t].pc \in {"attached", "detached"} => call[t] \in Counting
         /\ call[t].pc \in {"increment", "decrement"} => call[t] \in Counted
         /\ call[t].pc = "enabled" => call[t] \in Enabled
         /\ call[t].pc = "walk" => call[t] \in Walk
         /\ Idle(t) \/ Registering(t) \/ Logging(t)
         /\ Registering(t) => call[t].logger \in Loggers /\ call[t].handler \in Handlers
         /\ Logging(t) => call[t].logger \in Loggers /\ call[t].level \in TRACE .. ERROR
                          /\ call[t].stable \in BOOLEAN
<1>1. call[t] \in {NoCall} \cup Counting \cup Counted \cup Enabled \cup Walk
  BY DEF RegistryTypeOK
<1>2. CASE call[t] = NoCall
  BY <1>2 DEF NoCall, Idle, Registering, Logging
<1>3. CASE call[t] \in Counting
  BY <1>3 DEF Counting, NoCall, Idle, Registering, Logging
<1>4. CASE call[t] \in Counted
  BY <1>4 DEF Counted, NoCall, Idle, Registering, Logging
<1>5. CASE call[t] \in Enabled
  BY <1>5 DEF Enabled, NoCall, Idle, Registering, Logging
<1>6. CASE call[t] \in Walk
  BY <1>6 DEF Walk, NoCall, Idle, Registering, Logging
<1> QED BY <1>1, <1>2, <1>3, <1>4, <1>5, <1>6

(* The remainder of a number in range is the number. *)
LEMMA InRange ==
  ASSUME NEW R \in Nat, NEW x \in 0 .. R - 1
  PROVE  x % R = x
OBVIOUS

LEMMA LimitPositive == RefLimit \in Nat /\ RefLimit > 0
BY FS_CardinalityType, RegistryAssumption

(* A value taken modulo RefLimit is in the range of the counter. *)
LEMMA Wraps ==
  ASSUME NEW x \in Int
  PROVE  x % RefLimit \in 0 .. RefLimit - 1
BY LimitPositive

(* The loggers of a subset that reference h are finitely many. *)
LEMMA CountWithoutType ==
  ASSUME RegistryTypeOK, NEW S \in SUBSET Loggers, NEW h \in Handlers
  PROVE  CountWithout(S, h) \in 0 .. RefLimit - 1
<1>1. IsFiniteSet({l \in S : h \in refs[l]})
  BY FS_Subset, RegistryAssumption
<1>2. Cardinality({l \in S : h \in refs[l]}) \in Nat
  BY <1>1, FS_CardinalityType
<1>3. nr_logger_ref[h] \in Int
  BY LimitPositive DEF RegistryTypeOK
<1> QED BY <1>2, <1>3, Wraps DEF CountWithout

----------------------------------------------------------------------------
LEMMA TypeInit == RegistryInit => RegistryTypeOK
<1> SUFFICES ASSUME RegistryInit PROVE RegistryTypeOK
  OBVIOUS
<1>1. TRACE \in ValidLevel /\ INFO \in ValidLevel /\ 0 \in 0 .. RefLimit - 1
  BY LimitPositive DEF ValidLevel, TRACE, INFO, OFF
<1> QED BY <1>1 DEF RegistryInit, RegistryTypeOK

(* The thread that moves ends in a call of one of the kinds. *)
LEMMA TypeCall ==
  ASSUME RegistryTypeOK, NEW t \in Threads,
         NEW c \in {NoCall} \cup Counting \cup Counted \cup Enabled \cup Walk,
         call' = [call EXCEPT ![t] = c]
  PROVE  call' \in [Threads -> {NoCall} \cup Counting \cup Counted \cup Enabled \cup Walk]
<1> DEFINE C == {NoCall} \cup Counting \cup Counted \cup Enabled \cup Walk
<1>1. call \in [Threads -> C] /\ c \in C
  BY DEF RegistryTypeOK
<1> HIDE DEF C
<1>2. [call EXCEPT ![t] = c] \in [Threads -> C]
  BY <1>1
<1> QED BY <1>2 DEF C

LEMMA TypeUnsettle ==
  ASSUME RegistryTypeOK, Unsettle
  PROVE  call' \in [Threads -> {NoCall} \cup Counting \cup Counted \cup Enabled \cup Walk]
<1> DEFINE C == {NoCall} \cup Counting \cup Counted \cup Enabled \cup Walk
<1>1. ASSUME NEW u \in Threads, ~Logging(u)
      PROVE  call[u] \in C
  BY <1>1 DEF RegistryTypeOK
<1>2. ASSUME NEW u \in Threads, Logging(u)
      PROVE  [call[u] EXCEPT !.stable = FALSE] \in C
  <2>1. CASE call[u].pc = "enabled"
    BY <2>1, CallShape DEF Enabled
  <2>2. CASE call[u].pc = "walk"
    BY <2>2, CallShape DEF Walk
  <2> QED BY <1>2, <2>1, <2>2 DEF Logging
<1> HIDE DEF C
<1>3. call' \in [Threads -> C]
  BY <1>1, <1>2 DEF Unsettle
<1> QED BY <1>3 DEF C

LEMMA TypeStep == RegistryTypeOK /\ [RegistryNext]_vars => RegistryTypeOK'
<1> SUFFICES ASSUME RegistryTypeOK, [RegistryNext]_vars PROVE RegistryTypeOK'
  OBVIOUS
<1> USE DEF RegistryTypeOK
<1>1. CASE InitOnly
  BY <1>1 DEF InitOnly, LmkInit, InitLoggers, InitHandlers, loggerVars, handlerVars
<1>2. ASSUME NEW n \in LoggerNames, GetLogger(n) PROVE RegistryTypeOK'
  BY <1>2 DEF GetLogger, InitLoggers, InitHandlers, handlerVars, ValidLevel, TRACE, INFO, OFF
<1>3. ASSUME NEW n \in HandlerNames, GetLogHandler(n) PROVE RegistryTypeOK'
  BY <1>3, LimitPositive
  DEF GetLogHandler, InitLoggers, InitHandlers, loggerVars, ValidLevel, TRACE, OFF
<1>4. ASSUME NEW t \in Threads, NEW l \in Loggers, NEW h \in Handlers, Attach(t, l, h)
      PROVE  RegistryTypeOK'
  <2>1. [pc |-> "attached", logger |-> l, handler |-> h] \in Counting
    BY DEF Counting
  <2>2. call' \in [Threads -> {NoCall} \cup Counting \cup Counted \cup Enabled \cup Walk]
    BY <1>4, <2>1, TypeCall DEF Attach
  <2> QED BY <1>4, <2>2 DEF Attach, LmkInit, InitLoggers, InitHandlers, handlerVars
<1>5. ASSUME NEW t \in Threads, NEW l \in Loggers, NEW h \in Handlers, Detach(t, l, h)
      PROVE  RegistryTypeOK'
  <2>1. [pc |-> "detached", logger |-> l, handler |-> h] \in Counting
    BY DEF Counting
  <2>2. call' \in [Threads -> {NoCall} \cup Counting \cup Counted \cup Enabled \cup Walk]
    BY <1>5, <2>1, TypeCall DEF Detach
  <2> QED BY <1>5, <2>2 DEF Detach, LmkInit, InitLoggers, InitHandlers, handlerVars
<1>6. ASSUME NEW t \in Threads, LoadCount(t) PROVE RegistryTypeOK'
  <2> DEFINE c == [pc |-> IF call[t].pc = "attached" THEN "increment" ELSE "decrement",
                   logger |-> call[t].logger, handler |-> call[t].handler,
                   count |-> nr_logger_ref[call[t].handler]]
  <2>1. c \in Counted
    BY <1>6, CallShape DEF LoadCount, Counting, Counted
  <2>2. call' = [call EXCEPT ![t] = c]
    BY <1>6 DEF LoadCount
  <2> HIDE DEF c
  <2>3. call' \in [Threads -> {NoCall} \cup Counting \cup Counted \cup Enabled \cup Walk]
    BY <2>1, <2>2, TypeCall
  <2> QED BY <1>6, <2>3 DEF LoadCount, lists, loggerVars, handlerVars
<1>7. ASSUME NEW t \in Threads, StoreCount(t) PROVE RegistryTypeOK'
  <2>1. call' \in [Threads -> {NoCall} \cup Counting \cup Counted \cup Enabled \cup Walk]
    BY <1>7, TypeCall DEF StoreCount
  <2>2. call[t].count \in Int /\ call[t].handler \in Handlers
    BY <1>7, CallShape, LimitPositive DEF StoreCount, Counted
  <2>3. \A i \in {-1, 1} : (call[t].count + i) % RefLimit \in 0 .. RefLimit - 1
    BY <2>2, Wraps
  <2>4. nr_logger_ref' \in [Handlers -> 0 .. RefLimit - 1]
    BY <1>7, <2>2, <2>3 DEF StoreCount
  <2> QED BY <1>7, <2>1, <2>4 DEF StoreCount, lists, loggerVars
<1>8. ASSUME NEW l \in Loggers, DestroyLogger(l) PROVE RegistryTypeOK'
  <2>1. nr_logger_ref' \in [Handlers -> 0 .. RefLimit - 1]
    BY <1>8, CountWithoutType DEF DestroyLogger
  <2> QED BY <1>8, <2>1 DEF DestroyLogger, InitLoggers, InitHandlers
<1>9. ASSUME NEW h \in Handlers, DestroyLogHandler(h) PROVE RegistryTypeOK'
  BY <1>9 DEF DestroyLogHandler, loggerVars
<1>10. CASE LmkDestroy
  <2>1. nr_logger_ref' \in [Handlers -> 0 .. RefLimit - 1]
    BY <1>10, CountWithoutType DEF LmkDestroy
  <2> QED BY <1>10, <2>1 DEF LmkDestroy
<1>11. ASSUME NEW l \in Loggers, NEW v \in Levels, SetLogLevel(l, v) PROVE RegistryTypeOK'
  BY <1>11, TypeUnsettle DEF SetLogLevel, LmkInit, InitLoggers, InitHandlers, handlerVars
<1>12. ASSUME NEW h \in Handlers, NEW v \in Levels, SetHandlerLogLevel(h, v)
       PROVE  RegistryTypeOK'
  BY <1>12, TypeUnsettle DEF SetHandlerLogLevel, LmkInit, InitLoggers, InitHandlers, loggerVars
<1>13. ASSUME NEW t \in Threads, NEW l \in Loggers, NEW v \in Levels, LogCommon(t, l, v)
       PROVE  RegistryTypeOK'
  <2>1. [pc |-> "enabled", logger |-> l, level |-> v, stable |-> TRUE] \in Enabled
    BY <1>13 DEF LogCommon, Enabled
  <2>2. call' \in [Threads -> {NoCall} \cup Counting \cup Counted \cup Enabled \cup Walk]
    BY <1>13, <2>1, TypeCall DEF LogCommon
  <2> QED BY <1>13, <2>2
          DEF LogCommon, LmkInit, InitLoggers, InitHandlers, loggerVars, handlerVars
<1>14. ASSUME NEW t \in Threads, LogImpl(t) PROVE RegistryTypeOK'
  <2> DEFINE w == [pc |-> "walk", logger |-> call[t].logger, level |-> call[t].level,
                   stable |-> call[t].stable, todo |-> refs[call[t].logger], reached |-> {}]
             c == IF call[t].level < loggerLevel[call[t].logger] THEN NoCall ELSE w
  <2>1. w \in Walk
    BY <1>14, CallShape DEF LogImpl, Enabled, Walk
  <2>2. call' = [call EXCEPT ![t] = c]
    BY <1>14 DEF LogImpl
  <2>3. c \in {NoCall} \cup Counting \cup Counted \cup Enabled \cup Walk
    BY <2>1
  <2> HIDE DEF c
  <2>4. call' \in [Threads -> {NoCall} \cup Counting \cup Counted \cup Enabled \cup Walk]
    BY <2>2, <2>3, TypeCall
  <2> QED BY <1>14, <2>4 DEF LogImpl, lists, loggerVars, handlerVars
<1>15. ASSUME NEW t \in Threads, LogForward(t) PROVE RegistryTypeOK'
  <2>1. PICK h \in call[t].todo : call' = [call EXCEPT ![t] = Visit(call[t], h)]
    BY <1>15 DEF LogForward
  <2>2. Visit(call[t], h) \in Walk
    BY <1>15, CallShape, ZenonT(40) DEF LogForward, Walk, Visit
  <2>3. call' \in [Threads -> {NoCall} \cup Counting \cup Counted \cup Enabled \cup Walk]
    BY <2>1, <2>2, TypeCall
  <2> QED BY <1>15, <2>3 DEF LogForward, lists, loggerVars, handlerVars
<1>16. ASSUME NEW t \in Threads, LogReturn(t) PROVE RegistryTypeOK'
  <2>1. call' \in [Threads -> {NoCall} \cup Counting \cup Counted \cup Enabled \cup Walk]
    BY <1>16, TypeCall DEF LogReturn
  <2> QED BY <1>16, <2>1 DEF LogReturn, lists, loggerVars, handlerVars
<1>17. CASE UNCHANGED vars
  BY <1>17 DEF vars, lists, loggerVars, handlerVars
<1> QED BY <1>1, <1>2, <1>3, <1>4, <1>5, <1>6, <1>7, <1>8, <1>9, <1>10, <1>11, <1>12,
           <1>13, <1>14, <1>15, <1>16, <1>17 DEF RegistryNext

(* The counters, lists, levels and the locals of every call in flight keep
   their types, however many threads register at once: a count wraps modulo
   the range of its unsigned int and never leaves it. *)
THEOREM RegistryTypeCorrect == RegistrySpec => []RegistryTypeOK
BY TypeInit, TypeStep, PTL DEF RegistrySpec

----------------------------------------------------------------------------
(* lmk_init changes no list: an uninitialised library has empty ones. *)
LEMMA InitKeeps ==
  ASSUME ListInv
  PROVE  InitLoggers = g_lmk_logger_list /\ InitHandlers = g_lmk_handler_list
BY DEF ListInv, InitLoggers, InitHandlers

LEMMA ReferrersFinite ==
  ASSUME RegistryTypeOK, NEW h \in Handlers
  PROVE  /\ IsFiniteSet(Referrers(h))
         /\ Cardinality(Referrers(h)) \in Nat
         /\ Cardinality(Referrers(h)) < RefLimit
<1>1. Referrers(h) \subseteq Loggers
  BY DEF RegistryTypeOK, Referrers
<1>2. IsFiniteSet(Referrers(h)) /\ Cardinality(Referrers(h)) <= Cardinality(Loggers)
  BY <1>1, FS_Subset, RegistryAssumption
<1>3. Cardinality(Referrers(h)) \in Nat /\ Cardinality(Loggers) \in Nat
  BY <1>2, FS_CardinalityType, RegistryAssumption
<1> QED BY <1>2, <1>3, RegistryAssumption

(* What a call that runs alone finds: no registration, no log call. *)
LEMMA AloneQuiet ==
  ASSUME RegistryTypeOK, Alone
  PROVE  \A t \in Threads : ~Registering(t) /\ ~Logging(t)
BY DEF Alone, Idle, Registering, Logging

LEMMA AloneCounts ==
  ASSUME RegistryTypeOK, Alone, CountInv, NEW h \in g_lmk_handler_list
  PROVE  nr_logger_ref[h] = Cardinality(Referrers(h))
BY AloneQuiet DEF CountInv

LEMMA AloneCalls ==
  ASSUME RegistryTypeOK, Alone, UNCHANGED call
  PROVE  RegisterInv' /\ WalkInv'
<1>1. \A t \in Threads : ~Registering(t)' /\ ~Logging(t)'
  BY AloneQuiet DEF Registering, Logging
<1> QED BY <1>1 DEF RegisterInv, WalkInv

(* To show CountInv after a call that runs alone. *)
LEMMA AloneCountInv ==
  ASSUME RegistryTypeOK, Alone, UNCHANGED call,
         \A h \in g_lmk_handler_list' : Cardinality(Referrers(h)') = nr_logger_ref'[h]
  PROVE  CountInv'
<1>1. \A t \in Threads : ~Registering(t)'
  BY AloneQuiet DEF Registering
<1> QED BY <1>1 DEF CountInv

LEMMA InvInit == RegistryInit => RegistryInv
<1> SUFFICES ASSUME RegistryInit PROVE RegistryInv
  OBVIOUS
<1>1. \A t \in Threads : ~Registering(t) /\ ~Logging(t)
  BY DEF RegistryInit, NoCall, Registering, Logging
<1>2. ListInv /\ UniqueNames
  BY DEF RegistryInit, ListInv, UniqueNames, AllocatedLogger, AllocatedHandler
<1>3. RegisterInv /\ WalkInv
  BY <1>1 DEF RegisterInv, WalkInv
<1>4. CountInv
  BY DEF RegistryInit, CountInv
<1> QED BY TypeInit, <1>2, <1>3, <1>4 DEF RegistryInv

LEMMA InitOnlyInv ==
  ASSUME RegistryInv, InitOnly
  PROVE  (ListInv /\ UniqueNames /\ RegisterInv /\ CountInv /\ WalkInv)'
<1> USE DEF RegistryInv
<1>1. UNCHANGED <<g_lmk_logger_list, g_lmk_handler_list>>
  BY InitKeeps DEF InitOnly, LmkInit
<1>2. UNCHANGED <<loggerVars, handlerVars, call>> /\ g_lmk_initialized'
  BY DEF InitOnly, LmkInit
<1>3. ListInv' /\ UniqueNames'
  BY <1>1, <1>2 DEF ListInv, UniqueNames, AllocatedLogger, AllocatedHandler, loggerVars, handlerVars
<1>4. RegisterInv' /\ WalkInv'
  BY <1>2, AloneCalls DEF InitOnly
<1>5. \A h \in g_lmk_handler_list' : Cardinality(Referrers(h)') = nr_logger_ref'[h]
  <2>1. \A h : Referrers(h)' = Referrers(h)
    BY <1>1, <1>2 DEF Referrers, loggerVars
  <2> QED BY <1>1, <1>2, <2>1, AloneCounts DEF handlerVars, InitOnly
<1>6. CountInv'
  BY <1>2, <1>5, AloneCountInv DEF InitOnly
<1> QED BY <1>3, <1>4, <1>6

(* A new logger references nothing, so no count changes. *)
LEMMA GetLoggerInv ==
  ASSUME RegistryInv, NEW n \in LoggerNames, GetLogger(n)
  PROVE  (ListInv /\ UniqueNames /\ RegisterInv /\ CountInv /\ WalkInv)'
<1> USE DEF RegistryInv
<1>1. PICK l \in Loggers :
        /\ ~AllocatedLogger(l)
        /\ loggerName' = [loggerName EXCEPT ![l] = n]
        /\ refs' = [refs EXCEPT ![l] = {}]
        /\ g_lmk_logger_list' = g_lmk_logger_list \cup {l}
  BY InitKeeps DEF GetLogger
<1>2. /\ g_lmk_initialized' /\ Alone
      /\ g_lmk_handler_list' = g_lmk_handler_list
      /\ UNCHANGED <<handlerName, nr_logger_ref, call>>
      /\ \A k \in g_lmk_logger_list : loggerName[k] # n
  BY InitKeeps DEF GetLogger, handlerVars
<1>3. l \notin g_lmk_logger_list /\ n # NoName
  BY <1>1, RegistryAssumption DEF ListInv
<1>4. ListInv'
  BY <1>1, <1>2, <1>3 DEF ListInv, AllocatedLogger, AllocatedHandler, RegistryTypeOK
<1>5. UniqueNames'
  BY <1>1, <1>2, <1>3 DEF UniqueNames, RegistryTypeOK
<1>6. RegisterInv' /\ WalkInv'
  BY <1>2, AloneCalls
<1>7. \A h \in g_lmk_handler_list' : Cardinality(Referrers(h)') = nr_logger_ref'[h]
  <2>1. \A h \in Handlers : Referrers(h)' = Referrers(h)
    BY <1>1, <1>3 DEF Referrers, RegistryTypeOK
  <2> QED BY <1>2, <2>1, AloneCounts DEF RegistryTypeOK
<1>8. CountInv'
  BY <1>2, <1>7, AloneCountInv
<1> QED BY <1>4, <1>5, <1>6, <1>8

(* Nothing references the address that a new handler gets. *)
LEMMA GetLogHandlerInv ==
  ASSUME RegistryInv, NEW n \in HandlerNames, GetLogHandler(n)
  PROVE  (ListInv /\ UniqueNames /\ RegisterInv /\ CountInv /\ WalkInv)'
<1> USE DEF RegistryInv
<1>1. PICK h \in Handlers :
        /\ ~AllocatedHandler(h)
        /\ handlerName' = [handlerName EXCEPT ![h] = n]
        /\ nr_logger_ref' = [nr_logger_ref EXCEPT ![h] = 0]
        /\ g_lmk_handler_list' = g_lmk_handler_list \cup {h}
  BY InitKeeps DEF GetLogHandler
<1>2. /\ g_lmk_initialized' /\ Alone
      /\ g_lmk_logger_list' = g_lmk_logger_list
      /\ UNCHANGED <<loggerName, refs, call>>
      /\ \A k \in g_lmk_handler_list : handlerName[k] # n
  BY InitKeeps DEF GetLogHandler, loggerVars
<1>3. h \notin g_lmk_handler_list /\ n # NoName
  BY <1>1, RegistryAssumption DEF ListInv
<1>4. ListInv'
  BY <1>1, <1>2, <1>3 DEF ListInv, AllocatedLogger, AllocatedHandler, RegistryTypeOK
<1>5. UniqueNames'
  BY <1>1, <1>2, <1>3 DEF UniqueNames, RegistryTypeOK
<1>6. RegisterInv' /\ WalkInv'
  BY <1>2, AloneCalls
<1>7. \A g \in g_lmk_handler_list' : Cardinality(Referrers(g)') = nr_logger_ref'[g]
  <2>1. \A g : Referrers(g)' = Referrers(g)
    BY <1>2 DEF Referrers
  <2>2. Referrers(h) = {}
    BY <1>3 DEF Referrers, ListInv
  <2>3. Cardinality(Referrers(h)') = 0
    BY <2>1, <2>2, FS_EmptySet
  <2>4. \A g \in g_lmk_handler_list : Cardinality(Referrers(g)) = nr_logger_ref[g]
    BY <1>2, AloneCounts
  <2> QED BY <1>1, <1>3, <2>1, <2>3, <2>4 DEF RegistryTypeOK
<1>8. CountInv'
  BY <1>2, <1>7, AloneCountInv
<1> QED BY <1>4, <1>5, <1>6, <1>8

(* The new reference is one that the count still misses. *)
LEMMA AttachInv ==
  ASSUME ~ConcurrentAttach, RegistryInv, NEW t \in Threads, NEW l \in Loggers, NEW h \in Handlers,
         Attach(t, l, h)
  PROVE  (ListInv /\ UniqueNames /\ RegisterInv /\ CountInv /\ WalkInv)'
<1> USE DEF RegistryInv
<1>1. /\ g_lmk_initialized' /\ UNCHANGED <<g_lmk_logger_list, g_lmk_handler_list>>
      /\ UNCHANGED <<loggerName, loggerLevel, handlerName, handlerLevel, nr_logger_ref>>
      /\ refs' = [refs EXCEPT ![l] = @ \cup {h}]
      /\ l \in g_lmk_logger_list /\ h \in g_lmk_handler_list /\ h \notin refs[l]
  BY InitKeeps DEF Attach, LmkInit, ListInv, handlerVars
<1>2. /\ \A u \in Threads : ~Registering(u)
      /\ \A u \in Threads : Logging(u) => call[u].logger # l
      /\ ~Logging(t)
  BY DEF Attach, MayRegister, Idle, Logging
<1>3. /\ call'[t] = [pc |-> "attached", logger |-> l, handler |-> h]
      /\ \A u \in Threads : u # t => call'[u] = call[u]
  BY DEF Attach, RegistryTypeOK
<1>4. /\ Registering(t)' /\ ~Logging(t)'
      /\ \A u \in Threads : u # t => ~Registering(u)' /\ (Logging(u)' <=> Logging(u))
  BY <1>2, <1>3 DEF Registering, Logging
<1>5. ListInv' /\ UniqueNames'
  BY <1>1 DEF ListInv, UniqueNames, AllocatedLogger, AllocatedHandler, RegistryTypeOK
<1>6. RegisterInv'
  BY <1>3, <1>4 DEF RegisterInv
<1>7. CountInv'
  <2>1. \A g \in g_lmk_handler_list : Cardinality(Referrers(g)) = nr_logger_ref[g]
    BY <1>2 DEF CountInv
  <2>2. \A g \in Handlers : g # h => Referrers(g)' = Referrers(g)
    BY <1>1 DEF Referrers, RegistryTypeOK
  <2>3. Referrers(h)' = Referrers(h) \cup {l} /\ l \notin Referrers(h)
    BY <1>1 DEF Referrers, RegistryTypeOK
  <2>4. Cardinality(Referrers(h)') = Cardinality(Referrers(h)) + 1
    BY <2>3, ReferrersFinite, FS_AddElement
  <2>5. Missing(t)' = 1
    BY <1>3 DEF Missing
  <2>6. Cardinality(Referrers(h)') = nr_logger_ref'[h] + Missing(t)'
    BY <1>1, <2>1, <2>4, <2>5, ReferrersFinite
  <2>7. \A g \in g_lmk_handler_list' : g # h =>
          /\ \A u \in Threads : Registering(u)' => call'[u].handler # g
          /\ Cardinality(Referrers(g)') = nr_logger_ref'[g]
    BY <1>1, <1>3, <1>4, <2>1, <2>2 DEF RegistryTypeOK
  <2>8. call'[t].handler = h
    BY <1>3
  <2> QED BY <1>4, <2>6, <2>7, <2>8 DEF CountInv
<1>8. WalkInv'
  <2> SUFFICES ASSUME NEW u \in Threads, Logging(u)'
               PROVE  /\ call'[u].logger \in g_lmk_logger_list'
                      /\ \A x \in Threads : Registering(x)' => call'[x].logger # call'[u].logger
                      /\ call'[u].stable => call'[u].level >= loggerLevel'[call'[u].logger]
                      /\ call'[u].pc = "walk" =>
                           /\ call'[u].todo \subseteq refs'[call'[u].logger]
                           /\ call'[u].stable => call'[u].reached =
                                {g \in refs'[call'[u].logger] \ call'[u].todo :
                                   call'[u].level >= handlerLevel'[g]}
    BY DEF WalkInv
  <2>1. u # t /\ call'[u] = call[u] /\ Logging(u) /\ call[u].logger # l
    BY <1>2, <1>3, <1>4
  <2>2. call'[u].logger \in Loggers /\ refs'[call'[u].logger] = refs[call[u].logger]
    BY <1>1, <2>1, CallShape DEF RegistryTypeOK
  <2> QED BY <1>1, <1>3, <1>4, <2>1, <2>2 DEF WalkInv
<1> QED BY <1>5, <1>6, <1>7, <1>8

(* The freed reference is one that the count still has too many. *)
LEMMA DetachInv ==
  ASSUME ~ConcurrentAttach, RegistryInv, NEW t \in Threads, NEW l \in Loggers, NEW h \in Handlers,
         Detach(t, l, h)
  PROVE  (ListInv /\ UniqueNames /\ RegisterInv /\ CountInv /\ WalkInv)'
<1> USE DEF RegistryInv
<1>1. /\ g_lmk_initialized' /\ UNCHANGED <<g_lmk_logger_list, g_lmk_handler_list>>
      /\ UNCHANGED <<loggerName, loggerLevel, handlerName, handlerLevel, nr_logger_ref>>
      /\ refs' = [refs EXCEPT ![l] = @ \ {h}]
      /\ l \in g_lmk_logger_list /\ h \in g_lmk_handler_list /\ h \in refs[l]
  BY InitKeeps DEF Detach, LmkInit, ListInv, handlerVars
<1>2. /\ \A u \in Threads : ~Registering(u)
      /\ \A u \in Threads : Logging(u) => call[u].logger # l
      /\ ~Logging(t)
  BY DEF Detach, MayRegister, Idle, Logging
<1>3. /\ call'[t] = [pc |-> "detached", logger |-> l, handler |-> h]
      /\ \A u \in Threads : u # t => call'[u] = call[u]
  BY DEF Detach, RegistryTypeOK
<1>4. /\ Registering(t)' /\ ~Logging(t)'
      /\ \A u \in Threads : u # t => ~Registering(u)' /\ (Logging(u)' <=> Logging(u))
  BY <1>2, <1>3 DEF Registering, Logging
<1>5. ListInv' /\ UniqueNames'
  BY <1>1 DEF ListInv, UniqueNames, AllocatedLogger, AllocatedHandler, RegistryTypeOK
<1>6. RegisterInv'
  BY <1>3, <1>4 DEF RegisterInv
<1>7. CountInv'
  <2>1. \A g \in g_lmk_handler_list : Cardinality(Referrers(g)) = nr_logger_ref[g]
    BY <1>2 DEF CountInv
  <2>2. \A g \in Handlers : g # h => Referrers(g)' = Referrers(g)
    BY <1>1 DEF Referrers, RegistryTypeOK
  <2>3. Referrers(h)' = Referrers(h) \ {l} /\ l \in Referrers(h)
    BY <1>1 DEF Referrers, RegistryTypeOK
  <2>4. Cardinality(Referrers(h)') = Cardinality(Referrers(h)) - 1
    BY <2>3, ReferrersFinite, FS_RemoveElement
  <2>5. Missing(t)' = -1
    BY <1>3 DEF Missing
  <2>6. Cardinality(Referrers(h)') = nr_logger_ref'[h] + Missing(t)'
    BY <1>1, <2>1, <2>4, <2>5, ReferrersFinite
  <2>7. \A g \in g_lmk_handler_list' : g # h =>
          /\ \A u \in Threads : Registering(u)' => call'[u].handler # g
          /\ Cardinality(Referrers(g)') = nr_logger_ref'[g]
    BY <1>1, <1>3, <1>4, <2>1, <2>2 DEF RegistryTypeOK
  <2>8. call'[t].handler = h
    BY <1>3
  <2> QED BY <1>4, <2>6, <2>7, <2>8 DEF CountInv
<1>8. WalkInv'
  <2> SUFFICES ASSUME NEW u \in Threads, Logging(u)'
               PROVE  /\ call'[u].logger \in g_lmk_logger_list'
                      /\ \A x \in Threads : Registering(x)' => call'[x].logger # call'[u].logger
                      /\ call'[u].stable => call'[u].level >= loggerLevel'[call'[u].logger]
                      /\ call'[u].pc = "walk" =>
                           /\ call'[u].todo \subseteq refs'[call'[u].logger]
                           /\ call'[u].stable => call'[u].reached =
                                {g \in refs'[call'[u].logger] \ call'[u].todo :
                                   call'[u].level >= handlerLevel'[g]}
    BY DEF WalkInv
  <2>1. u # t /\ call'[u] = call[u] /\ Logging(u) /\ call[u].logger # l
    BY <1>2, <1>3, <1>4
  <2>2. call'[u].logger \in Loggers /\ refs'[call'[u].logger] = refs[call[u].logger]
    BY <1>1, <2>1, CallShape DEF RegistryTypeOK
  <2> QED BY <1>1, <1>3, <1>4, <2>1, <2>2 DEF WalkInv
<1> QED BY <1>5, <1>6, <1>7, <1>8

(* Only the thread that registers has loaded a count, and nobody changes it
   before the store. *)
LEMMA LoadCountInv ==
  ASSUME RegistryInv, NEW t \in Threads, LoadCount(t)
  PROVE  (ListInv /\ UniqueNames /\ RegisterInv /\ CountInv /\ WalkInv)'
<1> USE DEF RegistryInv
<1>1. UNCHANGED <<lists, loggerVars, handlerVars>>
  BY DEF LoadCount
<1>2. /\ call'[t] = [pc |-> IF call[t].pc = "attached" THEN "increment" ELSE "decrement",
                     logger |-> call[t].logger, handler |-> call[t].handler,
                     count |-> nr_logger_ref[call[t].handler]]
      /\ \A u \in Threads : u # t => call'[u] = call[u]
  BY DEF LoadCount, RegistryTypeOK
<1>3. /\ Registering(t) /\ Registering(t)' /\ ~Logging(t)'
      /\ call'[t].handler = call[t].handler /\ call'[t].logger = call[t].logger
      /\ Missing(t)' = Missing(t)
  BY <1>2 DEF LoadCount, Registering, Logging, Missing
<1>4. \A u \in Threads : /\ Registering(u)' <=> Registering(u)
                         /\ call'[u].handler = call[u].handler
                         /\ call'[u].logger = call[u].logger
                         /\ Missing(u)' = Missing(u)
                         /\ Logging(u)' => Logging(u) /\ call'[u] = call[u]
  BY <1>2, <1>3 DEF Registering, Logging, Missing
<1>5. ListInv' /\ UniqueNames'
  BY <1>1 DEF ListInv, UniqueNames, AllocatedLogger, AllocatedHandler, lists, loggerVars, handlerVars
<1>6. RegisterInv'
  <2>1. nr_logger_ref' = nr_logger_ref
    BY <1>1 DEF handlerVars
  <2>2. \A u \in Threads : Registering(u)' => u = t
    BY <1>3, <1>4 DEF RegisterInv
  <2>3. call'[t].count = nr_logger_ref'[call'[t].handler]
    BY <1>2, <1>3, <2>1
  <2> QED BY <2>2, <2>3 DEF RegisterInv
<1>7. CountInv'
  <2>1. \A h : Referrers(h)' = Referrers(h)
    BY <1>1 DEF Referrers, lists, loggerVars
  <2>2. nr_logger_ref' = nr_logger_ref /\ g_lmk_handler_list' = g_lmk_handler_list
    BY <1>1 DEF handlerVars, lists
  <2> QED BY <1>4, <2>1, <2>2 DEF CountInv
<1>8. WalkInv'
  BY <1>1, <1>4 DEF WalkInv, lists, loggerVars, handlerVars
<1> QED BY <1>5, <1>6, <1>7, <1>8

(* The store brings the count level with the references, and does not wrap:
   there are fewer loggers than the range of the counter. *)
LEMMA StoreCountInv ==
  ASSUME RegistryInv, NEW t \in Threads, StoreCount(t)
  PROVE  (ListInv /\ UniqueNames /\ RegisterInv /\ CountInv /\ WalkInv)'
<1> USE DEF RegistryInv
<1> DEFINE h == call[t].handler
<1>1. UNCHANGED <<lists, loggerVars, handlerName, handlerLevel>>
  BY DEF StoreCount
<1>2. /\ call'[t] = NoCall
      /\ \A u \in Threads : u # t => call'[u] = call[u]
  BY DEF StoreCount, RegistryTypeOK
<1>3. Registering(t) /\ h \in Handlers /\ call[t].count = nr_logger_ref[h]
  BY CallShape DEF StoreCount, Registering, RegisterInv
<1>4. \A u \in Threads : u # t => ~Registering(u)
  BY <1>3 DEF RegisterInv
<1>5. /\ ~Registering(t)' /\ ~Logging(t)'
      /\ \A u \in Threads : ~Registering(u)' /\ (Logging(u)' => Logging(u) /\ call'[u] = call[u])
  BY <1>2, <1>4 DEF Registering, Logging, NoCall
<1>6. ListInv' /\ UniqueNames'
  BY <1>1 DEF ListInv, UniqueNames, AllocatedLogger, AllocatedHandler, lists, loggerVars
<1>7. RegisterInv'
  BY <1>5 DEF RegisterInv
<1>8. CountInv'
  <2>1. \A g : Referrers(g)' = Referrers(g)
    BY <1>1 DEF Referrers, lists, loggerVars
  <2>2. \A g \in g_lmk_handler_list : g # h => Cardinality(Referrers(g)) = nr_logger_ref[g]
    BY <1>4 DEF CountInv
  <2>3. h \in g_lmk_handler_list => Cardinality(Referrers(h)) = nr_logger_ref[h] + Missing(t)
    BY <1>3, <1>4 DEF CountInv
  <2>4. nr_logger_ref' = [nr_logger_ref EXCEPT ![h] = (nr_logger_ref[h] + Missing(t)) % RefLimit]
    BY <1>3 DEF StoreCount, Missing
  <2>5. h \in g_lmk_handler_list => Cardinality(Referrers(h)) = nr_logger_ref'[h]
    <3>1. Cardinality(Referrers(h)) \in 0 .. RefLimit - 1
      BY <1>3, ReferrersFinite, LimitPositive
    <3>2. Cardinality(Referrers(h)) % RefLimit = Cardinality(Referrers(h))
      BY <3>1, InRange, LimitPositive
    <3>3. nr_logger_ref'[h] = (nr_logger_ref[h] + Missing(t)) % RefLimit
      BY <1>3, <2>4 DEF RegistryTypeOK
    <3> QED BY <2>3, <3>2, <3>3
  <2>6. \A g \in g_lmk_handler_list : Cardinality(Referrers(g)') = nr_logger_ref'[g]
    BY <2>1, <2>2, <2>4, <2>5 DEF RegistryTypeOK
  <2>7. g_lmk_handler_list' = g_lmk_handler_list
    BY <1>1 DEF lists
  <2> QED BY <1>5, <2>6, <2>7 DEF CountInv
<1>9. WalkInv'
  BY <1>1, <1>5 DEF WalkInv, lists, loggerVars
<1> QED BY <1>6, <1>7, <1>8, <1>9

LEMMA DestroyLoggerInv ==
  ASSUME RegistryInv, NEW l \in Loggers, DestroyLogger(l)
  PROVE  (ListInv /\ UniqueNames /\ RegisterInv /\ CountInv /\ WalkInv)'
<1> USE DEF RegistryInv
<1>1. /\ g_lmk_initialized' /\ Alone /\ l \in g_lmk_logger_list
      /\ g_lmk_logger_list' = g_lmk_logger_list \ {l}
      /\ g_lmk_handler_list' = g_lmk_handler_list
      /\ UNCHANGED <<handlerName, call>>
      /\ loggerName' = [loggerName EXCEPT ![l] = NoName]
      /\ refs' = [refs EXCEPT ![l] = {}]
      /\ nr_logger_ref' = [h \in Handlers |-> CountWithout({l}, h)]
  BY InitKeeps DEF DestroyLogger, ListInv
<1>2. ListInv'
  BY <1>1 DEF ListInv, AllocatedLogger, AllocatedHandler, RegistryTypeOK
<1>3. UniqueNames'
  BY <1>1 DEF UniqueNames, RegistryTypeOK
<1>4. RegisterInv' /\ WalkInv'
  BY <1>1, AloneCalls
<1>5. ASSUME NEW h \in g_lmk_handler_list'
      PROVE  Cardinality(Referrers(h)') = nr_logger_ref'[h]
  <2>1. h \in Handlers /\ h \in g_lmk_handler_list
    BY <1>1 DEF RegistryTypeOK
  <2> DEFINE mine == {k \in {l} : h \in refs[k]}
             n == Cardinality(Referrers(h))
  <2>2. nr_logger_ref[h] = n /\ n \in 0 .. RefLimit - 1 /\ IsFiniteSet(Referrers(h))
    BY <1>1, <2>1, AloneCounts, ReferrersFinite, LimitPositive
  <2>3. Referrers(h)' = Referrers(h) \ {l}
    BY <1>1 DEF Referrers, RegistryTypeOK
  <2>4. nr_logger_ref'[h] = (n - Cardinality(mine)) % RefLimit
    BY <1>1, <2>1, <2>2 DEF CountWithout
  <2>5. CASE h \in refs[l]
    <3>1. mine = {l} /\ l \in Referrers(h)
      BY <1>1, <2>5 DEF Referrers
    <3>2. Cardinality(mine) = 1
      BY <3>1, FS_Singleton
    <3>3. Cardinality(Referrers(h)') = n - 1 /\ n - 1 \in Nat
      <4>1. IsFiniteSet(Referrers(h)') /\ Cardinality(Referrers(h)') = n - 1
        BY <2>2, <2>3, <3>1, FS_RemoveElement
      <4>2. Cardinality(Referrers(h)') \in Nat
        BY <4>1, FS_CardinalityType
      <4> QED BY <4>1, <4>2
    <3>4. n - 1 \in 0 .. RefLimit - 1
      BY <2>2, <3>3, LimitPositive
    <3>5. (n - 1) % RefLimit = n - 1
      BY <3>4, InRange, LimitPositive
    <3> QED BY <2>4, <3>2, <3>3, <3>5
  <2>6. CASE h \notin refs[l]
    <3>1. mine = {} /\ Referrers(h)' = Referrers(h)
      BY <2>3, <2>6 DEF Referrers
    <3>2. Cardinality(mine) = 0
      BY <3>1, FS_EmptySet
    <3>3. n % RefLimit = n
      BY <2>2, InRange, LimitPositive
    <3>4. n - 0 = n
      BY <2>2
    <3> QED BY <2>4, <3>1, <3>2, <3>3, <3>4
  <2> QED BY <2>5, <2>6
<1>6. CountInv'
  BY <1>1, <1>5, AloneCountInv
<1> QED BY <1>2, <1>3, <1>4, <1>6

(* A count of 0 is a handler that no logger references. *)
LEMMA DestroyLogHandlerInv ==
  ASSUME RegistryInv, NEW h \in Handlers, DestroyLogHandler(h)
  PROVE  (ListInv /\ UniqueNames /\ RegisterInv /\ CountInv /\ WalkInv)'
<1> USE DEF RegistryInv
<1>1. /\ Alone /\ h \in g_lmk_handler_list /\ nr_logger_ref[h] = 0
      /\ handlerName' = [handlerName EXCEPT ![h] = NoName]
      /\ g_lmk_handler_list' = g_lmk_handler_list \ {h}
      /\ UNCHANGED <<g_lmk_initialized, g_lmk_logger_list, loggerName, refs, nr_logger_ref, call>>
  BY DEF DestroyLogHandler, ListInv, loggerVars
<1>2. Referrers(h) = {}
  <2>1. Cardinality(Referrers(h)) = 0 /\ IsFiniteSet(Referrers(h))
    BY <1>1, AloneCounts, ReferrersFinite
  <2> QED BY <2>1, FS_EmptySet
<1>3. \A l \in g_lmk_logger_list : h \notin refs[l]
  BY <1>2 DEF Referrers
<1>4. ListInv'
  BY <1>1, <1>3 DEF ListInv, AllocatedLogger, AllocatedHandler, RegistryTypeOK
<1>5. UniqueNames'
  BY <1>1 DEF UniqueNames, RegistryTypeOK
<1>6. RegisterInv' /\ WalkInv'
  BY <1>1, AloneCalls
<1>7. \A g \in g_lmk_handler_list' : Cardinality(Referrers(g)') = nr_logger_ref'[g]
  <2>1. \A g : Referrers(g)' = Referrers(g)
    BY <1>1 DEF Referrers
  <2> QED BY <1>1, <2>1, AloneCounts
<1>8. CountInv'
  BY <1>1, <1>7, AloneCountInv
<1> QED BY <1>4, <1>5, <1>6, <1>8

(* When no call is under way, the count of a handler is what the loggers on the
   list will take from it. *)
LEMMA LoopEnds ==
  ASSUME RegistryInv, Alone
  PROVE  HandlerLoopEnds
<1> USE DEF RegistryInv
<1> SUFFICES ASSUME NEW h \in g_lmk_handler_list
             PROVE  CountWithout(g_lmk_logger_list, h) = 0
  BY DEF HandlerLoopEnds
<1>1. h \in Handlers
  BY DEF RegistryTypeOK
<1>2. nr_logger_ref[h] = Cardinality(Referrers(h)) /\ Cardinality(Referrers(h)) \in Nat
  BY <1>1, AloneCounts, ReferrersFinite
<1>3. nr_logger_ref[h] - Cardinality(Referrers(h)) = 0
  BY <1>2
<1>4. 0 % RefLimit = 0
  BY InRange, LimitPositive
<1> QED BY <1>3, <1>4 DEF CountWithout, Referrers

(* lmk_destroy leaves empty lists, and nothing allocated. *)
LEMMA LmkDestroyInv ==
  ASSUME RegistryInv, LmkDestroy
  PROVE  (ListInv /\ UniqueNames /\ RegisterInv /\ CountInv /\ WalkInv)'
<1> USE DEF RegistryInv
<1>1. /\ g_lmk_logger_list' = {}
      /\ g_lmk_handler_list' = {}
      /\ handlerName' = [h \in Handlers |-> IF h \in g_lmk_handler_list THEN NoName ELSE handlerName[h]]
      /\ loggerName' = [l \in Loggers |-> IF l \in g_lmk_logger_list THEN NoName ELSE loggerName[l]]
      /\ Alone /\ UNCHANGED call
  BY DEF LmkDestroy
<1>2. ListInv'
  BY <1>1 DEF ListInv, AllocatedLogger, AllocatedHandler
<1>3. UniqueNames'
  BY <1>1 DEF UniqueNames
<1>4. RegisterInv' /\ WalkInv'
  BY <1>1, AloneCalls
<1>5. CountInv'
  BY <1>1 DEF CountInv
<1> QED BY <1>2, <1>3, <1>4, <1>5

(* Unsettle changes nothing but the history bit of the log calls. *)
LEMMA UnsettledCalls ==
  ASSUME RegistryTypeOK, Unsettle, NEW u \in Threads
  PROVE  /\ call'[u].pc = call[u].pc
         /\ Registering(u)' <=> Registering(u)
         /\ Registering(u) => call'[u] = call[u]
         /\ Missing(u)' = Missing(u)
         /\ Logging(u)' <=> Logging(u)
         /\ Logging(u) => ~call'[u].stable /\ call'[u].logger = call[u].logger
         /\ call[u].pc = "walk" => call'[u].todo = call[u].todo
<1>1. CASE Logging(u)
  <2>1. call'[u] = [call[u] EXCEPT !.stable = FALSE]
    BY <1>1 DEF Unsettle
  <2>2. call[u] \in Enabled \cup Walk
    BY <1>1, CallShape DEF Logging
  <2>3. CASE call[u] \in Enabled
    BY <2>1, <2>3 DEF Enabled, Registering, Logging, Missing
  <2>4. CASE call[u] \in Walk
    BY <2>1, <2>4 DEF Walk, Registering, Logging, Missing
  <2> QED BY <2>2, <2>3, <2>4
<1>2. CASE ~Logging(u)
  <2>1. call'[u] = call[u]
    BY <1>2 DEF Unsettle
  <2> QED BY <1>2, <2>1 DEF Registering, Logging, Missing
<1> QED BY <1>1, <1>2

LEMMA SetLevelInv ==
  ASSUME RegistryInv, LmkInit, Unsettle,
         UNCHANGED <<loggerName, refs, handlerName, nr_logger_ref>>
  PROVE  (ListInv /\ UniqueNames /\ RegisterInv /\ CountInv /\ WalkInv)'
<1> USE DEF RegistryInv
<1>1. g_lmk_initialized' /\ UNCHANGED <<g_lmk_logger_list, g_lmk_handler_list>>
  BY InitKeeps DEF LmkInit
<1>2. ListInv' /\ UniqueNames'
  BY <1>1 DEF ListInv, UniqueNames, AllocatedLogger, AllocatedHandler
<1>3. RegisterInv'
  BY UnsettledCalls DEF RegisterInv
<1>4. CountInv'
  <2>1. \A h : Referrers(h)' = Referrers(h)
    BY <1>1 DEF Referrers
  <2> QED BY <1>1, <2>1, UnsettledCalls DEF CountInv
<1>5. WalkInv'
  <2> SUFFICES ASSUME NEW u \in Threads, Logging(u)'
               PROVE  /\ call'[u].logger \in g_lmk_logger_list'
                      /\ \A x \in Threads : Registering(x)' => call'[x].logger # call'[u].logger
                      /\ call'[u].stable => call'[u].level >= loggerLevel'[call'[u].logger]
                      /\ call'[u].pc = "walk" =>
                           /\ call'[u].todo \subseteq refs'[call'[u].logger]
                           /\ call'[u].stable => call'[u].reached =
                                {g \in refs'[call'[u].logger] \ call'[u].todo :
                                   call'[u].level >= handlerLevel'[g]}
    BY DEF WalkInv
  <2> QED BY <1>1, UnsettledCalls DEF WalkInv
<1> QED BY <1>2, <1>3, <1>4, <1>5

LEMMA LogCommonInv ==
  ASSUME RegistryInv, NEW t \in Threads, NEW l \in Loggers, NEW v \in Levels, LogCommon(t, l, v)
  PROVE  (ListInv /\ UniqueNames /\ RegisterInv /\ CountInv /\ WalkInv)'
<1> USE DEF RegistryInv
<1>1. /\ g_lmk_initialized' /\ UNCHANGED <<g_lmk_logger_list, g_lmk_handler_list>>
      /\ UNCHANGED <<loggerVars, handlerVars>>
      /\ l \in g_lmk_logger_list
      /\ v >= loggerLevel[l]
  BY InitKeeps DEF LogCommon, LmkInit, ListInv
<1>2. /\ call'[t] = [pc |-> "enabled", logger |-> l, level |-> v, stable |-> TRUE]
      /\ \A u \in Threads : u # t => call'[u] = call[u]
  BY DEF LogCommon, RegistryTypeOK
<1>3. Idle(t) /\ \A u \in Threads : Registering(u) => call[u].logger # l
  BY DEF LogCommon, MayLog
<1>4. \A u \in Threads : /\ Registering(u)' <=> Registering(u)
                         /\ Registering(u) => call'[u] = call[u] /\ Missing(u)' = Missing(u)
                         /\ Logging(u)' /\ u # t => Logging(u)
  BY <1>2, <1>3 DEF Registering, Logging, Idle, Missing
<1>5. ListInv' /\ UniqueNames'
  BY <1>1 DEF ListInv, UniqueNames, AllocatedLogger, AllocatedHandler, loggerVars, handlerVars
<1>6. RegisterInv'
  BY <1>1, <1>4 DEF RegisterInv, handlerVars
<1>7. CountInv'
  <2>1. \A h : Referrers(h)' = Referrers(h)
    BY <1>1 DEF Referrers, loggerVars
  <2> QED BY <1>1, <1>4, <2>1 DEF CountInv, handlerVars
<1>8. WalkInv'
  <2> SUFFICES ASSUME NEW u \in Threads, Logging(u)'
               PROVE  /\ call'[u].logger \in g_lmk_logger_list'
                      /\ \A x \in Threads : Registering(x)' => call'[x].logger # call'[u].logger
                      /\ call'[u].stable => call'[u].level >= loggerLevel'[call'[u].logger]
                      /\ call'[u].pc = "walk" =>
                           /\ call'[u].todo \subseteq refs'[call'[u].logger]
                           /\ call'[u].stable => call'[u].reached =
                                {g \in refs'[call'[u].logger] \ call'[u].todo :
                                   call'[u].level >= handlerLevel'[g]}
    BY DEF WalkInv
  <2>1. CASE u = t
    BY <1>1, <1>2, <1>3, <1>4, <2>1 DEF loggerVars
  <2>2. CASE u # t
    BY <1>1, <1>2, <1>4, <2>2 DEF WalkInv, loggerVars, handlerVars
  <2> QED BY <2>1, <2>2
<1> QED BY <1>5, <1>6, <1>7, <1>8

(* What the steps of a log call keep: everything but its own locals. *)
LEMMA LogStepInv ==
  ASSUME RegistryInv, NEW t \in Threads, Logging(t), ~Registering(t)',
         UNCHANGED <<lists, loggerVars, handlerVars>>,
         \A u \in Threads : u # t => call'[u] = call[u]
  PROVE  /\ (ListInv /\ UniqueNames /\ RegisterInv /\ CountInv)'
         /\ \A u \in Threads : Registering(u)' => Registering(u) /\ call'[u] = call[u]
<1> USE DEF RegistryInv
<1>1. \A u \in Threads : /\ Registering(u)' <=> Registering(u)
                         /\ Registering(u) => call'[u] = call[u] /\ Missing(u)' = Missing(u)
  BY DEF Registering, Logging, Missing
<1>2. ListInv' /\ UniqueNames'
  BY DEF ListInv, UniqueNames, AllocatedLogger, AllocatedHandler, lists, loggerVars, handlerVars
<1>3. RegisterInv'
  BY <1>1 DEF RegisterInv, handlerVars
<1>4. CountInv'
  <2>1. \A h : Referrers(h)' = Referrers(h)
    BY DEF Referrers, lists, loggerVars
  <2> QED BY <1>1, <2>1 DEF CountInv, lists, handlerVars
<1> QED BY <1>1, <1>2, <1>3, <1>4

LEMMA LogImplInv ==
  ASSUME RegistryInv, NEW t \in Threads, LogImpl(t)
  PROVE  (ListInv /\ UniqueNames /\ RegisterInv /\ CountInv /\ WalkInv)'
<1> USE DEF RegistryInv
<1> DEFINE w == [pc |-> "walk", logger |-> call[t].logger, level |-> call[t].level,
                 stable |-> call[t].stable, todo |-> refs[call[t].logger], reached |-> {}]
<1>1. /\ call'[t] = NoCall \/ call'[t] = w
      /\ \A u \in Threads : u # t => call'[u] = call[u]
      /\ Logging(t)
      /\ UNCHANGED <<lists, loggerVars, handlerVars>>
  BY DEF LogImpl, RegistryTypeOK, Logging
<1>2. ~Registering(t)'
  BY <1>1 DEF Registering, NoCall
<1>3. /\ (ListInv /\ UniqueNames /\ RegisterInv /\ CountInv)'
      /\ \A u \in Threads : Registering(u)' => Registering(u) /\ call'[u] = call[u]
  BY <1>1, <1>2, LogStepInv
<1>4. WalkInv'
  <2> SUFFICES ASSUME NEW u \in Threads, Logging(u)'
               PROVE  /\ call'[u].logger \in g_lmk_logger_list'
                      /\ \A x \in Threads : Registering(x)' => call'[x].logger # call'[u].logger
                      /\ call'[u].stable => call'[u].level >= loggerLevel'[call'[u].logger]
                      /\ call'[u].pc = "walk" =>
                           /\ call'[u].todo \subseteq refs'[call'[u].logger]
                           /\ call'[u].stable => call'[u].reached =
                                {g \in refs'[call'[u].logger] \ call'[u].todo :
                                   call'[u].level >= handlerLevel'[g]}
    BY DEF WalkInv
  <2>1. CASE u = t
    <3>1. call'[t] = w
      BY <1>1, <2>1 DEF NoCall, Logging
    <3> QED BY <1>1, <1>3, <2>1, <3>1 DEF WalkInv, lists, loggerVars, handlerVars
  <2>2. CASE u # t
    <3>1. Logging(u) /\ call'[u] = call[u]
      BY <1>1, <2>2 DEF Logging
    <3> QED BY <1>1, <1>3, <3>1 DEF WalkInv, lists, loggerVars, handlerVars
  <2> QED BY <2>1, <2>2
<1> QED BY <1>3, <1>4

LEMMA LogForwardInv ==
  ASSUME RegistryInv, NEW t \in Threads, LogForward(t)
  PROVE  (ListInv /\ UniqueNames /\ RegisterInv /\ CountInv /\ WalkInv)'
<1> USE DEF RegistryInv
<1>0. PICK h \in call[t].todo : call' = [call EXCEPT ![t] = Visit(call[t], h)]
  BY DEF LogForward
<1>1. /\ call'[t] = Visit(call[t], h)
      /\ \A u \in Threads : u # t => call'[u] = call[u]
      /\ Logging(t) /\ call[t].pc = "walk" /\ call[t] \in Walk
      /\ UNCHANGED <<lists, loggerVars, handlerVars>>
  BY <1>0, CallShape DEF LogForward, RegistryTypeOK, Logging
<1>2. /\ call'[t].pc = "walk" /\ call'[t].logger = call[t].logger
      /\ call'[t].level = call[t].level /\ call'[t].stable = call[t].stable
      /\ call'[t].todo = call[t].todo \ {h}
      /\ call'[t].reached = IF call[t].level >= handlerLevel[h] THEN call[t].reached \cup {h}
                            ELSE call[t].reached
  BY <1>1 DEF Visit, Walk
<1>3. ~Registering(t)'
  BY <1>2 DEF Registering
<1>4. /\ (ListInv /\ UniqueNames /\ RegisterInv /\ CountInv)'
      /\ \A u \in Threads : Registering(u)' => Registering(u) /\ call'[u] = call[u]
  BY <1>1, <1>3, LogStepInv
<1>5. WalkInv'
  <2> SUFFICES ASSUME NEW u \in Threads, Logging(u)'
               PROVE  /\ call'[u].logger \in g_lmk_logger_list'
                      /\ \A x \in Threads : Registering(x)' => call'[x].logger # call'[u].logger
                      /\ call'[u].stable => call'[u].level >= loggerLevel'[call'[u].logger]
                      /\ call'[u].pc = "walk" =>
                           /\ call'[u].todo \subseteq refs'[call'[u].logger]
                           /\ call'[u].stable => call'[u].reached =
                                {g \in refs'[call'[u].logger] \ call'[u].todo :
                                   call'[u].level >= handlerLevel'[g]}
    BY DEF WalkInv
  <2>1. CASE u = t
    <3>1. /\ call[t].logger \in g_lmk_logger_list
          /\ \A x \in Threads : Registering(x) => call[x].logger # call[t].logger
          /\ call[t].stable => call[t].level >= loggerLevel[call[t].logger]
          /\ call[t].todo \subseteq refs[call[t].logger]
          /\ call[t].stable => call[t].reached =
               {g \in refs[call[t].logger] \ call[t].todo : call[t].level >= handlerLevel[g]}
      BY <1>1 DEF WalkInv
    <3> QED BY <1>1, <1>2, <1>4, <2>1, <3>1 DEF lists, loggerVars, handlerVars
  <2>2. CASE u # t
    <3>1. Logging(u) /\ call'[u] = call[u]
      BY <1>1, <2>2 DEF Logging
    <3> QED BY <1>1, <1>4, <3>1 DEF WalkInv, lists, loggerVars, handlerVars
  <2> QED BY <2>1, <2>2
<1> QED BY <1>4, <1>5

LEMMA LogReturnInv ==
  ASSUME RegistryInv, NEW t \in Threads, LogReturn(t)
  PROVE  (ListInv /\ UniqueNames /\ RegisterInv /\ CountInv /\ WalkInv)'
<1> USE DEF RegistryInv
<1>1. /\ call'[t] = NoCall
      /\ \A u \in Threads : u # t => call'[u] = call[u]
      /\ Logging(t)
      /\ UNCHANGED <<lists, loggerVars, handlerVars>>
  BY DEF LogReturn, RegistryTypeOK, Logging
<1>2. ~Registering(t)' /\ ~Logging(t)'
  BY <1>1 DEF Registering, Logging, NoCall
<1>3. /\ (ListInv /\ UniqueNames /\ RegisterInv /\ CountInv)'
      /\ \A u \in Threads : Registering(u)' => Registering(u) /\ call'[u] = call[u]
  BY <1>1, <1>2, LogStepInv
<1>4. WalkInv'
  <2> SUFFICES ASSUME NEW u \in Threads, Logging(u)'
               PROVE  /\ call'[u].logger \in g_lmk_logger_list'
                      /\ \A x \in Threads : Registering(x)' => call'[x].logger # call'[u].logger
                      /\ call'[u].stable => call'[u].level >= loggerLevel'[call'[u].logger]
                      /\ call'[u].pc = "walk" =>
                           /\ call'[u].todo \subseteq refs'[call'[u].logger]
                           /\ call'[u].stable => call'[u].reached =
                                {g \in refs'[call'[u].logger] \ call'[u].todo :
                                   call'[u].level >= handlerLevel'[g]}
    BY DEF WalkInv
  <2>1. Logging(u) /\ call'[u] = call[u]
    BY <1>1, <1>2 DEF Logging
  <2> QED BY <1>1, <1>3, <2>1 DEF WalkInv, lists, loggerVars, handlerVars
<1> QED BY <1>3, <1>4

----------------------------------------------------------------------------
LEMMA InvStep ==
  ASSUME ~ConcurrentAttach
  PROVE  RegistryInv /\ [RegistryNext]_vars => RegistryInv'
<1> SUFFICES ASSUME RegistryInv, [RegistryNext]_vars PROVE RegistryInv'
  OBVIOUS
<1> DEFINE Rest == ListInv /\ UniqueNames /\ RegisterInv /\ CountInv /\ WalkInv
<1>1. RegistryTypeOK'
  BY TypeStep DEF RegistryInv
<1>2. ASSUME InitOnly PROVE Rest'
  BY <1>2, InitOnlyInv
<1>3. ASSUME NEW n \in LoggerNames, GetLogger(n) PROVE Rest'
  BY <1>3, GetLoggerInv
<1>4. ASSUME NEW n \in HandlerNames, GetLogHandler(n) PROVE Rest'
  BY <1>4, GetLogHandlerInv
<1>5. ASSUME NEW t \in Threads, NEW l \in Loggers, NEW h \in Handlers,
             Attach(t, l, h) \/ Detach(t, l, h)
      PROVE  Rest'
  BY <1>5, AttachInv, DetachInv
<1>6. ASSUME NEW t \in Threads, LoadCount(t) \/ StoreCount(t) PROVE Rest'
  BY <1>6, LoadCountInv, StoreCountInv
<1>7. ASSUME NEW l \in Loggers, DestroyLogger(l) PROVE Rest'
  BY <1>7, DestroyLoggerInv
<1>8. ASSUME NEW h \in Handlers, DestroyLogHandler(h) PROVE Rest'
  BY <1>8, DestroyLogHandlerInv
<1>9. ASSUME LmkDestroy PROVE Rest'
  BY <1>9, LmkDestroyInv
<1>10. ASSUME NEW l \in Loggers, NEW v \in Levels, SetLogLevel(l, v) PROVE Rest'
  BY <1>10, SetLevelInv DEF SetLogLevel, handlerVars
<1>11. ASSUME NEW h \in Handlers, NEW v \in Levels, SetHandlerLogLevel(h, v) PROVE Rest'
  BY <1>11, SetLevelInv DEF SetHandlerLogLevel, loggerVars
<1>12. ASSUME NEW t \in Threads, NEW l \in Loggers, NEW v \in Levels, LogCommon(t, l, v)
       PROVE  Rest'
  BY <1>12, LogCommonInv
<1>13. ASSUME NEW t \in Threads, LogImpl(t) \/ LogForward(t) \/ LogReturn(t) PROVE Rest'
  BY <1>13, LogImplInv, LogForwardInv, LogReturnInv
<1>14. ASSUME UNCHANGED vars PROVE Rest'
  <2> USE <1>14 DEF vars, lists, loggerVars, handlerVars
  <2>1. ListInv' /\ UniqueNames'
    BY DEF RegistryInv, ListInv, UniqueNames, AllocatedLogger, AllocatedHandler
  <2>2. RegisterInv' /\ WalkInv'
    BY DEF RegistryInv, RegisterInv, WalkInv, Registering, Logging
  <2>3. CountInv'
    BY DEF RegistryInv, CountInv, Registering, Referrers, Missing
  <2> QED BY <2>1, <2>2, <2>3
<1>15. Rest'
  BY <1>2, <1>3, <1>4, <1>5, <1>6, <1>7, <1>8, <1>9, <1>10, <1>11, <1>12, <1>13, <1>14
  DEF RegistryNext
<1> QED BY <1>1, <1>15 DEF RegistryInv

(* The lists, the references, the counts and the walks of log calls agree, for
   any number of threads, loggers and handlers, when one thread at a time
   attaches and detaches. *)
THEOREM RegistryInvariant ==
  ASSUME ~ConcurrentAttach
  PROVE  RegistrySpec => []RegistryInv
<1>1. RegistryInv /\ [RegistryNext]_vars => RegistryInv'
  BY InvStep
<1> QED BY InvInit, <1>1, PTL DEF RegistrySpec

(* nr_logger_ref is the number of loggers that reference the handler, whenever
   no attach or detach of that handler is under way. *)
THEOREM CountIsExact ==
  ASSUME ~ConcurrentAttach
  PROVE  RegistrySpec => []RefCountExact
<1>1. RegistryInv => RefCountExact
  BY DEF RegistryInv, ListInv, CountInv, RefCountExact
<1> QED BY <1>1, RegistryInvariant, PTL

(* No logger on the list, and no log call in flight, references a handler that
   lmk_destroy_log_handler has freed. *)
THEOREM NeverDangling ==
  ASSUME ~ConcurrentAttach
  PROVE  RegistrySpec => []NoDanglingRef
<1>1. RegistryInv => NoDanglingRef
  <2> SUFFICES ASSUME RegistryInv PROVE NoDanglingRef
    OBVIOUS
  <2>1. \A l \in g_lmk_logger_list : \A h \in refs[l] :
          AllocatedHandler(h) /\ h \in g_lmk_handler_list
    BY DEF RegistryInv, RegistryTypeOK, ListInv
  <2>2. ASSUME NEW t \in Threads, call[t].pc = "walk", NEW h \in call[t].todo
        PROVE  AllocatedHandler(h) /\ h \in g_lmk_handler_list
    BY <2>1, <2>2 DEF RegistryInv, WalkInv, Logging
  <2> QED BY <2>1, <2>2 DEF NoDanglingRef
<1> QED BY <1>1, RegistryInvariant, PTL

(* There is one logger and one handler per name, and what is allocated is on
   its list, so that lmk_destroy leaves neither a logger nor a handler. *)
THEOREM NothingLeaks ==
  ASSUME ~ConcurrentAttach
  PROVE  RegistrySpec => [](UniqueNames /\ NothingLeftBehind)
<1>1. RegistryInv => UniqueNames /\ NothingLeftBehind
  <2> SUFFICES ASSUME RegistryInv PROVE UniqueNames /\ NothingLeftBehind
    OBVIOUS
  <2>1. InitLoggers = g_lmk_logger_list /\ InitHandlers = g_lmk_handler_list
    BY InitKeeps DEF RegistryInv
  <2> QED BY <2>1 DEF RegistryInv, RegistryTypeOK, ListInv, NothingLeftBehind
<1> QED BY <1>1, RegistryInvariant, PTL

(* lmk_destroy never loops over a handler that it cannot free, whatever was
   attached, detached and destroyed before: describing the call by its return, as
   LmkDestroy does, leaves out no behaviour of it. *)
THEOREM DestroyReturns ==
  ASSUME ~ConcurrentAttach
  PROVE  RegistrySpec => [](g_lmk_initialized /\ Alone => HandlerLoopEnds)
<1>1. RegistryInv => (g_lmk_initialized /\ Alone => HandlerLoopEnds)
  BY LoopEnds
<1> QED BY <1>1, RegistryInvariant, PTL

(* A log call under which no level changes gives its record to exactly the
   handlers whose level admits it. *)
THEOREM RoutingIsExact ==
  ASSUME ~ConcurrentAttach
  PROVE  RegistrySpec => []RoutingExact
<1>1. RegistryInv => RoutingExact
  BY DEF RegistryInv, WalkInv, Logging, RoutingExact
<1> QED BY <1>1, RegistryInvariant, PTL
============================================================================
