---------------------------- MODULE SyslogProof ----------------------------
(* Proofs about SyslogHandler, for any number of handlers. *)
EXTENDS SyslogHandler, TLAPS

(* closelog leaves no ident behind, and no handler alone but the one it is called for. *)
LEMMA CloselogInv ==
  ASSUME SyslogTypeOK, NEW h \in Handlers, Closelog(h)
  PROVE  /\ tag' = NoIdent /\ log_facility' = log_facility
         /\ \A g \in Handlers \ {h} : ~sole'[g]
         /\ sole' \in [Handlers -> BOOLEAN]
BY DEF Closelog, SyslogTypeOK

(* Types. *)
LEMMA TypeStep ==
  ASSUME SyslogTypeOK, [SyslogNext]_vars
  PROVE  SyslogTypeOK'
<1> USE SyslogAssumption DEF SyslogTypeOK
<1>1. ASSUME NEW h \in Handlers, NEW i \in Idents \cup {NoIdent}, NEW f \in Facilities, Create(h, i, f)
      PROVE  SyslogTypeOK'
  BY <1>1 DEF Create, Openlog
<1>2. ASSUME NEW h \in Handlers, InitDone(h) PROVE SyslogTypeOK'
  BY <1>2 DEF InitDone, connection
<1>3. ASSUME NEW h \in Handlers, InitFailed(h) \/ DestroyJoin(h) PROVE SyslogTypeOK'
  BY <1>3 DEF InitFailed, DestroyJoin, Closelog, handlerVars
<1>4. ASSUME NEW h \in Handlers, LogImpl(h) \/ Syslog(h) PROVE SyslogTypeOK'
  BY <1>4 DEF LogImpl, Syslog, handlerVars, connection
<1>5. ASSUME NEW h \in Handlers, Check(h) PROVE SyslogTypeOK'
  BY <1>5 DEF Check, handlerVars, connection
<1>6. ASSUME NEW h \in Handlers, DestroyStop(h) PROVE SyslogTypeOK'
  BY <1>6 DEF DestroyStop, connection
<1>7. ASSUME UNCHANGED vars PROVE SyslogTypeOK'
  BY <1>7 DEF vars, handlerVars, connection
<1> QED BY <1>1, <1>2, <1>3, <1>4, <1>5, <1>6, <1>7 DEF SyslogNext

(* Opening a connection: nobody else is there when the new handler is alone, so
   that no ident can be left for openlog to keep. *)
LEMMA CreateInv ==
  ASSUME SyslogInv, NEW h \in Handlers, NEW i \in Idents \cup {NoIdent}, NEW f \in Facilities,
         Create(h, i, f)
  PROVE  TagNeverDangles' /\ SoleInv'
<1> USE SyslogAssumption DEF SyslogInv, SyslogTypeOK
<1>1. /\ pc[h] = "none" /\ pc' = [pc EXCEPT ![h] = "init"]
      /\ ident' = [ident EXCEPT ![h] = i] /\ facility' = [facility EXCEPT ![h] = f]
      /\ tag' = IF i = NoIdent THEN tag ELSE h
      /\ log_facility' = f
      /\ sole' = [g \in Handlers |-> g = h /\ \A k \in Handlers \ {h} : pc[k] = "none"]
  BY DEF Create, Openlog
<1>2. TagNeverDangles'
  BY <1>1 DEF TagNeverDangles
<1>3. ASSUME NEW g \in Handlers, sole'[g], pc'[g] # "none"
      PROVE  /\ \A k \in Handlers \ {g} : pc'[k] = "none"
             /\ Shown' = <<ident'[g], facility'[g]>>
  <2>1. g = h /\ \A k \in Handlers \ {h} : pc[k] = "none"
    BY <1>1, <1>3
  <2>2. tag = NoIdent
    BY <1>1, <2>1 DEF TagNeverDangles
  <2>3. \A k \in Handlers \ {g} : pc'[k] = "none"
    BY <1>1, <2>1
  <2>4. CASE i = NoIdent
    BY <1>1, <2>1, <2>2, <2>4 DEF Shown
  <2>5. CASE i # NoIdent
    BY <1>1, <2>1, <2>5 DEF Shown
  <2> QED BY <2>3, <2>4, <2>5
<1> QED BY <1>2, <1>3 DEF SoleInv

LEMMA InvStep ==
  ASSUME SyslogInv, [SyslogNext]_vars
  PROVE  SyslogInv'
<1> USE SyslogAssumption DEF SyslogInv
<1>1. SyslogTypeOK'
  BY TypeStep
<1>2. ASSUME NEW h \in Handlers, InitFailed(h) \/ DestroyJoin(h)
      PROVE  TagNeverDangles' /\ SoleInv'
  <2>1. Closelog(h) /\ pc' = [pc EXCEPT ![h] = "none"]
    BY <1>2 DEF InitFailed, DestroyJoin
  <2>2. tag' = NoIdent /\ pc'[h] = "none" /\ \A g \in Handlers \ {h} : ~sole'[g]
    BY <2>1, CloselogInv DEF SyslogTypeOK
  <2> QED BY <2>2 DEF TagNeverDangles, SoleInv
<1>3. ASSUME NEW h \in Handlers, InitDone(h) \/ Check(h)
      PROVE  TagNeverDangles' /\ SoleInv'
  <2>1. /\ UNCHANGED <<tag, log_facility, sole, ident, facility>>
        /\ \A k \in Handlers : pc'[k] = "none" <=> pc[k] = "none"
    BY <1>3 DEF InitDone, Check, connection, handlerVars, SyslogTypeOK
  <2> QED BY <2>1 DEF TagNeverDangles, SoleInv, Shown, SyslogTypeOK
<1>4. ASSUME NEW h \in Handlers, LogImpl(h) \/ Syslog(h) \/ DestroyStop(h)
      PROVE  TagNeverDangles' /\ SoleInv'
  <2>1. UNCHANGED <<pc, tag, log_facility, sole, ident, facility>>
    BY <1>4 DEF LogImpl, Syslog, DestroyStop, connection, handlerVars
  <2> QED BY <2>1 DEF TagNeverDangles, SoleInv, Shown
<1>5. ASSUME UNCHANGED vars PROVE TagNeverDangles' /\ SoleInv'
  BY <1>5 DEF vars, handlerVars, connection, TagNeverDangles, SoleInv, Shown
<1> QED BY <1>1, <1>2, <1>3, <1>4, <1>5, CreateInv DEF SyslogNext

(* The handlers and the process-wide connection agree, for any number of syslog
   handlers created, failing to start and destroyed. *)
THEOREM SyslogInvariant == SyslogSpec => []SyslogInv
<1>1. SyslogInit => SyslogInv
  BY SyslogAssumption
  DEF SyslogInit, SyslogInv, SyslogTypeOK, TagNeverDangles, SoleInv
<1>2. SyslogInv /\ [SyslogNext]_vars => SyslogInv'
  BY InvStep
<1> QED BY <1>1, <1>2, PTL DEF SyslogSpec

(* The C library never shows the ident of a freed handler. *)
THEOREM TagIsValid == SyslogSpec => []TagNeverDangles
<1>1. SyslogInv => TagNeverDangles
  BY DEF SyslogInv
<1> QED BY <1>1, SyslogInvariant, PTL

(* A syslog handler that has the process to itself logs every record under its
   own ident and facility, those drained during its destruction too: the thread
   that logs has a handler that is not freed, and closelog comes with the free. *)
THEOREM SoleIsItself == SyslogSpec => SoleIdentity
<1>1. SyslogInv /\ [SyslogNext]_vars =>
        [\A h \in Handlers : Syslog(h) /\ sole[h] => Shown = <<ident[h], facility[h]>>]_vars
  BY DEF SyslogInv, SoleInv, Syslog
<1> QED BY <1>1, SyslogInvariant, PTL DEF SyslogSpec, SoleIdentity
============================================================================
