--------------------------- MODULE SyslogHandler ---------------------------
(***************************************************************************)
(* The syslog handlers (src/src/main/logmoko_syslog_log_handler.c).  Each  *)
(* has a ring and a thread of its own, but the connection they write to,   *)
(* with its ident and facility, belongs to the process: openlog keeps a    *)
(* pointer to the ident inside the handler, and closelog drops it.         *)
(*                                                                         *)
(* The rings are bounded queues, of which only the lengths matter here;    *)
(* the sleep of a thread (module LogHandler) is left out.  As the user     *)
(* guide asks, calls that create or destroy handlers run alone.            *)
(***************************************************************************)
EXTENDS Integers

CONSTANTS
  Handlers,      \* addresses of struct lmk_syslog_log_handler
  Idents,        \* the idents clients pass
  NoIdent,       \* no ident: syslog shows the name of the program
  Facilities,
  RingSize

ASSUME SyslogAssumption == NoIdent \notin Idents \cup Handlers /\ RingSize \in Nat

VARIABLES
  pc,            \* per handler: "none" when there is none, else where its thread is
  running,
  queued,        \* the length of its ring
  ident, facility,
  tag,           \* the C library's: the handler whose ident is shown, or NoIdent
  log_facility,  \* the C library's: the facility of records
  sole           \* history: this handler opened the connection when there was no
                 \* other, and no other has opened or closed it since

handlerVars == <<running, ident, facility>>
connection == <<tag, log_facility, sole>>
vars == <<pc, queued, handlerVars, connection>>

SyslogTypeOK ==
  /\ pc \in [Handlers -> {"none", "init", "drain", "check", "exited"}]
  /\ running \in [Handlers -> BOOLEAN]
  /\ queued \in [Handlers -> 0 .. RingSize]
  /\ ident \in [Handlers -> Idents \cup {NoIdent}]
  /\ facility \in [Handlers -> Facilities]
  /\ tag \in Handlers \cup {NoIdent}
  /\ log_facility \in Facilities
  /\ sole \in [Handlers -> BOOLEAN]

SyslogInit ==
  /\ pc = [h \in Handlers |-> "none"]
  /\ running = [h \in Handlers |-> FALSE]
  /\ queued = [h \in Handlers |-> 0]
  /\ ident = [h \in Handlers |-> NoIdent]
  /\ facility \in [Handlers -> Facilities]
  /\ tag = NoIdent
  /\ log_facility \in Facilities
  /\ sole = [h \in Handlers |-> FALSE]

(* Nobody is creating or destroying a handler. *)
Settled == \A h \in Handlers : pc[h] = "none" \/ (pc[h] # "init" /\ running[h])

----------------------------------------------------------------------------
(* openlog without an ident leaves the ident as it is. *)
Openlog(h, i, f) ==
  /\ tag' = IF i = NoIdent THEN tag ELSE h
  /\ log_facility' = f
  /\ sole' = [g \in Handlers |-> g = h /\ \A k \in Handlers \ {h} : pc[k] = "none"]

(* closelog, called for handler h. *)
Closelog(h) ==
  /\ tag' = NoIdent
  /\ sole' = [g \in Handlers |-> g = h /\ sole[h]]
  /\ UNCHANGED log_facility

(* lmk_get_syslog_log_handler, and lmk_syslog_log_handler_init up to openlog. *)
Create(h, i, f) ==
  /\ Settled
  /\ pc[h] = "none"
  /\ pc' = [pc EXCEPT ![h] = "init"]
  /\ ident' = [ident EXCEPT ![h] = i]
  /\ facility' = [facility EXCEPT ![h] = f]
  /\ Openlog(h, i, f)
  /\ UNCHANGED <<running, queued>>

InitDone(h) ==
  /\ pc[h] = "init"
  /\ pc' = [pc EXCEPT ![h] = "drain"]
  /\ running' = [running EXCEPT ![h] = TRUE]
  /\ queued' = [queued EXCEPT ![h] = 0]
  /\ UNCHANGED <<ident, facility, connection>>

(* Mutant of InitFailed: closelog is missing on the error path. *)
InitFailedOpen(h) ==
  /\ pc[h] = "init"
  /\ pc' = [pc EXCEPT ![h] = "none"]
  /\ UNCHANGED <<handlerVars, queued, connection>>

(* No memory for the ring, or no thread: the factory frees the handler. *)
InitFailed(h) ==
  /\ pc[h] = "init"
  /\ pc' = [pc EXCEPT ![h] = "none"]
  /\ Closelog(h)
  /\ UNCHANGED <<handlerVars, queued>>

(* lmk_syslog_log_handler_log_impl *)
LogImpl(h) ==
  /\ pc[h] # "none" /\ running[h]
  /\ queued[h] < RingSize
  /\ queued' = [queued EXCEPT ![h] = @ + 1]
  /\ UNCHANGED <<pc, handlerVars, connection>>

(* lmk_syslog_log_handler_thread_routine: a record goes out under the ident and
   the facility of the connection. *)
Syslog(h) ==
  /\ pc[h] = "drain" /\ queued[h] > 0
  /\ queued' = [queued EXCEPT ![h] = @ - 1]
  /\ UNCHANGED <<pc, handlerVars, connection>>

Check(h) ==
  /\ \/ pc[h] = "drain" /\ queued[h] = 0 /\ pc' = [pc EXCEPT ![h] = "check"]
     \/ pc[h] = "check" /\ pc' = [pc EXCEPT ![h] = IF running[h] THEN "drain" ELSE "exited"]
  /\ UNCHANGED <<handlerVars, queued, connection>>

(* Mutant of DestroyStop: the connection is closed before the thread is joined. *)
DestroyStopClosing(h) ==
  /\ Settled
  /\ pc[h] # "none"
  /\ running' = [running EXCEPT ![h] = FALSE]
  /\ Closelog(h)
  /\ UNCHANGED <<pc, ident, facility, queued>>

(* lmk_syslog_log_handler_destroy; lmk_destroy_log_handler then frees the
   handler, and the ident in it. *)
DestroyStop(h) ==
  /\ Settled
  /\ pc[h] # "none"
  /\ running' = [running EXCEPT ![h] = FALSE]
  /\ UNCHANGED <<pc, ident, facility, queued, connection>>

DestroyJoin(h) ==
  /\ pc[h] = "exited"
  /\ pc' = [pc EXCEPT ![h] = "none"]
  /\ Closelog(h)
  /\ UNCHANGED <<handlerVars, queued>>

SyslogNext ==
  \E h \in Handlers :
    \/ \E i \in Idents \cup {NoIdent}, f \in Facilities : Create(h, i, f)
    \/ InitDone(h) \/ InitFailed(h)
    \/ LogImpl(h) \/ Syslog(h) \/ Check(h)
    \/ DestroyStop(h) \/ DestroyJoin(h)

SyslogSpec == SyslogInit /\ [][SyslogNext]_vars

----------------------------------------------------------------------------
(* The C library never shows an ident inside a handler that was freed, however
   handlers are created, fail to start and are destroyed beside each other. *)
TagNeverDangles == tag # NoIdent => pc[tag] # "none"

Shown == <<IF tag = NoIdent THEN NoIdent ELSE ident[tag], log_facility>>

(* A syslog handler that has the process to itself logs under its own ident and
   facility, whatever handlers came before it, down to the last record its thread
   drains while it is destroyed: its own closelog comes after the join. *)
SoleIdentity ==
  [][\A h \in Handlers : Syslog(h) /\ sole[h] => Shown = <<ident[h], facility[h]>>]_vars

----------------------------------------------------------------------------
(* The inductive invariant: until it is freed a sole handler is the only one, and
   the connection it opened is still open. *)
SoleInv ==
  \A h \in Handlers : sole[h] /\ pc[h] # "none" =>
    /\ \A k \in Handlers \ {h} : pc[k] = "none"
    /\ Shown = <<ident[h], facility[h]>>

SyslogInv == SyslogTypeOK /\ TagNeverDangles /\ SoleInv
============================================================================
