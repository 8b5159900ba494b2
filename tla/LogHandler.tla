----------------------------- MODULE LogHandler ----------------------------
(***************************************************************************)
(* A log handler: the ring, the consumer thread that drains it and sleeps  *)
(* on a condition variable, the producers that wake it, and the thread     *)
(* that destroys the handler.  The four handlers (console, file, socket,   *)
(* syslog) have the same steps around different outputs; the lines mapped  *)
(* are those of the console handler                                        *)
(* (src/src/main/logmoko_console_log_handler.c), whose output is a stdio   *)
(* stream flushed whenever the ring runs empty.  (What the file handler    *)
(* does there instead is in module FileHandler; the others do nothing.)    *)
(*                                                                         *)
(* What the client promises: a handler is destroyed only when no log call  *)
(* on it is in progress (destroy frees the ring).  A call that begins      *)
(* later, before the memory is freed, sees running = 0 and returns.        *)
(***************************************************************************)
EXTENDS Ring, FiniteSets

VARIABLES
  running,       \* cleared by destroy
  sleeping,      \* set while the consumer is about to wait or waits
  wakeup_lock,   \* the thread that holds the mutex, or "free"
  consumer,      \* where the consumer thread is
  flushed,       \* how many written requests have left the stdio buffer
  waker,         \* where each producer is after lmk_ring_enqueue returned
  dropped,       \* counter of refused requests
  nr_log_calls,  \* counter of accepted requests
  ignored,       \* history: each producer's calls that found running = 0
  destroyer      \* where the thread that destroys the handler is

wakeVars == <<sleeping, wakeup_lock, consumer>>
countVars == <<dropped, nr_log_calls, ignored>>
vars == <<ringVars, running, wakeVars, flushed, waker, countVars, destroyer>>

ASSUME ThreadsAssumption == {"free", "consumer", "destroyer"} \cap Producers = {}

ConsumerState ==
  {"peek", "flush", "running", "lock", "sleep", "recheck", "recheck_running",
   "cond_wait", "waiting", "signalled", "awake", "unlock", "exited"}
WakerState == {"none", "sleeping", "lock", "signal", "unlock"}
DestroyerState == {"none", "lock", "broadcast", "unlock", "join", "free", "freed"}

HandlerTypeOK ==
  /\ RingTypeOK
  /\ running \in BOOLEAN
  /\ sleeping \in BOOLEAN
  /\ wakeup_lock \in {"free", "consumer", "destroyer"} \cup Producers
  /\ consumer \in ConsumerState
  /\ flushed \in Nat
  /\ waker \in [Producers -> WakerState]
  /\ dropped \in Nat
  /\ nr_log_calls \in Nat
  /\ ignored \in [Producers -> Nat]
  /\ destroyer \in DestroyerState

Acquire(thread) == wakeup_lock = "free" /\ wakeup_lock' = thread
Release == wakeup_lock' = "free"

(* The producer is outside lmk_console_log_handler_log_impl. *)
Outside(p) == pc[p] = "idle" /\ waker[p] = "none"

----------------------------------------------------------------------------
(* lmk_console_log_handler_init: the state in which the thread starts. *)
HandlerInit ==
  /\ RingInit
  /\ running = TRUE
  /\ sleeping = FALSE
  /\ wakeup_lock = "free"
  /\ consumer = "peek"
  /\ flushed = 0
  /\ waker = [p \in Producers |-> "none"]
  /\ dropped = 0
  /\ nr_log_calls = 0
  /\ ignored = [p \in Producers |-> 0]
  /\ destroyer = "none"

(* A log call finds the handler running and goes to the ring. *)
LogImpl(p) ==
  /\ Outside(p)
  /\ running
  /\ calls[p] + ignored[p] < MaxCalls
  /\ EnqueueCall(p)
  /\ UNCHANGED <<running, wakeVars, flushed, waker, countVars, destroyer>>

(* A log call that begins during shutdown returns at once. *)
LogIgnored(p) ==
  /\ Outside(p)
  /\ ~running
  /\ destroyer # "freed"
  /\ calls[p] + ignored[p] < MaxCalls
  /\ ignored' = [ignored EXCEPT ![p] = @ + 1]
  /\ UNCHANGED <<ringVars, running, wakeVars, flushed, waker, dropped, nr_log_calls, destroyer>>

RingEnqueue(p) ==
  /\ Enqueue(p)
  /\ UNCHANGED <<running, wakeVars, flushed, waker, countVars, destroyer>>

(* Mutant: no return after counting a dropped request. *)
CountDroppedAsLogged(p) ==
  /\ pc[p] = "full"
  /\ EnqueueReturn(p)
  /\ dropped' = dropped + 1
  /\ nr_log_calls' = nr_log_calls + 1
  /\ UNCHANGED <<running, wakeVars, flushed, waker, ignored, destroyer>>

(* lmk_ring_enqueue returned 0. *)
CountDropped(p) ==
  /\ pc[p] = "full"
  /\ EnqueueReturn(p)
  /\ dropped' = dropped + 1
  /\ UNCHANGED <<running, wakeVars, flushed, waker, nr_log_calls, ignored, destroyer>>

(* lmk_ring_enqueue returned 1; lmk_console_maybe_wake comes next. *)
CountLogged(p) ==
  /\ pc[p] = "done"
  /\ EnqueueReturn(p)
  /\ nr_log_calls' = nr_log_calls + 1
  /\ waker' = [waker EXCEPT ![p] = "sleeping"]
  /\ UNCHANGED <<running, wakeVars, flushed, dropped, ignored, destroyer>>

(* The steps of lmk_console_maybe_wake change nothing else. *)
Wake(p, state) ==
  /\ waker' = [waker EXCEPT ![p] = state]
  /\ UNCHANGED <<ringVars, running, sleeping, flushed, countVars, destroyer>>

WakeLoadSleeping(p) ==
  /\ waker[p] = "sleeping"
  /\ Wake(p, IF sleeping THEN "lock" ELSE "none")
  /\ UNCHANGED <<wakeup_lock, consumer>>

(* Mutant: signal without the mutex. *)
WakeWithoutLock(p) ==
  /\ waker[p] = "lock"
  /\ Wake(p, "signal")
  /\ UNCHANGED <<wakeup_lock, consumer>>

WakeLock(p) ==
  /\ waker[p] = "lock"
  /\ Acquire(p)
  /\ Wake(p, "signal")
  /\ UNCHANGED consumer

(* pthread_cond_signal: the consumer is the only thread that ever waits. *)
WakeSignal(p) ==
  /\ waker[p] = "signal"
  /\ consumer' = IF consumer = "waiting" THEN "signalled" ELSE consumer
  /\ Wake(p, "unlock")
  /\ UNCHANGED wakeup_lock

(* Mutant: return with the mutex held. *)
WakeKeepsLock(p) ==
  /\ waker[p] = "unlock"
  /\ Wake(p, "none")
  /\ UNCHANGED <<wakeup_lock, consumer>>

WakeUnlock(p) ==
  /\ waker[p] = "unlock"
  /\ Release
  /\ Wake(p, "none")
  /\ UNCHANGED consumer

MaybeWake(p) == WakeLoadSleeping(p) \/ WakeLock(p) \/ WakeSignal(p) \/ WakeUnlock(p)

----------------------------------------------------------------------------
(* lmk_console_log_handler_thread_routine. *)

(* The inner loop, while lmk_ring_peek_slot returns a slot. *)
ConsumerDrain ==
  /\ consumer = "peek"
  /\ Drain
  /\ UNCHANGED <<running, wakeVars, flushed, waker, countVars, destroyer>>

(* The other steps of the consumer leave ring, counters and producers alone. *)
ConsumerStep(from, to) ==
  /\ consumer = from
  /\ consumer' = to
  /\ UNCHANGED <<ringVars, running, waker, countVars, destroyer>>

ConsumerPeekEmpty ==
  /\ slot = "null" /\ ~Ready
  /\ ConsumerStep("peek", "flush")
  /\ UNCHANGED <<sleeping, wakeup_lock, flushed>>

(* Mutant: nothing is flushed when the ring is empty. *)
ConsumerNoFlush ==
  /\ ConsumerStep("flush", "running")
  /\ UNCHANGED <<sleeping, wakeup_lock, flushed>>

(* fflush(stdout). *)
ConsumerFlush ==
  /\ flushed' = Len(written)
  /\ ConsumerStep("flush", "running")
  /\ UNCHANGED <<sleeping, wakeup_lock>>

ConsumerCheckRunning ==
  /\ ConsumerStep("running", IF running THEN "lock" ELSE "exited")
  /\ UNCHANGED <<sleeping, wakeup_lock, flushed>>

ConsumerLock ==
  /\ Acquire("consumer")
  /\ ConsumerStep("lock", "sleep")
  /\ UNCHANGED <<sleeping, flushed>>

(* Mutant: the consumer does not announce that it sleeps. *)
ConsumerSleepsSecretly ==
  /\ ConsumerStep("sleep", "recheck")
  /\ UNCHANGED <<sleeping, wakeup_lock, flushed>>

ConsumerSetSleeping ==
  /\ sleeping' = TRUE
  /\ ConsumerStep("sleep", "recheck")
  /\ UNCHANGED <<wakeup_lock, flushed>>

(* Mutant: the ring is not looked at again under the mutex. *)
ConsumerWaitsBlindly ==
  /\ ConsumerStep("recheck", "recheck_running")
  /\ UNCHANGED <<sleeping, wakeup_lock, flushed>>

(* The condition of the wait loop: the ring first, then running. *)
ConsumerRecheckRing ==
  /\ ConsumerStep("recheck", IF Ready THEN "awake" ELSE "recheck_running")
  /\ UNCHANGED <<sleeping, wakeup_lock, flushed>>

ConsumerRecheckRunning ==
  /\ ConsumerStep("recheck_running", IF running THEN "cond_wait" ELSE "awake")
  /\ UNCHANGED <<sleeping, wakeup_lock, flushed>>

(* pthread_cond_wait: release the mutex and wait, in one step. *)
ConsumerCondWait ==
  /\ Release
  /\ ConsumerStep("cond_wait", "waiting")
  /\ UNCHANGED <<sleeping, flushed>>

(* A wakeup without a signal, which POSIX allows. *)
ConsumerSpuriousWakeup ==
  /\ ConsumerStep("waiting", "signalled")
  /\ UNCHANGED <<sleeping, wakeup_lock, flushed>>

(* pthread_cond_wait returns holding the mutex again. *)
ConsumerReacquire ==
  /\ Acquire("consumer")
  /\ ConsumerStep("signalled", "recheck")
  /\ UNCHANGED <<sleeping, flushed>>

ConsumerClearSleeping ==
  /\ sleeping' = FALSE
  /\ ConsumerStep("awake", "unlock")
  /\ UNCHANGED <<wakeup_lock, flushed>>

ConsumerUnlock ==
  /\ Release
  /\ ConsumerStep("unlock", "peek")
  /\ UNCHANGED <<sleeping, flushed>>

(* The steps the consumer takes by itself. *)
Consumer ==
  \/ ConsumerDrain \/ ConsumerPeekEmpty \/ ConsumerFlush \/ ConsumerCheckRunning
  \/ ConsumerLock \/ ConsumerSetSleeping \/ ConsumerRecheckRing \/ ConsumerRecheckRunning
  \/ ConsumerCondWait \/ ConsumerReacquire \/ ConsumerClearSleeping \/ ConsumerUnlock

----------------------------------------------------------------------------
(* lmk_console_log_handler_destroy. *)
DestroyStep(from, to) ==
  /\ destroyer = from
  /\ destroyer' = to
  /\ UNCHANGED <<ringVars, sleeping, flushed, waker, countVars>>

DestroyStop ==
  /\ \A p \in Producers : Outside(p)
  /\ running' = FALSE
  /\ DestroyStep("none", "lock")
  /\ UNCHANGED <<wakeup_lock, consumer>>

DestroyLock ==
  /\ Acquire("destroyer")
  /\ DestroyStep("lock", "broadcast")
  /\ UNCHANGED <<running, consumer>>

(* Mutant: running is cleared but nobody is woken. *)
DestroySilently ==
  /\ DestroyStep("broadcast", "unlock")
  /\ UNCHANGED <<running, wakeup_lock, consumer>>

DestroyBroadcast ==
  /\ consumer' = IF consumer = "waiting" THEN "signalled" ELSE consumer
  /\ DestroyStep("broadcast", "unlock")
  /\ UNCHANGED <<running, wakeup_lock>>

DestroyUnlock ==
  /\ Release
  /\ DestroyStep("unlock", "join")
  /\ UNCHANGED <<running, consumer>>

(* Mutant: the thread is detached instead of joined. *)
DestroyDetach ==
  /\ DestroyStep("join", "free")
  /\ UNCHANGED <<running, wakeup_lock, consumer>>

DestroyJoin ==
  /\ consumer = "exited"
  /\ DestroyStep("join", "free")
  /\ UNCHANGED <<running, wakeup_lock, consumer>>

(* The condition variable, the mutex and the ring are given back. *)
DestroyFree ==
  /\ DestroyStep("free", "freed")
  /\ UNCHANGED <<running, wakeup_lock, consumer>>

Destroy == DestroyLock \/ DestroyBroadcast \/ DestroyUnlock \/ DestroyJoin \/ DestroyFree

(* Nothing happens to a handler that is gone. *)
Gone == destroyer = "freed" /\ UNCHANGED vars

----------------------------------------------------------------------------
ProducerStep(p) == RingEnqueue(p) \/ CountDropped(p) \/ CountLogged(p) \/ MaybeWake(p)

HandlerNext ==
  \/ \E p \in Producers : LogImpl(p) \/ LogIgnored(p) \/ ProducerStep(p)
  \/ Consumer
  \/ ConsumerSpuriousWakeup
  \/ DestroyStop
  \/ Destroy
  \/ Gone

HandlerSpec == HandlerInit /\ [][HandlerNext]_vars

(* Threads keep running (weak fairness of each thread's own steps; nobody has
   to log or to destroy), a thread that waits for the mutex gets it if it is
   free again and again, and the weak compare-and-swap does not fail
   spuriously for ever. *)
Fairness ==
  /\ \A p \in Producers :
       /\ WF_vars(ProducerStep(p))
       /\ SF_vars((RingEnqueue(p) /\ EnqueueCas(p)) \/ WakeLock(p))
  /\ WF_vars(Consumer)
  /\ SF_vars(ConsumerLock \/ ConsumerReacquire)
  /\ WF_vars(Destroy)
  /\ SF_vars(DestroyLock)

FairHandlerSpec == HandlerSpec /\ Fairness

----------------------------------------------------------------------------
(* The wakeup is never lost: when the consumer waits although the slot at tail
   is ready, a producer that has yet to signal is on its way; when it waits
   although the handler was stopped, the destroyer is. *)
NoLostWakeup ==
  consumer = "waiting" =>
    /\ Ready => \E p \in Producers : pc[p] = "done" \/ waker[p] \in {"sleeping", "lock", "signal"}
    /\ ~running => destroyer \in {"lock", "broadcast"}

(* A consumer that waits or has exited has flushed everything it wrote: no
   record sits in the stdio buffer of an idle handler, or of one that destroy
   has joined. *)
IdleIsFlushed == consumer \in {"waiting", "exited"} => flushed = Len(written)

(* The counters that destroy prints are exact whenever no call is in
   progress: every call was counted once, as logged or as dropped, but for
   those that came after the stop. *)
CountersExact ==
  (\A p \in Producers : Outside(p)) =>
    /\ nr_log_calls = Len(accepted)
    /\ dropped = Cardinality(refused)

(* When the ring, the mutex and the condition variable are freed, no thread
   can touch them any more: the consumer has ended, nobody holds the mutex. *)
QuietWhenFreed ==
  destroyer \in {"free", "freed"} =>
    /\ consumer = "exited"
    /\ slot = "null"
    /\ wakeup_lock = "free"
    /\ \A p \in Producers : Outside(p)

(* Log calls never block (README.md): each one returns, even when the ring is
   full or other threads take the slots. *)
CallsReturn == \A p \in Producers : ~Outside(p) ~> Outside(p)

(* The backlog is worked off, unless the handler is stopped: the consumer
   cannot sleep past an accepted request. *)
AcceptedIsWritten ==
  Len(written) < Len(accepted) ~> (Len(written) = Len(accepted) \/ ~running)

(* Destroying a handler ends: the consumer notices the stop wherever it is,
   and the join returns. *)
DestroyEnds == destroyer # "none" ~> destroyer = "freed"

(* "Exit after draining all remaining items on shutdown"
   (logmoko_file_log_handler.c:81): the consumer ends only when every accepted
   request has been written. *)
DrainedOnExit == consumer = "exited" => Len(written) = Len(accepted)

----------------------------------------------------------------------------
(* The inductive invariant, in parts, beside that of the ring. *)

(* Who holds the mutex is where it locked it. *)
LockInv ==
  /\ wakeup_lock = "consumer" <=>
       consumer \in {"sleep", "recheck", "recheck_running", "cond_wait", "awake", "unlock"}
  /\ wakeup_lock = "destroyer" <=> destroyer \in {"broadcast", "unlock"}
  /\ \A p \in Producers : wakeup_lock = p <=> waker[p] \in {"signal", "unlock"}

(* The flag covers the wait and the checks around it. *)
SleepInv ==
  sleeping <=> consumer \in {"recheck", "recheck_running", "cond_wait", "waiting", "signalled", "awake"}

(* From the moment the consumer found the ring empty under the mutex, whoever
   makes the slot at tail ready will see the flag and signal. *)
SignalInv ==
  consumer \in {"recheck_running", "cond_wait", "waiting"} /\ Ready =>
    \E p \in Producers : pc[p] = "done" \/ waker[p] \in {"sleeping", "lock", "signal"}

(* The same for the stop. *)
StopInv ==
  consumer \in {"cond_wait", "waiting"} /\ ~running => destroyer \in {"lock", "broadcast"}

(* The phases of a handler's life: it is stopped when no call is in progress,
   and freed when the consumer has ended. *)
PhaseInv ==
  /\ running <=> destroyer = "none"
  /\ ~running => \A p \in Producers : Outside(p)
  /\ destroyer \in {"free", "freed"} => consumer = "exited"
  /\ consumer # "peek" => slot = "null"
  /\ \A p \in Producers : waker[p] # "none" => pc[p] = "idle"

FlushInv == consumer \notin {"peek", "flush"} => flushed = Len(written)

HandlerInv ==
  /\ HandlerTypeOK
  /\ LockInv
  /\ SleepInv
  /\ SignalInv
  /\ StopInv
  /\ PhaseInv
  /\ FlushInv

(* The counters run behind the ring by the calls that have claimed a position,
   or were refused, and have not counted it yet.  A call is refused once, so
   that the set of refused requests grows with every refusal. *)
Claimed == {p \in Producers : pc[p] \in {"meta", "data", "publish", "done"}}
Refusing == {p \in Producers : pc[p] = "full"}

CountInv ==
  /\ IsFiniteSet(Claimed) /\ nr_log_calls + Cardinality(Claimed) = Len(accepted)
  /\ IsFiniteSet(Refusing) /\ IsFiniteSet(refused)
  /\ dropped + Cardinality(Refusing) = Cardinality(refused)
  /\ \A r \in refused : \E p \in Producers : \E n \in 1 .. calls[p] :
       /\ r = Whole(<<p, n>>)
       /\ n = calls[p] => pc[p] \in {"idle", "full"}

=============================================================================
