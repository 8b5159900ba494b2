-------------------------- MODULE LogHandlerProof --------------------------
(***************************************************************************)
(* Proofs about LogHandler: what is proved of the ring holds of every      *)
(* handler, and the consumer's wakeup is never lost.                       *)
(***************************************************************************)
EXTENDS LogHandler, RingProof, FiniteSetTheorems

----------------------------------------------------------------------------
(* The ring inside the handler. *)

(* A step of the handler is a step of the ring or leaves the ring alone. *)
LEMMA HandlerStepIsRingStep ==
  ASSUME [HandlerNext]_vars
  PROVE  [RingNext]_ringVars
<1>1. ASSUME NEW p \in Producers, LogImpl(p) \/ LogIgnored(p) \/ ProducerStep(p)
      PROVE  [RingNext]_ringVars
  BY <1>1 DEF LogImpl, LogIgnored, ProducerStep, RingEnqueue, CountDropped, CountLogged,
              MaybeWake, WakeLoadSleeping, WakeLock, WakeSignal, WakeUnlock, Wake, RingNext
<1>2. CASE Consumer \/ ConsumerSpuriousWakeup
  BY <1>2 DEF Consumer, ConsumerSpuriousWakeup, ConsumerDrain, ConsumerPeekEmpty, ConsumerFlush,
              ConsumerCheckRunning, ConsumerLock, ConsumerSetSleeping, ConsumerRecheckRing,
              ConsumerRecheckRunning, ConsumerCondWait, ConsumerReacquire,
              ConsumerClearSleeping, ConsumerUnlock, ConsumerStep, RingNext
<1>3. CASE DestroyStop \/ Destroy
  BY <1>3 DEF DestroyStop, Destroy, DestroyLock, DestroyBroadcast, DestroyUnlock, DestroyJoin,
              DestroyFree, DestroyStep
<1>4. CASE UNCHANGED vars
  BY <1>4 DEF vars
<1> QED BY <1>1, <1>2, <1>3, <1>4 DEF HandlerNext, Gone

(* A handler is a ring with something around it. *)
THEOREM HandlerUsesRing == HandlerSpec => RingSpec
<1>1. HandlerInit => RingInit
  BY DEF HandlerInit
<1>2. [HandlerNext]_vars => [RingNext]_ringVars
  BY HandlerStepIsRingStep
<1> QED BY <1>1, <1>2, PTL DEF HandlerSpec, RingSpec

(* Every handler hands its records to its output whole, once and in the order
   of acceptance, and never lets two threads use one slot, whatever sleeping,
   waking and shutdown do. *)
THEOREM HandlerWritesInOrder == HandlerSpec => [](WrittenInOrder /\ SlotOwnership)
BY HandlerUsesRing, ReadInAcceptanceOrder, OneOwnerPerSlot, PTL

----------------------------------------------------------------------------
(* The inductive invariant of the wakeup protocol. *)

(* The state in which init leaves the handler. *)
LEMMA HandlerInitInv == HandlerInit => HandlerInv
<1> SUFFICES ASSUME HandlerInit PROVE HandlerInv
  OBVIOUS
<1>1. RingTypeOK
  BY InitType DEF HandlerInit
<1>2. HandlerTypeOK
  BY <1>1 DEF HandlerInit, HandlerTypeOK, ConsumerState, WakerState, DestroyerState
<1>3. LockInv /\ SleepInv
  BY ThreadsAssumption DEF HandlerInit, LockInv, SleepInv
<1>4. SignalInv /\ StopInv /\ FlushInv /\ PhaseInv
  BY DEF HandlerInit, RingInit, SignalInv, StopInv, FlushInv, PhaseInv, Outside
<1> QED BY <1>2, <1>3, <1>4 DEF HandlerInv

(* What a step of lmk_ring_enqueue can change that the wakeup depends on: it
   can make a slot ready only by publishing, after which the call is done. *)
LEMMA EnqueueEffect ==
  ASSUME RingTypeOK, NEW p \in Producers, Enqueue(p)
  PROVE  /\ pc[p] # "idle" /\ pc'[p] # "idle"
         /\ \A q \in Producers \ {p} : pc'[q] = pc[q]
         /\ pc[p] # "done"
         /\ UNCHANGED <<tail, slot, written>>
         /\ pc'[p] = "done" \/ Ready' = Ready
<1> USE DEF RingTypeOK, Goto, slotVars, Ready, Sequence, Index
<1>1. CASE EnqueueLoadHead(p)
  BY <1>1 DEF EnqueueLoadHead
<1>2. CASE EnqueueLoadSequence(p)
  BY <1>2 DEF EnqueueLoadSequence
<1>3. CASE EnqueueCas(p)
  BY <1>3 DEF EnqueueCas
<1>4. CASE EnqueueCasFail(p)
  BY <1>4 DEF EnqueueCasFail
<1>5. CASE EnqueueWriteMeta(p)
  BY <1>5 DEF EnqueueWriteMeta
<1>6. CASE EnqueueWriteData(p)
  BY <1>6 DEF EnqueueWriteData
<1>7. CASE EnqueuePublish(p)
  BY <1>7 DEF EnqueuePublish
<1> QED BY <1>1, <1>2, <1>3, <1>4, <1>5, <1>6, <1>7 DEF Enqueue

(* Whether the slot at tail is ready depends on the ring alone. *)
LEMMA ReadyKept ==
  ASSUME UNCHANGED ringVars
  PROVE  Ready' = Ready
BY DEF ringVars, slotVars, Ready, Sequence, Index

(* Steps of a producer. *)
LEMMA ProducerKeepsInv ==
  ASSUME HandlerInv, RingTypeOK', NEW p \in Producers,
         LogImpl(p) \/ LogIgnored(p) \/ ProducerStep(p)
  PROVE  HandlerInv'
<1> USE DEF HandlerInv, HandlerTypeOK
<1>1. CASE LogImpl(p)
  <2> USE <1>1 DEF LogImpl, EnqueueCall, countVars, wakeVars
  <2>1. Ready' = Ready /\ slot' = slot /\ written' = written
    BY DEF slotVars, Ready, Sequence, Index
  <2>2. /\ \A q \in Producers \ {p} : pc'[q] = pc[q]
        /\ pc[p] = "idle" /\ waker[p] = "none"
    BY DEF Goto, Outside, RingTypeOK
  <2>3. HandlerTypeOK' /\ LockInv' /\ SleepInv' /\ StopInv' /\ FlushInv'
    BY <2>1 DEF LockInv, SleepInv, StopInv, FlushInv
  <2>4. SignalInv'
    BY <2>1, <2>2 DEF SignalInv
  <2>5. PhaseInv'
    BY <2>1, <2>2 DEF PhaseInv
  <2> QED BY <2>3, <2>4, <2>5
<1>2. CASE LogIgnored(p)
  <2> USE <1>2 DEF LogIgnored, wakeVars, ringVars, prodVars
  <2>1. Ready' = Ready
    BY ReadyKept
  <2>2. HandlerTypeOK' /\ LockInv' /\ SleepInv' /\ StopInv' /\ FlushInv'
    BY DEF LockInv, SleepInv, StopInv, FlushInv
  <2>3. SignalInv' /\ PhaseInv'
    BY <2>1 DEF SignalInv, PhaseInv, Outside
  <2> QED BY <2>2, <2>3
<1>3. CASE RingEnqueue(p)
  <2> USE <1>3 DEF RingEnqueue, wakeVars, countVars
  <2>1. /\ pc[p] # "idle" /\ pc'[p] # "idle"
        /\ \A q \in Producers \ {p} : pc'[q] = pc[q]
        /\ pc[p] # "done"
        /\ UNCHANGED <<tail, slot, written>>
        /\ pc'[p] = "done" \/ Ready' = Ready
    BY EnqueueEffect
  <2>2. HandlerTypeOK' /\ LockInv' /\ SleepInv' /\ StopInv' /\ FlushInv'
    BY <2>1 DEF LockInv, SleepInv, StopInv, FlushInv
  <2>3. SignalInv'
    BY <2>1 DEF SignalInv
  <2>4. PhaseInv'
    BY <2>1 DEF PhaseInv, Outside
  <2> QED BY <2>2, <2>3, <2>4
<1>4. CASE CountDropped(p)
  <2> USE <1>4 DEF CountDropped, EnqueueReturn, wakeVars
  <2>1. Ready' = Ready /\ slot' = slot /\ written' = written
    BY DEF slotVars, Ready, Sequence, Index
  <2>2. /\ \A q \in Producers \ {p} : pc'[q] = pc[q]
        /\ pc[p] = "full" /\ pc'[p] = "idle"
    BY DEF Goto, RingTypeOK
  <2>3. HandlerTypeOK' /\ LockInv' /\ SleepInv' /\ StopInv' /\ FlushInv'
    BY <2>1 DEF LockInv, SleepInv, StopInv, FlushInv
  <2>4. SignalInv'
    BY <2>1, <2>2 DEF SignalInv
  <2>5. PhaseInv'
    BY <2>1, <2>2 DEF PhaseInv, Outside
  <2> QED BY <2>3, <2>4, <2>5
<1>5. CASE CountLogged(p)
  <2> USE <1>5 DEF CountLogged, EnqueueReturn, wakeVars
  <2>1. Ready' = Ready /\ slot' = slot /\ written' = written
    BY DEF slotVars, Ready, Sequence, Index
  <2>2. /\ \A q \in Producers \ {p} : pc'[q] = pc[q] /\ waker'[q] = waker[q]
        /\ pc[p] = "done" /\ pc'[p] = "idle" /\ waker'[p] = "sleeping"
        /\ waker[p] = "none"
    BY DEF Goto, RingTypeOK, PhaseInv
  <2>3. HandlerTypeOK'
    BY DEF WakerState
  <2>4. LockInv' /\ SleepInv' /\ StopInv' /\ FlushInv'
    BY <2>1, <2>2 DEF LockInv, SleepInv, StopInv, FlushInv
  <2>5. SignalInv'
    BY <2>1, <2>2 DEF SignalInv
  <2>6. PhaseInv'
    BY <2>1, <2>2 DEF PhaseInv, Outside
  <2> QED BY <2>3, <2>4, <2>5, <2>6
<1>6. CASE MaybeWake(p)
  <2> USE DEF Wake, ringVars, prodVars, countVars
  <2>1. Ready' = Ready /\ slot' = slot /\ written' = written /\ pc' = pc
    BY <1>6, ReadyKept DEF MaybeWake, WakeLoadSleeping, WakeLock, WakeSignal, WakeUnlock
  <2>2. CASE WakeLoadSleeping(p)
    <3>1. /\ waker' \in [Producers -> WakerState]
          /\ waker'[p] = IF sleeping THEN "lock" ELSE "none"
          /\ \A q \in Producers \ {p} : waker'[q] = waker[q]
      BY <2>2 DEF WakeLoadSleeping, WakerState
    <3>2. HandlerTypeOK' /\ LockInv' /\ SleepInv' /\ StopInv' /\ FlushInv'
      BY <2>1, <2>2, <3>1 DEF WakeLoadSleeping, LockInv, SleepInv, StopInv, FlushInv
    <3>3. SignalInv'
      BY <2>1, <2>2, <3>1 DEF WakeLoadSleeping, SignalInv, SleepInv
    <3>4. PhaseInv'
      BY <2>1, <2>2, <3>1 DEF WakeLoadSleeping, PhaseInv, Outside
    <3> QED BY <3>2, <3>3, <3>4
  <2>3. CASE WakeLock(p)
    <3>1. /\ waker' \in [Producers -> WakerState]
          /\ waker'[p] = "signal"
          /\ \A q \in Producers \ {p} : waker'[q] = waker[q]
      BY <2>3 DEF WakeLock, WakerState
    <3>2. HandlerTypeOK' /\ SleepInv' /\ StopInv' /\ FlushInv'
      BY <2>1, <2>3, <3>1 DEF WakeLock, Acquire, SleepInv, StopInv, FlushInv
    <3>3. LockInv'
      BY <2>3, <3>1, ThreadsAssumption DEF WakeLock, Acquire, LockInv
    <3>4. SignalInv'
      BY <2>1, <2>3, <3>1 DEF WakeLock, SignalInv
    <3>5. PhaseInv'
      BY <2>1, <2>3, <3>1 DEF WakeLock, PhaseInv, Outside
    <3> QED BY <3>2, <3>3, <3>4, <3>5
  <2>4. CASE WakeSignal(p)
    <3>1. /\ waker' \in [Producers -> WakerState]
          /\ waker'[p] = "unlock"
          /\ \A q \in Producers \ {p} : waker'[q] = waker[q]
      BY <2>4 DEF WakeSignal, WakerState
    <3>2. wakeup_lock = p /\ consumer \notin {"recheck_running", "cond_wait"}
      BY <2>4, ThreadsAssumption DEF WakeSignal, LockInv
    <3>3. consumer' \notin {"recheck_running", "cond_wait", "waiting"}
      BY <2>4, <3>2 DEF WakeSignal
    <3>4. HandlerTypeOK' /\ SleepInv' /\ StopInv' /\ FlushInv' /\ SignalInv'
      BY <2>1, <2>4, <3>1, <3>3
      DEF WakeSignal, ConsumerState, SleepInv, StopInv, FlushInv, SignalInv
    <3>5. LockInv'
      BY <2>4, <3>1 DEF WakeSignal, LockInv
    <3>6. PhaseInv'
      BY <2>1, <2>4, <3>1 DEF WakeSignal, PhaseInv, Outside
    <3> QED BY <3>4, <3>5, <3>6
  <2>5. CASE WakeUnlock(p)
    <3>1. /\ waker' \in [Producers -> WakerState]
          /\ waker'[p] = "none"
          /\ \A q \in Producers \ {p} : waker'[q] = waker[q]
      BY <2>5 DEF WakeUnlock, WakerState
    <3>2. HandlerTypeOK' /\ SleepInv' /\ StopInv' /\ FlushInv'
      BY <2>1, <2>5, <3>1 DEF WakeUnlock, Release, SleepInv, StopInv, FlushInv
    <3>3. wakeup_lock = p
      BY <2>5 DEF WakeUnlock, LockInv
    <3>4. LockInv'
      BY <2>5, <3>1, <3>3, ThreadsAssumption DEF WakeUnlock, Release, LockInv
    <3>5. SignalInv'
      BY <2>1, <2>5, <3>1 DEF WakeUnlock, SignalInv
    <3>6. PhaseInv'
      BY <2>1, <2>5, <3>1 DEF WakeUnlock, PhaseInv, Outside
    <3> QED BY <3>2, <3>4, <3>5, <3>6
  <2> QED BY <1>6, <2>2, <2>3, <2>4, <2>5 DEF MaybeWake
<1> QED BY <1>1, <1>2, <1>3, <1>4, <1>5, <1>6 DEF ProducerStep

(* Steps of the consumer.  Step <1>2 is what all but the draining ones share. *)
LEMMA ConsumerKeepsInv ==
  ASSUME HandlerInv, RingTypeOK', Consumer \/ ConsumerSpuriousWakeup
  PROVE  HandlerInv'
<1> USE DEF HandlerInv, HandlerTypeOK
<1>1. CASE ConsumerDrain
  <2> USE <1>1 DEF ConsumerDrain, wakeVars, countVars
  <2>1. pc' = pc
    BY DEF Drain, PeekReady, ReadSlot, ConsumeSlot
  <2>2. HandlerTypeOK' /\ LockInv' /\ SleepInv' /\ SignalInv' /\ StopInv' /\ FlushInv'
    BY DEF LockInv, SleepInv, SignalInv, StopInv, FlushInv
  <2>3. PhaseInv'
    BY <2>1 DEF PhaseInv, Outside
  <2> QED BY <2>2, <2>3
<1>2. ASSUME NEW from \in ConsumerState, NEW to \in ConsumerState, ConsumerStep(from, to),
             to # "peek" => slot = "null",
             from # "exited",
             to \in {"recheck_running", "cond_wait", "waiting"} /\ Ready =>
               from \in {"recheck_running", "cond_wait", "waiting"},
             to \in {"cond_wait", "waiting"} /\ ~running => from \in {"cond_wait", "waiting"},
             flushed' \in Nat,
             to \notin {"peek", "flush"} => flushed' = Len(written),
             sleeping' \in BOOLEAN,
             wakeup_lock' \in {"free", "consumer", "destroyer"} \cup Producers
      PROVE  HandlerTypeOK' /\ SignalInv' /\ StopInv' /\ PhaseInv' /\ FlushInv'
  <2> USE <1>2 DEF ConsumerStep, ringVars, prodVars, countVars
  <2>1. Ready' = Ready
    BY ReadyKept
  <2>2. SignalInv' /\ StopInv' /\ FlushInv'
    BY <2>1 DEF SignalInv, StopInv, FlushInv
  <2>3. PhaseInv'
    BY DEF PhaseInv, Outside
  <2> QED BY <2>2, <2>3
<1> USE DEF ConsumerState
<1>3. CASE ConsumerPeekEmpty
  <2>1. HandlerTypeOK' /\ SignalInv' /\ StopInv' /\ PhaseInv' /\ FlushInv'
    BY <1>2, <1>3 DEF ConsumerPeekEmpty, ConsumerStep, PhaseInv
  <2>2. LockInv' /\ SleepInv'
    BY <1>3 DEF ConsumerPeekEmpty, ConsumerStep, LockInv, SleepInv
  <2> QED BY <2>1, <2>2
<1>4. CASE ConsumerFlush
  <2>1. Len(written) \in Nat
    BY LenProperties DEF RingTypeOK
  <2>2. HandlerTypeOK' /\ SignalInv' /\ StopInv' /\ PhaseInv' /\ FlushInv'
    BY <1>2, <1>4, <2>1 DEF ConsumerFlush, ConsumerStep, PhaseInv
  <2>3. LockInv' /\ SleepInv'
    BY <1>4 DEF ConsumerFlush, ConsumerStep, LockInv, SleepInv
  <2> QED BY <2>2, <2>3
<1>5. CASE ConsumerCheckRunning
  <2>1. HandlerTypeOK' /\ SignalInv' /\ StopInv' /\ PhaseInv' /\ FlushInv'
    BY <1>2, <1>5 DEF ConsumerCheckRunning, ConsumerStep, PhaseInv, FlushInv
  <2>2. LockInv' /\ SleepInv'
    BY <1>5 DEF ConsumerCheckRunning, ConsumerStep, LockInv, SleepInv
  <2> QED BY <2>1, <2>2
<1>6. CASE ConsumerLock
  <2>1. HandlerTypeOK' /\ SignalInv' /\ StopInv' /\ PhaseInv' /\ FlushInv'
    BY <1>2, <1>6 DEF ConsumerLock, Acquire, ConsumerStep, PhaseInv, FlushInv
  <2>2. LockInv' /\ SleepInv'
    BY <1>6, ThreadsAssumption DEF ConsumerLock, Acquire, ConsumerStep, LockInv, SleepInv
  <2> QED BY <2>1, <2>2
<1>7. CASE ConsumerSetSleeping
  <2>1. HandlerTypeOK' /\ SignalInv' /\ StopInv' /\ PhaseInv' /\ FlushInv'
    BY <1>2, <1>7 DEF ConsumerSetSleeping, ConsumerStep, PhaseInv, FlushInv
  <2>2. LockInv' /\ SleepInv'
    BY <1>7 DEF ConsumerSetSleeping, ConsumerStep, LockInv, SleepInv
  <2> QED BY <2>1, <2>2
<1>8. CASE ConsumerRecheckRing
  <2>1. HandlerTypeOK' /\ SignalInv' /\ StopInv' /\ PhaseInv' /\ FlushInv'
    BY <1>2, <1>8 DEF ConsumerRecheckRing, ConsumerStep, PhaseInv, FlushInv
  <2>2. LockInv' /\ SleepInv'
    BY <1>8 DEF ConsumerRecheckRing, ConsumerStep, LockInv, SleepInv
  <2> QED BY <2>1, <2>2
<1>9. CASE ConsumerRecheckRunning
  <2>1. HandlerTypeOK' /\ SignalInv' /\ StopInv' /\ PhaseInv' /\ FlushInv'
    BY <1>2, <1>9 DEF ConsumerRecheckRunning, ConsumerStep, PhaseInv, FlushInv
  <2>2. LockInv' /\ SleepInv'
    BY <1>9 DEF ConsumerRecheckRunning, ConsumerStep, LockInv, SleepInv
  <2> QED BY <2>1, <2>2
<1>10. CASE ConsumerCondWait
  <2>1. HandlerTypeOK' /\ SignalInv' /\ StopInv' /\ PhaseInv' /\ FlushInv'
    BY <1>2, <1>10 DEF ConsumerCondWait, Release, ConsumerStep, PhaseInv, FlushInv
  <2>2. wakeup_lock = "consumer"
    BY <1>10 DEF ConsumerCondWait, ConsumerStep, LockInv
  <2>3. LockInv' /\ SleepInv'
    BY <1>10, <2>2, ThreadsAssumption
    DEF ConsumerCondWait, Release, ConsumerStep, LockInv, SleepInv
  <2> QED BY <2>1, <2>3
<1>11. CASE ConsumerReacquire
  <2>1. HandlerTypeOK' /\ SignalInv' /\ StopInv' /\ PhaseInv' /\ FlushInv'
    BY <1>2, <1>11 DEF ConsumerReacquire, Acquire, ConsumerStep, PhaseInv, FlushInv
  <2>2. LockInv' /\ SleepInv'
    BY <1>11, ThreadsAssumption DEF ConsumerReacquire, Acquire, ConsumerStep, LockInv, SleepInv
  <2> QED BY <2>1, <2>2
<1>12. CASE ConsumerClearSleeping
  <2>1. HandlerTypeOK' /\ SignalInv' /\ StopInv' /\ PhaseInv' /\ FlushInv'
    BY <1>2, <1>12 DEF ConsumerClearSleeping, ConsumerStep, PhaseInv, FlushInv
  <2>2. LockInv' /\ SleepInv'
    BY <1>12 DEF ConsumerClearSleeping, ConsumerStep, LockInv, SleepInv
  <2> QED BY <2>1, <2>2
<1>13. CASE ConsumerUnlock
  <2>1. HandlerTypeOK' /\ SignalInv' /\ StopInv' /\ PhaseInv' /\ FlushInv'
    BY <1>2, <1>13 DEF ConsumerUnlock, Release, ConsumerStep, PhaseInv, FlushInv
  <2>2. wakeup_lock = "consumer"
    BY <1>13 DEF ConsumerUnlock, ConsumerStep, LockInv
  <2>3. LockInv' /\ SleepInv'
    BY <1>13, <2>2, ThreadsAssumption
    DEF ConsumerUnlock, Release, ConsumerStep, LockInv, SleepInv
  <2> QED BY <2>1, <2>3
<1>14. CASE ConsumerSpuriousWakeup
  <2>1. HandlerTypeOK' /\ SignalInv' /\ StopInv' /\ PhaseInv' /\ FlushInv'
    BY <1>2, <1>14 DEF ConsumerSpuriousWakeup, ConsumerStep, PhaseInv, FlushInv
  <2>2. LockInv' /\ SleepInv'
    BY <1>14 DEF ConsumerSpuriousWakeup, ConsumerStep, LockInv, SleepInv
  <2> QED BY <2>1, <2>2
<1> QED
  BY <1>1, <1>3, <1>4, <1>5, <1>6, <1>7, <1>8, <1>9, <1>10, <1>11, <1>12, <1>13, <1>14
  DEF Consumer

(* Steps of the destroyer. *)
LEMMA DestroyerKeepsInv ==
  ASSUME HandlerInv, RingTypeOK', DestroyStop \/ Destroy
  PROVE  HandlerInv'
<1> USE DEF HandlerInv, HandlerTypeOK, DestroyStep, ringVars, prodVars, countVars, DestroyerState
<1>1. Ready' = Ready /\ slot' = slot /\ written' = written /\ pc' = pc /\ waker' = waker
  BY ReadyKept DEF DestroyStop, Destroy, DestroyLock, DestroyBroadcast, DestroyUnlock,
                   DestroyJoin, DestroyFree
<1>2. CASE DestroyStop
  <2>1. HandlerTypeOK' /\ LockInv' /\ SleepInv' /\ SignalInv' /\ StopInv' /\ FlushInv'
    BY <1>1, <1>2 DEF DestroyStop, LockInv, SleepInv, SignalInv, StopInv, FlushInv
  <2>2. PhaseInv'
    BY <1>1, <1>2 DEF DestroyStop, PhaseInv, Outside
  <2> QED BY <2>1, <2>2
<1>3. CASE DestroyLock
  <2>1. HandlerTypeOK' /\ SleepInv' /\ SignalInv' /\ StopInv' /\ FlushInv'
    BY <1>1, <1>3 DEF DestroyLock, Acquire, SleepInv, SignalInv, StopInv, FlushInv
  <2>2. LockInv'
    BY <1>1, <1>3, ThreadsAssumption DEF DestroyLock, Acquire, LockInv
  <2>3. PhaseInv'
    BY <1>1, <1>3 DEF DestroyLock, PhaseInv, Outside
  <2> QED BY <2>1, <2>2, <2>3
<1>4. CASE DestroyBroadcast
  <2>1. wakeup_lock = "destroyer" /\ consumer \notin {"recheck_running", "cond_wait"}
    BY <1>4 DEF DestroyBroadcast, LockInv
  <2>2. consumer' \notin {"recheck_running", "cond_wait", "waiting"}
    BY <1>4, <2>1 DEF DestroyBroadcast
  <2>3. HandlerTypeOK' /\ SleepInv' /\ SignalInv' /\ StopInv' /\ FlushInv'
    BY <1>1, <1>4, <2>2
    DEF DestroyBroadcast, ConsumerState, SleepInv, SignalInv, StopInv, FlushInv
  <2>4. LockInv'
    BY <1>1, <1>4 DEF DestroyBroadcast, LockInv
  <2>5. PhaseInv'
    BY <1>1, <1>4 DEF DestroyBroadcast, PhaseInv, Outside
  <2> QED BY <2>3, <2>4, <2>5
<1>5. CASE DestroyUnlock
  <2>1. wakeup_lock = "destroyer" /\ running = FALSE
    BY <1>5 DEF DestroyUnlock, LockInv, PhaseInv
  <2>2. consumer \notin {"cond_wait", "waiting"}
    BY <1>5, <2>1 DEF DestroyUnlock, StopInv
  <2>3. HandlerTypeOK' /\ SleepInv' /\ SignalInv' /\ StopInv' /\ FlushInv'
    BY <1>1, <1>5, <2>2 DEF DestroyUnlock, Release, SleepInv, SignalInv, StopInv, FlushInv
  <2>4. LockInv'
    BY <1>1, <1>5, <2>1, ThreadsAssumption DEF DestroyUnlock, Release, LockInv
  <2>5. PhaseInv'
    BY <1>1, <1>5 DEF DestroyUnlock, PhaseInv, Outside
  <2> QED BY <2>3, <2>4, <2>5
<1>6. CASE DestroyJoin \/ DestroyFree
  <2>1. HandlerTypeOK' /\ LockInv' /\ SleepInv' /\ SignalInv' /\ FlushInv'
    BY <1>1, <1>6 DEF DestroyJoin, DestroyFree, LockInv, SleepInv, SignalInv, FlushInv
  <2>2. StopInv'
    BY <1>1, <1>6 DEF DestroyJoin, DestroyFree, StopInv
  <2>3. PhaseInv'
    BY <1>1, <1>6 DEF DestroyJoin, DestroyFree, PhaseInv, Outside
  <2> QED BY <2>1, <2>2, <2>3
<1> QED BY <1>2, <1>3, <1>4, <1>5, <1>6 DEF Destroy

(* HandlerInv is inductive, given the types of the ring. *)
LEMMA HandlerInvStep ==
  ASSUME HandlerInv, RingTypeOK', [HandlerNext]_vars
  PROVE  HandlerInv'
<1>1. CASE UNCHANGED vars
  <2>1. Ready' = Ready
    BY <1>1, ReadyKept DEF vars
  <2>2. HandlerTypeOK' /\ LockInv' /\ SleepInv' /\ StopInv' /\ FlushInv'
    BY <1>1 DEF HandlerInv, HandlerTypeOK, LockInv, SleepInv, StopInv, FlushInv, vars,
                ringVars, wakeVars, countVars
  <2>3. SignalInv' /\ PhaseInv'
    BY <1>1, <2>1 DEF HandlerInv, SignalInv, PhaseInv, Outside, vars, ringVars, prodVars, wakeVars
  <2> QED BY <2>2, <2>3 DEF HandlerInv
<1> QED BY <1>1, ProducerKeepsInv, ConsumerKeepsInv, DestroyerKeepsInv DEF HandlerNext, Gone

(* Mutex, sleeping flag, pending signals and the phases of shutdown agree in
   every state of a handler. *)
THEOREM HandlerInvariant == HandlerSpec => []HandlerInv
<1>1. HandlerInit => HandlerInv
  BY HandlerInitInv
<1>2. HandlerInv /\ RingTypeOK' /\ [HandlerNext]_vars => HandlerInv'
  BY HandlerInvStep
<1>3. HandlerSpec => []RingTypeOK
  BY HandlerUsesRing, RingTypeCorrect, PTL
<1> QED BY <1>1, <1>2, <1>3, PTL DEF HandlerSpec

(* A consumer never waits for ever with a record ready or after a stop: the
   thread that will signal it is on its way. *)
THEOREM WakeupNeverLost == HandlerSpec => []NoLostWakeup
<1>1. HandlerInv => NoLostWakeup
  BY DEF HandlerInv, SignalInv, StopInv, NoLostWakeup
<1> QED BY <1>1, HandlerInvariant, PTL

(* A consumer that sleeps or has exited has flushed all it wrote. *)
THEOREM SleepsFlushed == HandlerSpec => []IdleIsFlushed
<1>1. HandlerInv => IdleIsFlushed
  BY DEF HandlerInv, FlushInv, IdleIsFlushed
<1> QED BY <1>1, HandlerInvariant, PTL

(* What destroy frees, no thread uses any more. *)
THEOREM FreedWhenQuiet == HandlerSpec => []QuietWhenFreed
<1>1. HandlerInv => QuietWhenFreed
  <2> SUFFICES ASSUME HandlerInv, destroyer \in {"free", "freed"}
               PROVE  /\ consumer = "exited" /\ slot = "null" /\ wakeup_lock = "free"
                      /\ \A p \in Producers : Outside(p)
    BY DEF QuietWhenFreed
  <2>1. consumer = "exited" /\ slot = "null" /\ \A p \in Producers : Outside(p)
    BY DEF HandlerInv, PhaseInv
  <2>2. wakeup_lock = "free"
    BY <2>1, ThreadsAssumption DEF HandlerInv, HandlerTypeOK, LockInv, Outside
  <2> QED BY <2>1, <2>2
<1> QED BY <1>1, HandlerInvariant, PTL

(* What holds of the ring alone, of every handler: it is the atomic queue with
   the handler around it, and refuses only when it is full. *)
THEOREM HandlerIsQueue == HandlerSpec => ImplementsQueue /\ RefusedOnlyWhenFull
BY HandlerUsesRing, RingImplementsQueue, NoEarlyRefusal, PTL

----------------------------------------------------------------------------
(* The counters. *)

(* Calls that neither claim nor are refused leave the balance alone. *)
LEMMA BalanceKept ==
  ASSUME CountInv, UNCHANGED <<accepted, refused, nr_log_calls, dropped>>,
         \A p \in Producers :
           /\ calls'[p] \in Nat /\ calls[p] \in Nat /\ calls[p] <= calls'[p]
           /\ pc'[p] \in {"meta", "data", "publish", "done"} <=>
                pc[p] \in {"meta", "data", "publish", "done"}
           /\ pc'[p] = "full" <=> pc[p] = "full"
           /\ calls'[p] = calls[p] /\ pc[p] = "idle" => pc'[p] = "idle"
  PROVE  CountInv'
<1>1. Claimed' = Claimed /\ Refusing' = Refusing
  BY DEF Claimed, Refusing
<1>2. ASSUME NEW r \in refused
      PROVE  \E p \in Producers : \E n \in 1 .. calls'[p] :
               /\ r = Whole(<<p, n>>)
               /\ n = calls'[p] => pc'[p] \in {"idle", "full"}
  <2>1. PICK p \in Producers : \E n \in 1 .. calls[p] :
               r = Whole(<<p, n>>) /\ (n = calls[p] => pc[p] \in {"idle", "full"})
    BY DEF CountInv
  <2>2. PICK n \in 1 .. calls[p] :
               r = Whole(<<p, n>>) /\ (n = calls[p] => pc[p] \in {"idle", "full"})
    BY <2>1
  <2>3. n \in 1 .. calls'[p]
    OBVIOUS
  <2>4. n = calls'[p] => pc'[p] \in {"idle", "full"}
    BY <2>2
  <2> QED BY <2>2, <2>3, <2>4
<1> QED BY <1>1, <1>2 DEF CountInv

(* A call claims a position. *)
LEMMA ClaimBalanced ==
  ASSUME CountInv, RingTypeOK, nr_log_calls \in Nat, NEW p \in Producers, calls[p] # 0,
         EnqueueCas(p), UNCHANGED countVars
  PROVE  CountInv'
<1> USE DEF EnqueueCas, Goto, RingTypeOK, countVars
<1>1. p \notin Claimed /\ Claimed' = Claimed \cup {p} /\ Refusing' = Refusing
  BY DEF Claimed, Refusing
<1>2. IsFiniteSet(Claimed') /\ Cardinality(Claimed') = Cardinality(Claimed) + 1
  BY <1>1, FS_AddElement DEF CountInv
<1>3. Len(accepted') = Len(accepted) + 1
  BY AppendProperties, CurrentType
<1>4. \A r \in refused : \E q \in Producers : \E n \in 1 .. calls'[q] :
         r = Whole(<<q, n>>) /\ (n = calls'[q] => pc'[q] \in {"idle", "full"})
  BY DEF CountInv
<1>5. Cardinality(Claimed) \in Nat /\ Len(accepted) \in Nat
  BY FS_CardinalityType, LenProperties DEF CountInv
<1>6. nr_log_calls' + Cardinality(Claimed') = Len(accepted')
  <2> HIDE DEF EnqueueCas
  <2> QED BY <1>2, <1>3, <1>5 DEF CountInv
<1>7. /\ IsFiniteSet(Refusing') /\ IsFiniteSet(refused')
      /\ dropped' + Cardinality(Refusing') = Cardinality(refused')
  BY <1>1 DEF CountInv
<1>8. refused' = refused
  OBVIOUS
<1> QED BY <1>2, <1>4, <1>6, <1>7, <1>8 DEF CountInv

(* A call is refused: it had not been before. *)
LEMMA RefusalBalanced ==
  ASSUME CountInv, RingTypeOK, dropped \in Nat, NEW p \in Producers, calls[p] # 0,
         pc[p] = "check", Goto(p, "full"), refused' = refused \cup {Whole(Current(p))},
         UNCHANGED <<calls, accepted, countVars>>
  PROVE  CountInv'
<1> USE DEF Goto, RingTypeOK, countVars
<1>1. p \notin Refusing /\ Refusing' = Refusing \cup {p} /\ Claimed' = Claimed
  BY DEF Claimed, Refusing
<1>2. Whole(Current(p)) \notin refused
  <2> SUFFICES ASSUME Whole(Current(p)) \in refused PROVE FALSE
    OBVIOUS
  <2>1. PICK q \in Producers : \E n \in 1 .. calls[q] :
          Whole(Current(p)) = Whole(<<q, n>>) /\ (n = calls[q] => pc[q] \in {"idle", "full"})
    BY DEF CountInv
  <2>2. PICK n \in 1 .. calls[q] :
          Whole(Current(p)) = Whole(<<q, n>>) /\ (n = calls[q] => pc[q] \in {"idle", "full"})
    BY <2>1
  <2>3. q = p /\ n = calls[p]
    BY <2>2 DEF Whole, Current
  <2> QED BY <2>2, <2>3
<1>3. IsFiniteSet(Refusing') /\ Cardinality(Refusing') = Cardinality(Refusing) + 1
  BY <1>1, FS_AddElement DEF CountInv
<1>4. IsFiniteSet(refused') /\ Cardinality(refused') = Cardinality(refused) + 1
  BY <1>2, FS_AddElement DEF CountInv
<1>5. ASSUME NEW r \in refused'
      PROVE  \E q \in Producers : \E n \in 1 .. calls'[q] :
               r = Whole(<<q, n>>) /\ (n = calls'[q] => pc'[q] \in {"idle", "full"})
  <2>1. CASE r = Whole(Current(p))
    <3>1. calls[p] \in 1 .. calls'[p] /\ pc'[p] = "full" /\ r = Whole(<<p, calls[p]>>)
      BY <2>1 DEF Current
    <3> QED BY <3>1
  <2>2. CASE r \in refused
    BY <2>2 DEF CountInv
  <2> QED BY <2>1, <2>2
<1>6. Cardinality(Refusing) \in Nat /\ Cardinality(refused) \in Nat
  BY FS_CardinalityType DEF CountInv
<1>7. dropped' + Cardinality(Refusing') = Cardinality(refused')
  BY <1>3, <1>4, <1>6 DEF CountInv
<1>8. IsFiniteSet(Claimed') /\ nr_log_calls' + Cardinality(Claimed') = Len(accepted')
  BY <1>1 DEF CountInv
<1> QED BY <1>3, <1>4, <1>5, <1>7, <1>8 DEF CountInv

(* The result of a call is counted. *)
LEMMA CountingBalanced ==
  ASSUME CountInv, RingTypeOK, nr_log_calls \in Nat, dropped \in Nat, NEW p \in Producers,
         CountDropped(p) \/ CountLogged(p)
  PROVE  CountInv'
<1> USE DEF EnqueueReturn, Goto, RingTypeOK
<1>1. Cardinality(Claimed) \in Nat /\ Cardinality(Refusing) \in Nat
  BY FS_CardinalityType DEF CountInv
<1>2. calls' = calls /\ refused' = refused /\ accepted' = accepted
      /\ pc'[p] = "idle" /\ \A q \in Producers \ {p} : pc'[q] = pc[q]
  BY DEF CountDropped, CountLogged
<1>3. \A r \in refused' : \E q \in Producers : \E n \in 1 .. calls'[q] :
         r = Whole(<<q, n>>) /\ (n = calls'[q] => pc'[q] \in {"idle", "full"})
  BY <1>2 DEF CountInv
<1>4. CASE CountDropped(p)
  <2>1. p \in Refusing /\ Refusing' = Refusing \ {p} /\ Claimed' = Claimed
    BY <1>4 DEF CountDropped, Claimed, Refusing
  <2>2. IsFiniteSet(Refusing') /\ Cardinality(Refusing') = Cardinality(Refusing) - 1
    BY <2>1, FS_RemoveElement DEF CountInv
  <2>3. dropped' + Cardinality(Refusing') = Cardinality(refused')
    BY <1>1, <1>2, <1>4, <2>2 DEF CountInv, CountDropped
  <2>4. IsFiniteSet(Claimed') /\ nr_log_calls' + Cardinality(Claimed') = Len(accepted')
    BY <1>2, <1>4, <2>1 DEF CountInv, CountDropped
  <2>5. IsFiniteSet(refused')
    BY <1>2 DEF CountInv
  <2> QED BY <1>3, <2>2, <2>3, <2>4, <2>5 DEF CountInv
<1>5. CASE CountLogged(p)
  <2>1. p \in Claimed /\ Claimed' = Claimed \ {p} /\ Refusing' = Refusing
    BY <1>5 DEF CountLogged, Claimed, Refusing
  <2>2. IsFiniteSet(Claimed') /\ Cardinality(Claimed') = Cardinality(Claimed) - 1
    BY <2>1, FS_RemoveElement DEF CountInv
  <2>3. nr_log_calls' + Cardinality(Claimed') = Len(accepted')
    BY <1>1, <1>2, <1>5, <2>2 DEF CountInv, CountLogged
  <2>4. /\ IsFiniteSet(Refusing') /\ IsFiniteSet(refused')
        /\ dropped' + Cardinality(Refusing') = Cardinality(refused')
    BY <1>2, <1>5, <2>1 DEF CountInv, CountLogged
  <2> QED BY <1>3, <2>2, <2>3, <2>4 DEF CountInv
<1> QED BY <1>4, <1>5

(* The balance of the counters is inductive. *)
LEMMA CountInvStep ==
  ASSUME CountInv, HandlerInv, RingInv, [HandlerNext]_vars
  PROVE  CountInv'
<1> USE DEF HandlerInv, HandlerTypeOK
<1>1. \A p \in Producers : pc[p] # "idle" => calls[p] # 0
  BY DEF RingInv, LoopInv, RingTypeOK
<1>2. ASSUME NEW p \in Producers, LogImpl(p)
      PROVE  CountInv'
  BY <1>2, BalanceKept DEF LogImpl, EnqueueCall, Goto, countVars, RingTypeOK
<1>3. ASSUME NEW p \in Producers, RingEnqueue(p)
      PROVE  CountInv'
  <2> USE DEF RingEnqueue, countVars
  <2>1. CASE EnqueueCas(p)
    BY <1>1, <1>3, <2>1, ClaimBalanced DEF EnqueueCas
  <2>2. CASE EnqueueLoadSequence(p)
    <3>1. CASE Goto(p, "full") /\ refused' = refused \cup {Whole(Current(p))}
      BY <1>1, <1>3, <2>2, <3>1, RefusalBalanced DEF EnqueueLoadSequence
    <3>2. CASE UNCHANGED refused /\ (Goto(p, "cas") \/ Goto(p, "load"))
      BY <1>3, <2>2, <3>2, BalanceKept DEF EnqueueLoadSequence, Goto, RingTypeOK
    <3> QED BY <2>2, <3>1, <3>2 DEF EnqueueLoadSequence
  <2>3. CASE EnqueueLoadHead(p) \/ EnqueueCasFail(p)
    BY <1>3, <2>3, BalanceKept DEF EnqueueLoadHead, EnqueueCasFail, Goto, RingTypeOK
  <2>4. CASE EnqueueWriteMeta(p) \/ EnqueueWriteData(p) \/ EnqueuePublish(p)
    BY <1>3, <2>4, BalanceKept
    DEF EnqueueWriteMeta, EnqueueWriteData, EnqueuePublish, Goto, RingTypeOK
  <2> QED BY <1>3, <2>1, <2>2, <2>3, <2>4 DEF Enqueue
<1>4. ASSUME NEW p \in Producers, CountDropped(p) \/ CountLogged(p)
      PROVE  CountInv'
  BY <1>4, CountingBalanced
<1>5. CASE UNCHANGED <<pc, calls, accepted, refused, nr_log_calls, dropped>>
  BY <1>5, BalanceKept DEF RingTypeOK
<1>6. ASSUME NEW p \in Producers, LogIgnored(p) \/ MaybeWake(p)
      PROVE  UNCHANGED <<pc, calls, accepted, refused, nr_log_calls, dropped>>
  BY <1>6 DEF LogIgnored, MaybeWake, WakeLoadSleeping, WakeLock, WakeSignal, WakeUnlock, Wake,
              ringVars, prodVars, countVars
<1>7. ASSUME Consumer \/ ConsumerSpuriousWakeup
      PROVE  UNCHANGED <<pc, calls, accepted, refused, nr_log_calls, dropped>>
  <2>1. CASE ConsumerDrain
    BY <2>1 DEF ConsumerDrain, Drain, PeekReady, ReadSlot, ConsumeSlot, countVars
  <2>2. ASSUME NEW from, NEW to, ConsumerStep(from, to)
        PROVE  UNCHANGED <<pc, calls, accepted, refused, nr_log_calls, dropped>>
    BY <2>2 DEF ConsumerStep, ringVars, prodVars, countVars
  <2> QED
    BY <1>7, <2>1, <2>2
    DEF Consumer, ConsumerSpuriousWakeup, ConsumerPeekEmpty, ConsumerFlush, ConsumerCheckRunning,
        ConsumerLock, ConsumerSetSleeping, ConsumerRecheckRing, ConsumerRecheckRunning,
        ConsumerCondWait, ConsumerReacquire, ConsumerClearSleeping, ConsumerUnlock
<1>8. ASSUME DestroyStop \/ Destroy \/ Gone \/ UNCHANGED vars
      PROVE  UNCHANGED <<pc, calls, accepted, refused, nr_log_calls, dropped>>
  BY <1>8 DEF DestroyStop, Destroy, DestroyLock, DestroyBroadcast, DestroyUnlock, DestroyJoin,
              DestroyFree, DestroyStep, Gone, vars, ringVars, prodVars, countVars
<1> QED
  BY <1>2, <1>3, <1>4, <1>5, <1>6, <1>7, <1>8 DEF HandlerNext, ProducerStep

(* Every call is counted once, as logged or as dropped: when none is in
   progress the counters that destroy prints are those of the ring's history,
   for any number of producers. *)
THEOREM CountersAreExact == HandlerSpec => []CountersExact
<1>1. HandlerInit => CountInv
  <2> SUFFICES ASSUME HandlerInit PROVE CountInv
    OBVIOUS
  <2>1. Claimed = {} /\ Refusing = {} /\ refused = {} /\ accepted = <<>>
    BY DEF HandlerInit, RingInit, Claimed, Refusing
  <2> QED BY <2>1, FS_EmptySet, LenProperties DEF HandlerInit, CountInv
<1>2. CountInv /\ HandlerInv /\ RingInv /\ [HandlerNext]_vars => CountInv'
  BY CountInvStep
<1>3. CountInv /\ HandlerInv => CountersExact
  <2> SUFFICES ASSUME CountInv, HandlerInv, \A p \in Producers : Outside(p)
               PROVE  nr_log_calls = Len(accepted) /\ dropped = Cardinality(refused)
    BY DEF CountersExact
  <2>1. Claimed = {} /\ Refusing = {}
    BY DEF Claimed, Refusing, Outside
  <2> QED BY <2>1, FS_EmptySet DEF CountInv, HandlerInv, HandlerTypeOK
<1>4. HandlerSpec => []RingInv
  BY HandlerUsesRing, RingInvariant, PTL
<1> QED BY <1>1, <1>2, <1>3, <1>4, HandlerInvariant, PTL DEF HandlerSpec

=============================================================================
