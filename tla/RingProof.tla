----------------------------- MODULE RingProof -----------------------------
(***************************************************************************)
(* Proofs about Ring, for every set of producers, every ring of at least   *)
(* two slots and every number of calls.  The argument: a position is at    *)
(* any time free, claimed or consumed, the sequence of its slot says       *)
(* which, and the positions between tail and tail + RingSize use different *)
(* slots.                                                                  *)
(***************************************************************************)
EXTENDS Ring, SequenceTheorems, TLAPS

----------------------------------------------------------------------------
(* Arithmetic of positions and slots. *)

(* A non-zero multiple of the ring size is at least one lap away. *)
LEMMA MultipleOfRingSize ==
  ASSUME NEW k \in Int
  PROVE  /\ k >= 1 => RingSize * k >= RingSize
         /\ k <= 0 => RingSize * k <= 0
BY RingSizeAssumption

(* A position is some number of laps and a slot. *)
LEMMA LapsAndSlot ==
  ASSUME NEW t \in Nat
  PROVE  /\ t = RingSize * (t \div RingSize) + Index(t)
         /\ t \div RingSize \in Int
         /\ Index(t) \in Slots
         /\ Index(t) \in Int
BY RingSizeAssumption DEF Index, Slots

(* Two positions less than a lap apart use different slots: the reason why
   pos & mask does not alias within the window tail .. tail + RingSize. *)
LEMMA IndexDistinct ==
  \A t, u \in Nat : t < u /\ u < t + RingSize => Index(t) # Index(u)
<1> SUFFICES ASSUME NEW t \in Nat, NEW u \in Nat, t < u, u < t + RingSize,
                    Index(t) = Index(u)
             PROVE  FALSE
  OBVIOUS
<1>1. /\ t = RingSize * (t \div RingSize) + Index(t)
      /\ t \div RingSize \in Int /\ Index(t) \in Int
  BY LapsAndSlot
<1>2. /\ u = RingSize * (u \div RingSize) + Index(u)
      /\ u \div RingSize \in Int /\ Index(u) \in Int
  BY LapsAndSlot
<1>3. PICK k \in Int : RingSize * k = u - t
  <2>1. RingSize * ((u \div RingSize) - (t \div RingSize)) = u - t
    BY <1>1, <1>2, RingSizeAssumption
  <2> QED BY <2>1, <1>1, <1>2
<1> QED BY <1>3, MultipleOfRingSize, RingSizeAssumption

(* Multiples of the ring size subtract. *)
LEMMA SubtractMultiples ==
  ASSUME NEW a \in Int, NEW b \in Int
  PROVE  RingSize * (a - b) = RingSize * a - RingSize * b
BY RingSizeAssumption

(* The slot is determined by any split of a position into laps and a rest. *)
LEMMA SlotUnique ==
  ASSUME NEW t \in Nat, NEW q \in Int, NEW r \in Slots, t = RingSize * q + r
  PROVE  r = Index(t)
<1>1. /\ t = RingSize * (t \div RingSize) + Index(t)
      /\ t \div RingSize \in Int /\ Index(t) \in Slots
  BY LapsAndSlot
<1> DEFINE d == t \div RingSize
<1> HIDE DEF d
<1>d. /\ t = RingSize * d + Index(t)
      /\ d \in Int /\ Index(t) \in Int /\ r \in Int
      /\ RingSize * d \in Int /\ RingSize * q \in Int
  BY <1>1, RingSizeAssumption DEF d, Slots
<1>2. PICK k \in Int : RingSize * k = Index(t) - r
  <2>1. RingSize * (q - d) = RingSize * q - RingSize * d
    BY <1>d, SubtractMultiples
  <2> QED BY <2>1, <1>d
<1>3. PICK j \in Int : RingSize * j = r - Index(t)
  <2>1. RingSize * (d - q) = RingSize * d - RingSize * q
    BY <1>d, SubtractMultiples
  <2> QED BY <2>1, <1>d
<1>4. k <= 0 /\ j <= 0
  BY <1>1, <1>2, <1>3, MultipleOfRingSize, RingSizeAssumption DEF Slots
<1>5. RingSize * k <= 0 /\ RingSize * j <= 0
  BY <1>4, MultipleOfRingSize
<1>6. Index(t) - r <= 0 /\ r - Index(t) <= 0
  BY <1>2, <1>3, <1>5
<1>7. Index(t) \in Int /\ r \in Int
  BY <1>1, RingSizeAssumption DEF Slots
<1> QED BY <1>6, <1>7

(* One lap later is the same slot. *)
LEMMA IndexWraps ==
  \A t \in Nat : Index(t + RingSize) = Index(t)
<1> SUFFICES ASSUME NEW t \in Nat PROVE Index(t + RingSize) = Index(t)
  OBVIOUS
<1>1. /\ t = RingSize * (t \div RingSize) + Index(t)
      /\ t \div RingSize \in Int /\ Index(t) \in Slots
  BY LapsAndSlot
<1> DEFINE q == (t \div RingSize) + 1
           u == t + RingSize
<1>2. q \in Int /\ u \in Nat
  BY <1>1, RingSizeAssumption
<1>3. u = RingSize * q + Index(t)
  BY <1>1, RingSizeAssumption DEF Slots
<1> HIDE DEF q, u
<1>4. Index(t) = Index(u)
  BY <1>1, <1>2, <1>3, SlotUnique
<1> QED BY <1>4 DEF u

(* The slots of the first lap are numbered by their positions. *)
LEMMA IndexFirstLap ==
  \A i \in Slots : Index(i) = i
BY RingSizeAssumption DEF Index, Slots

(* Every position has a slot. *)
LEMMA IndexInSlots ==
  \A t \in Nat : Index(t) \in Slots
BY LapsAndSlot

----------------------------------------------------------------------------
(* Type correctness. *)

(* A producer's current record, and the request that carries it whole. *)
LEMMA CurrentType ==
  ASSUME RingTypeOK, NEW p \in Producers, calls[p] # 0
  PROVE  Current(p) \in Record /\ Whole(Current(p)) \in Request
BY DEF RingTypeOK, Current, Record, Whole, Request

(* The initial state: zeroed slots, numbered by lmk_ring_init. *)
LEMMA InitType == RingInit => RingTypeOK
BY RingSizeAssumption, EmptySeq DEF RingInit, RingTypeOK, Slots, Request, Whole, ProducerState

(* A producer that is not idle has begun a call: part of LoopInv, needed for
   the type of what it writes. *)
CallsBegun == \A p \in Producers : pc[p] # "idle" => calls[p] # 0

(* Every step keeps the types, given that a running producer has begun a call. *)
LEMMA TypeStep ==
  ASSUME RingTypeOK, CallsBegun, [RingNext]_ringVars
  PROVE  RingTypeOK' /\ CallsBegun'
<1> USE DEF RingTypeOK, CallsBegun, ProducerState, Goto, slotVars
<1>1. ASSUME NEW p \in Producers, EnqueueCall(p)
      PROVE  RingTypeOK' /\ CallsBegun'
  BY <1>1 DEF EnqueueCall
<1>2. ASSUME NEW p \in Producers, EnqueueLoadHead(p)
      PROVE  RingTypeOK' /\ CallsBegun'
  BY <1>2 DEF EnqueueLoadHead
<1>3. ASSUME NEW p \in Producers, EnqueueLoadSequence(p)
      PROVE  RingTypeOK' /\ CallsBegun'
  <2>1. Whole(Current(p)) \in Request
    BY <1>3, CurrentType DEF EnqueueLoadSequence
  <2>2. refused' \in SUBSET Request
    BY <1>3, <2>1 DEF EnqueueLoadSequence
  <2> QED BY <1>3, <2>2 DEF EnqueueLoadSequence
<1>4. ASSUME NEW p \in Producers, EnqueueCas(p)
      PROVE  RingTypeOK' /\ CallsBegun'
  <2>1. Whole(Current(p)) \in Request
    BY <1>4, CurrentType DEF EnqueueCas
  <2>2. accepted' \in Seq(Request)
    BY <1>4, <2>1, AppendProperties DEF EnqueueCas
  <2> QED BY <1>4, <2>2 DEF EnqueueCas
<1>5. ASSUME NEW p \in Producers, EnqueueCasFail(p)
      PROVE  RingTypeOK' /\ CallsBegun'
  BY <1>5 DEF EnqueueCasFail
<1>6. ASSUME NEW p \in Producers, EnqueueWriteMeta(p)
      PROVE  RingTypeOK' /\ CallsBegun'
  <2>1. Current(p) \in Record
    BY <1>6, CurrentType DEF EnqueueWriteMeta
  <2> QED BY <1>6, <2>1 DEF EnqueueWriteMeta
<1>7. ASSUME NEW p \in Producers, EnqueueWriteData(p)
      PROVE  RingTypeOK' /\ CallsBegun'
  <2>1. Current(p) \in Record
    BY <1>7, CurrentType DEF EnqueueWriteData
  <2> QED BY <1>7, <2>1 DEF EnqueueWriteData
<1>8. ASSUME NEW p \in Producers, EnqueuePublish(p)
      PROVE  RingTypeOK' /\ CallsBegun'
  <2>1. pos[p] + 1 \in Nat
    OBVIOUS
  <2>2. sequence' \in [Slots -> Nat]
    BY <1>8, <2>1 DEF EnqueuePublish
  <2> QED BY <1>8, <2>2 DEF EnqueuePublish
<1>9. ASSUME NEW p \in Producers, EnqueueReturn(p)
      PROVE  RingTypeOK' /\ CallsBegun'
  BY <1>9 DEF EnqueueReturn
<1>10. CASE PeekReady
  BY <1>10 DEF PeekReady
<1>11. CASE ReadSlot
  <2>1. RequestAt(tail) \in Request
    BY IndexInSlots DEF RequestAt, Request
  <2>2. written' \in Seq(Request)
    BY <1>11, <2>1, AppendProperties DEF ReadSlot
  <2> QED BY <1>11, <2>2 DEF ReadSlot
<1>12. CASE ConsumeSlot
  <2>1. tail + RingSize \in Nat /\ tail + 1 \in Nat
    BY RingSizeAssumption
  <2>2. sequence' \in [Slots -> Nat]
    BY <1>12, <2>1 DEF ConsumeSlot
  <2> QED BY <1>12, <2>1, <2>2 DEF ConsumeSlot
<1>13. CASE UNCHANGED ringVars
  BY <1>13 DEF ringVars, prodVars
<1> QED
  BY <1>1, <1>2, <1>3, <1>4, <1>5, <1>6, <1>7, <1>8, <1>9, <1>10, <1>11, <1>12, <1>13
  DEF RingNext, Enqueue, Drain, Drained

(* Every state of the ring is well typed: slots hold requests made of records
   of real calls, and cursors and sequences are naturals. *)
THEOREM RingTypeCorrect == RingSpec => []RingTypeOK
<1>1. RingInit => RingTypeOK /\ CallsBegun
  BY InitType DEF RingInit, CallsBegun
<1>2. RingTypeOK /\ CallsBegun /\ [RingNext]_ringVars => RingTypeOK' /\ CallsBegun'
  BY TypeStep
<1> QED BY <1>1, <1>2, PTL DEF RingSpec

----------------------------------------------------------------------------
(* The inductive invariant. *)

(* In the first state no position is claimed and every slot is free. *)
LEMMA InitInv == RingInit => RingInv
<1> SUFFICES ASSUME RingInit PROVE RingInv
  OBVIOUS
<1>1. RingTypeOK
  BY InitType
<1>2. CursorInv /\ ConsumerInv /\ ClaimedInv
  BY RingSizeAssumption DEF RingInit, CursorInv, ConsumerInv, ClaimedInv
<1>3. FreeInv
  BY IndexFirstLap, RingSizeAssumption DEF RingInit, FreeInv, Sequence, Slots
<1>4. WriterInv /\ LoopInv
  BY MaxCallsAssumption DEF RingInit, WriterInv, LoopInv, Writing
<1> QED BY <1>1, <1>2, <1>3, <1>4 DEF RingInv

(* The part of the invariant that speaks of the slots and the consumer only. *)
SlotsInv == CursorInv /\ ConsumerInv /\ ClaimedInv /\ FreeInv

(* It stays true when slots, cursors and histories do. *)
LEMMA SlotsInvKept ==
  ASSUME SlotsInv, UNCHANGED <<head, tail, slotVars, slot, accepted, written>>
  PROVE  SlotsInv'
BY DEF SlotsInv, CursorInv, ConsumerInv, ClaimedInv, FreeInv, slotVars, Sequence, RequestAt, Index

(* What the writers know stays true when a producer that is not writing takes
   a step after which it still is not, and the slots are left alone. *)
LEMMA WriterInvKept ==
  ASSUME WriterInv, NEW p \in Producers, ~Writing(p), ~Writing(p)',
         UNCHANGED <<head, tail, slotVars, accepted>>,
         \A q \in Producers \ {p} :
           pc'[q] = pc[q] /\ pos'[q] = pos[q] /\ calls'[q] = calls[q]
  PROVE  WriterInv'
<1> SUFFICES ASSUME NEW q \in Producers, Writing(q)'
             PROVE  OwnsPosition(q)'
  BY DEF WriterInv
<1>1. q # p /\ Writing(q)
  BY DEF Writing
<1>2. \A r \in Producers : Writing(r)' => r # p /\ Writing(r)
  BY DEF Writing
<1> QED BY <1>1, <1>2 DEF WriterInv, OwnsPosition, Sequence, Index, Current, Whole, slotVars

(* EnqueueCall begins a call within the bound. *)
LEMMA CallStep ==
  ASSUME RingInv, NEW p \in Producers, EnqueueCall(p), RingTypeOK'
  PROVE  RingInv'
<1> USE DEF RingInv, EnqueueCall
<1>1. SlotsInv'
  BY SlotsInvKept DEF SlotsInv
<1>2. WriterInv'
  BY WriterInvKept DEF RingTypeOK, Writing, Goto
<1>3. LoopInv'
  BY MaxCallsAssumption DEF LoopInv, RingTypeOK, Goto, Sequence, Index, slotVars
<1> QED BY <1>1, <1>2, <1>3 DEF SlotsInv

(* A position just read from head: the sequence of its slot has reached it,
   unless the ring is full. *)
LEMMA HeadPosition ==
  ASSUME RingInv
  PROVE  head <= Sequence(head) \/ head = tail + RingSize
<1>1. CASE head < tail + RingSize
  <2>1. Sequence(head) = head
    BY <1>1, RingSizeAssumption DEF RingInv, RingTypeOK, CursorInv, FreeInv
  <2> QED BY <2>1 DEF RingInv, RingTypeOK
<1> QED BY <1>1, RingSizeAssumption DEF RingInv, RingTypeOK, CursorInv

(* Loading head. *)
LEMMA LoadHeadStep ==
  ASSUME RingInv, NEW p \in Producers,
         EnqueueLoadHead(p) \/ EnqueueCasFail(p), RingTypeOK'
  PROVE  RingInv'
<1> USE DEF RingInv, EnqueueLoadHead, EnqueueCasFail
<1>1. SlotsInv'
  BY SlotsInvKept DEF SlotsInv
<1>2. WriterInv'
  BY WriterInvKept DEF RingTypeOK, Writing, Goto
<1>3. LoopInv'
  BY HeadPosition DEF LoopInv, RingTypeOK, Goto, Sequence, Index, slotVars
<1> QED BY <1>1, <1>2, <1>3 DEF SlotsInv

(* Comparing the sequence with the position. *)
LEMMA LoadSequenceStep ==
  ASSUME RingInv, NEW p \in Producers, EnqueueLoadSequence(p), RingTypeOK'
  PROVE  RingInv'
<1> USE DEF RingInv, EnqueueLoadSequence
<1>1. SlotsInv'
  BY SlotsInvKept DEF SlotsInv
<1>2. WriterInv'
  BY WriterInvKept DEF RingTypeOK, Writing, Goto
<1>3. Sequence(pos[p]) \in Nat /\ pos[p] \in Nat
  BY IndexInSlots DEF Sequence, RingTypeOK
<1>4. LoopInv'
  BY <1>3 DEF LoopInv, RingTypeOK, Goto, Sequence, Index, slotVars
<1> QED BY <1>1, <1>2, <1>4 DEF SlotsInv

(* A slot whose sequence has reached head is free: in a full ring the slot of
   head is that of tail, whose sequence is at most tail + 1.  This is where
   the minimum size of two is needed. *)
LEMMA RoomAtHead ==
  ASSUME RingInv, head <= Sequence(head)
  PROVE  head < tail + RingSize /\ Sequence(head) = head
<1> USE DEF RingInv, RingTypeOK, CursorInv
<1>1. CASE head = tail + RingSize
  <2>1. Sequence(head) = Sequence(tail)
    BY <1>1, IndexWraps DEF Sequence
  <2>2. Sequence(tail) = tail \/ Sequence(tail) = tail + 1
    BY <1>1, RingSizeAssumption DEF ClaimedInv
  <2> QED BY <1>1, <2>1, <2>2, RingSizeAssumption
<1>2. CASE head < tail + RingSize
  BY <1>2, RingSizeAssumption DEF FreeInv
<1> QED BY <1>1, <1>2, RingSizeAssumption

(* Claiming a position. *)
LEMMA CasStep ==
  ASSUME RingInv, NEW p \in Producers, EnqueueCas(p), RingTypeOK'
  PROVE  RingInv'
<1> USE DEF RingInv, RingTypeOK, EnqueueCas
<1>1. head = pos[p] /\ head' = head + 1 /\ tail' = tail /\ pc[p] = "cas"
  OBVIOUS
<1>2. head < tail + RingSize /\ Sequence(head) = head
  BY <1>1, RoomAtHead DEF LoopInv
<1>3. \A t \in Nat : Sequence(t)' = Sequence(t) /\ RequestAt(t)' = RequestAt(t)
  BY DEF Sequence, RequestAt, Index, slotVars
<1>4. /\ Len(accepted) = head /\ Len(accepted') = head + 1
      /\ \A i \in 1 .. head : accepted'[i] = accepted[i]
      /\ accepted'[head + 1] = Whole(Current(p))
  <2>1. Len(accepted) = head /\ Whole(Current(p)) \in Request
    BY CurrentType, <1>1 DEF CursorInv, LoopInv
  <2> QED BY <2>1, AppendProperties
<1>5. CursorInv'
  BY <1>1, <1>2, <1>4, RingSizeAssumption DEF CursorInv
<1>6. ConsumerInv'
  <2>1. Len(written) <= head
    BY DEF ConsumerInv, CursorInv
  <2> QED BY <1>1, <1>3, <1>4, <2>1 DEF ConsumerInv
<1>7. ClaimedInv'
  <2> SUFFICES ASSUME NEW t \in tail .. head
               PROVE  (\/ Sequence(t) = t
                       \/ Sequence(t) = t + 1 /\ RequestAt(t) = accepted[t + 1])'
    <3>1. tail' .. head' - 1 = tail .. head
      BY <1>1
    <3> QED BY <3>1 DEF ClaimedInv
  <2>t. t \in Nat /\ Sequence(t)' = Sequence(t) /\ RequestAt(t)' = RequestAt(t)
    BY <1>3
  <2>1. CASE t = head
    BY <1>2, <2>t, <2>1
  <2>2. CASE t # head
    <3>1. t \in tail .. head - 1 /\ t + 1 \in 1 .. head
      BY <2>2
    <3>2. accepted'[t + 1] = accepted[t + 1]
      BY <3>1, <1>4
    <3>3. \/ Sequence(t) = t
          \/ Sequence(t) = t + 1 /\ RequestAt(t) = accepted[t + 1]
      BY <3>1 DEF ClaimedInv
    <3> QED BY <2>t, <3>2, <3>3
  <2> QED BY <2>1, <2>2
<1>8. FreeInv'
  BY <1>1, <1>3, RingSizeAssumption DEF FreeInv
<1>9. WriterInv'
  <2> SUFFICES ASSUME NEW q \in Producers, Writing(q)'
               PROVE  OwnsPosition(q)'
    BY DEF WriterInv
  <2>1. \A r \in Producers \ {p} : Writing(r)' => Writing(r) /\ pos[r] < head
    BY DEF Writing, Goto, WriterInv, OwnsPosition
  <2>2. CASE q = p
    BY <1>1, <1>2, <1>3, <1>4, <2>1, <2>2 DEF Goto, Current, Whole, CursorInv, OwnsPosition
  <2>3. CASE q # p
    <3>1. Writing(q) /\ pos[q] < head
      BY <2>1, <2>3
    <3>2. accepted'[pos[q] + 1] = accepted[pos[q] + 1]
      BY <3>1, <1>4
    <3>3. Sequence(pos[q]) = pos[q]
      BY <3>1 DEF WriterInv, OwnsPosition
    <3>4. Current(q)' = Current(q) /\ Whole(Current(q))' = Whole(Current(q))
      BY DEF Current, Whole
    <3>5. pc'[q] = pc[q]
      BY <2>3 DEF Goto
    <3>6. \A r \in Producers : Writing(r)' /\ r # q => pos[r] # pos[q]
      BY <1>1, <2>1, <3>1 DEF WriterInv, OwnsPosition
    <3>7. Index(pos[q])' = Index(pos[q])
      BY DEF Index
    <3> QED BY <1>1, <1>3, <3>1, <3>2, <3>3, <3>4, <3>5, <3>6, <3>7 DEF WriterInv, OwnsPosition, slotVars
  <2> QED BY <2>2, <2>3
<1>10. LoopInv'
  BY <1>1, <1>2, <1>3, RingSizeAssumption DEF LoopInv, Goto
<1> QED BY <1>5, <1>6, <1>7, <1>8, <1>9, <1>10

(* Returning to the caller. *)
LEMMA ReturnStep ==
  ASSUME RingInv, NEW p \in Producers, EnqueueReturn(p), RingTypeOK'
  PROVE  RingInv'
<1> USE DEF RingInv, EnqueueReturn
<1>1. SlotsInv'
  BY SlotsInvKept DEF SlotsInv
<1>2. WriterInv'
  BY WriterInvKept DEF RingTypeOK, Writing, Goto
<1>3. LoopInv'
  BY DEF LoopInv, RingTypeOK, Goto, Sequence, Index, slotVars
<1> QED BY <1>1, <1>2, <1>3 DEF SlotsInv

(* Two different positions of the window use different slots. *)
LEMMA OtherSlot ==
  ASSUME RingTypeOK,
         NEW t \in Nat, NEW u \in Nat, t # u,
         tail <= t, t < tail + RingSize, tail <= u, u < tail + RingSize
  PROVE  Index(t) # Index(u)
<1> USE RingSizeAssumption DEF RingTypeOK
<1>1. CASE t < u
  <2>1. u < t + RingSize
    OBVIOUS
  <2> QED BY <1>1, <2>1, IndexDistinct
<1>2. CASE u < t
  <2>1. t < u + RingSize
    OBVIOUS
  <2> QED BY <1>2, <2>1, IndexDistinct
<1> QED BY <1>1, <1>2

(* Filling the small members of a claimed slot. *)
LEMMA WriteMetaStep ==
  ASSUME RingInv, NEW p \in Producers, EnqueueWriteMeta(p), RingTypeOK'
  PROVE  RingInv'
<1> USE DEF RingInv, RingTypeOK, EnqueueWriteMeta
<1>1. /\ Writing(p)
      /\ \A q \in Producers : Writing(q)' <=> Writing(q)
      /\ \A q \in Producers \ {p} : pc'[q] = pc[q]
      /\ pc'[p] = "data"
  BY DEF Writing, Goto
<1>2. \A t \in Nat : Sequence(t)' = Sequence(t)
  BY DEF Sequence, Index
<1>3. \A t \in Nat : tail <= t /\ t < head /\ t # pos[p] =>
        /\ Index(t) # Index(pos[p])
        /\ RequestAt(t)' = RequestAt(t)
  <2> SUFFICES ASSUME NEW t \in Nat, tail <= t, t < head, t # pos[p]
               PROVE  Index(t) # Index(pos[p]) /\ RequestAt(t)' = RequestAt(t)
    OBVIOUS
  <2>1. /\ t < tail + RingSize
        /\ pos[p] \in Nat /\ tail <= pos[p] /\ pos[p] < tail + RingSize
    BY <1>1, RingSizeAssumption DEF WriterInv, OwnsPosition, CursorInv
  <2>2. Index(t) # Index(pos[p])
    BY <2>1, OtherSlot
  <2> QED BY <2>2, IndexInSlots DEF RequestAt, Index
<1>4. CursorInv' /\ ConsumerInv' /\ FreeInv'
  BY <1>2 DEF CursorInv, ConsumerInv, FreeInv
<1>5. ClaimedInv'
  <2> SUFFICES ASSUME NEW t \in tail .. head - 1
               PROVE  (\/ Sequence(t) = t
                       \/ Sequence(t) = t + 1 /\ RequestAt(t) = accepted[t + 1])'
    BY DEF ClaimedInv
  <2>1. CASE t = pos[p]
    BY <1>1, <1>2, <2>1 DEF WriterInv, OwnsPosition
  <2>2. CASE t # pos[p]
    BY <1>2, <1>3, <2>2 DEF ClaimedInv
  <2> QED BY <2>1, <2>2
<1>6. WriterInv'
  <2> SUFFICES ASSUME NEW q \in Producers, Writing(q)'
               PROVE  OwnsPosition(q)'
    BY DEF WriterInv
  <2>q. Writing(q)
    BY <1>1
  <2>1. Current(q)' = Current(q) /\ Whole(Current(q))' = Whole(Current(q)) /\ Index(pos[q])' = Index(pos[q])
    BY DEF Current, Whole, Index
  <2>2. (\A r \in Producers : Writing(r) /\ r # q => pos[r] # pos[q])'
    BY <2>q, <1>1 DEF WriterInv, OwnsPosition
  <2>3. /\ tail <= pos[q] /\ pos[q] < head
        /\ Sequence(pos[q]) = pos[q]
        /\ accepted[pos[q] + 1] = Whole(Current(q))
    BY <2>q DEF WriterInv, OwnsPosition
  <2>4. CASE q = p
    <3>1. meta'[Index(pos[q])] = Current(q)
      BY <2>4, IndexInSlots
    <3> QED BY <1>1, <1>2, <2>1, <2>2, <2>3, <2>4, <2>q, <3>1 DEF WriterInv, OwnsPosition
  <2>5. CASE q # p
    <3>1. Index(pos[q]) # Index(pos[p])
      BY <2>q, <1>1, <1>3, <2>3, <2>5 DEF WriterInv, OwnsPosition
    <3>2. meta'[Index(pos[q])] = meta[Index(pos[q])] /\ data'[Index(pos[q])] = data[Index(pos[q])]
      BY <3>1, IndexInSlots
    <3>3. pc'[q] = pc[q]
      BY <1>1, <2>5
    <3> QED BY <1>2, <2>1, <2>2, <2>3, <2>q, <3>2, <3>3 DEF WriterInv, OwnsPosition
  <2> QED BY <2>4, <2>5
<1>7. LoopInv'
  BY <1>2 DEF LoopInv, Goto
<1> QED BY <1>4, <1>5, <1>6, <1>7

(* Copying the text into a claimed slot. *)
LEMMA WriteDataStep ==
  ASSUME RingInv, NEW p \in Producers, EnqueueWriteData(p), RingTypeOK'
  PROVE  RingInv'
<1> USE DEF RingInv, RingTypeOK, EnqueueWriteData
<1>1. /\ Writing(p)
      /\ \A q \in Producers : Writing(q)' <=> Writing(q)
      /\ \A q \in Producers \ {p} : pc'[q] = pc[q]
      /\ pc'[p] = "publish"
  BY DEF Writing, Goto
<1>2. \A t \in Nat : Sequence(t)' = Sequence(t)
  BY DEF Sequence, Index
<1>3. \A t \in Nat : tail <= t /\ t < head /\ t # pos[p] =>
        /\ Index(t) # Index(pos[p])
        /\ RequestAt(t)' = RequestAt(t)
  <2> SUFFICES ASSUME NEW t \in Nat, tail <= t, t < head, t # pos[p]
               PROVE  Index(t) # Index(pos[p]) /\ RequestAt(t)' = RequestAt(t)
    OBVIOUS
  <2>1. /\ t < tail + RingSize
        /\ pos[p] \in Nat /\ tail <= pos[p] /\ pos[p] < tail + RingSize
    BY <1>1, RingSizeAssumption DEF WriterInv, OwnsPosition, CursorInv
  <2>2. Index(t) # Index(pos[p])
    BY <2>1, OtherSlot
  <2> QED BY <2>2, IndexInSlots DEF RequestAt, Index
<1>4. CursorInv' /\ ConsumerInv' /\ FreeInv'
  BY <1>2 DEF CursorInv, ConsumerInv, FreeInv
<1>5. ClaimedInv'
  <2> SUFFICES ASSUME NEW t \in tail .. head - 1
               PROVE  (\/ Sequence(t) = t
                       \/ Sequence(t) = t + 1 /\ RequestAt(t) = accepted[t + 1])'
    BY DEF ClaimedInv
  <2>1. CASE t = pos[p]
    BY <1>1, <1>2, <2>1 DEF WriterInv, OwnsPosition
  <2>2. CASE t # pos[p]
    BY <1>2, <1>3, <2>2 DEF ClaimedInv
  <2> QED BY <2>1, <2>2
<1>6. WriterInv'
  <2> SUFFICES ASSUME NEW q \in Producers, Writing(q)'
               PROVE  OwnsPosition(q)'
    BY DEF WriterInv
  <2>q. Writing(q)
    BY <1>1
  <2>1. Current(q)' = Current(q) /\ Whole(Current(q))' = Whole(Current(q)) /\ Index(pos[q])' = Index(pos[q])
    BY DEF Current, Whole, Index
  <2>2. (\A r \in Producers : Writing(r) /\ r # q => pos[r] # pos[q])'
    BY <2>q, <1>1 DEF WriterInv, OwnsPosition
  <2>3. /\ tail <= pos[q] /\ pos[q] < head
        /\ Sequence(pos[q]) = pos[q]
        /\ accepted[pos[q] + 1] = Whole(Current(q))
    BY <2>q DEF WriterInv, OwnsPosition
  <2>4. CASE q = p
    <3>1. data'[Index(pos[q])] = Current(q)
      BY <2>4, IndexInSlots
    <3> QED BY <1>1, <1>2, <2>1, <2>2, <2>3, <2>4, <2>q, <3>1 DEF WriterInv, OwnsPosition
  <2>5. CASE q # p
    <3>1. Index(pos[q]) # Index(pos[p])
      BY <2>q, <1>1, <1>3, <2>3, <2>5 DEF WriterInv, OwnsPosition
    <3>2. meta'[Index(pos[q])] = meta[Index(pos[q])] /\ data'[Index(pos[q])] = data[Index(pos[q])]
      BY <3>1, IndexInSlots
    <3>3. pc'[q] = pc[q]
      BY <1>1, <2>5
    <3> QED BY <1>2, <2>1, <2>2, <2>3, <2>q, <3>2, <3>3 DEF WriterInv, OwnsPosition
  <2> QED BY <2>4, <2>5
<1>7. LoopInv'
  BY <1>2 DEF LoopInv, Goto
<1> QED BY <1>4, <1>5, <1>6, <1>7

(* Publishing: the claimed slot now holds the request of its position. *)
LEMMA PublishStep ==
  ASSUME RingInv, NEW p \in Producers, EnqueuePublish(p), RingTypeOK'
  PROVE  RingInv'
<1> USE DEF RingInv, RingTypeOK, EnqueuePublish
<1>1. /\ Writing(p) /\ ~Writing(p)' /\ OwnsPosition(p)
      /\ \A q \in Producers : Writing(q)' => Writing(q) /\ q # p
      /\ \A q \in Producers \ {p} : pc'[q] = pc[q]
      /\ pc[p] = "publish" /\ pc'[p] = "done"
  BY DEF Writing, Goto, WriterInv
<1>2. /\ pos[p] \in Nat /\ tail <= pos[p] /\ pos[p] < head /\ head <= tail + RingSize
      /\ Sequence(pos[p]) = pos[p]
  BY <1>1 DEF OwnsPosition, CursorInv
<1>3. Sequence(pos[p])' = pos[p] + 1
  BY IndexInSlots DEF Sequence, Index
<1>4. \A t \in Nat : Index(t) # Index(pos[p]) => Sequence(t)' = Sequence(t)
  BY IndexInSlots DEF Sequence, Index
<1>5. \A t \in Nat : RequestAt(t)' = RequestAt(t)
  BY DEF RequestAt, Index
<1>6. \A t \in Nat : tail <= t /\ t < tail + RingSize /\ t # pos[p] =>
        /\ Index(t) # Index(pos[p])
        /\ Sequence(t)' = Sequence(t)
  <2> SUFFICES ASSUME NEW t \in Nat, tail <= t, t < tail + RingSize, t # pos[p]
               PROVE  Index(t) # Index(pos[p])
    BY <1>4
  <2>1. pos[p] < tail + RingSize
    BY <1>2, RingSizeAssumption
  <2> QED BY <1>2, <2>1, OtherSlot
<1>7. CursorInv'
  BY DEF CursorInv
<1>8. ConsumerInv'
  <2>1. slot # "null" => Sequence(tail)' = tail + 1
    <3> SUFFICES ASSUME slot # "null" PROVE Sequence(tail)' = tail + 1
      OBVIOUS
    <3>1. Sequence(tail) = tail + 1
      BY DEF ConsumerInv
    <3>2. tail # pos[p]
      BY <1>2, <3>1
    <3> QED BY <1>6, <3>1, <3>2, RingSizeAssumption
  <2> QED BY <2>1 DEF ConsumerInv
<1>9. ClaimedInv'
  <2> SUFFICES ASSUME NEW t \in tail .. head - 1
               PROVE  (\/ Sequence(t) = t
                       \/ Sequence(t) = t + 1 /\ RequestAt(t) = accepted[t + 1])'
    BY DEF ClaimedInv
  <2>1. CASE t = pos[p]
    <3>1. RequestAt(pos[p]) = accepted[pos[p] + 1]
      BY <1>1 DEF OwnsPosition, RequestAt, Whole
    <3> QED BY <1>2, <1>3, <1>5, <2>1, <3>1
  <2>2. CASE t # pos[p]
    <3>1. t \in Nat /\ tail <= t /\ t < tail + RingSize
      BY <1>2, RingSizeAssumption
    <3> QED BY <1>5, <1>6, <2>2, <3>1 DEF ClaimedInv
  <2> QED BY <2>1, <2>2
<1>10. FreeInv'
  <2> SUFFICES ASSUME NEW t \in head .. tail + RingSize - 1
               PROVE  Sequence(t)' = t
    BY DEF FreeInv
  <2>1. t \in Nat /\ tail <= t /\ t < tail + RingSize /\ t # pos[p]
    BY <1>2, RingSizeAssumption
  <2> QED BY <1>6, <2>1 DEF FreeInv
<1>11. WriterInv'
  <2> SUFFICES ASSUME NEW q \in Producers, Writing(q)' PROVE OwnsPosition(q)'
    BY DEF WriterInv
  <2>1. Writing(q) /\ q # p /\ OwnsPosition(q) /\ pos[q] # pos[p] /\ pc'[q] = pc[q]
    BY <1>1 DEF WriterInv, OwnsPosition
  <2>2. Sequence(pos[q])' = Sequence(pos[q])
    <3>1. pos[q] \in Nat /\ tail <= pos[q] /\ pos[q] < tail + RingSize
      BY <1>2, <2>1, RingSizeAssumption DEF OwnsPosition
    <3> QED BY <1>6, <2>1, <3>1
  <2>3. (\A r \in Producers : Writing(r) /\ r # q => pos[r] # pos[q])'
    BY <1>1, <2>1 DEF OwnsPosition
  <2>4. /\ Current(q)' = Current(q) /\ Whole(Current(q))' = Whole(Current(q))
        /\ Index(pos[q])' = Index(pos[q])
    BY DEF Current, Whole, Index
  <2> QED BY <2>1, <2>2, <2>3, <2>4 DEF OwnsPosition
<1>12. LoopInv'
  <2>1. \A t \in Nat : Sequence(t) \in Nat /\ Sequence(t)' >= Sequence(t)
    <3> SUFFICES ASSUME NEW t \in Nat
                 PROVE  Sequence(t) \in Nat /\ Sequence(t)' >= Sequence(t)
      OBVIOUS
    <3>1. Sequence(t) \in Nat
      BY IndexInSlots DEF Sequence
    <3>2. Index(t) = Index(pos[p]) =>
            Sequence(t) = pos[p] /\ Sequence(t)' = pos[p] + 1
      BY <1>2, IndexInSlots DEF Sequence, Index
    <3> QED BY <1>2, <1>4, <3>1, <3>2
  <2>2. \A q \in Producers : /\ pos[q] \in Nat /\ Sequence(pos[q])' >= Sequence(pos[q])
                             /\ Sequence(pos[q]) \in Nat /\ Sequence(pos[q])' \in Nat
    BY <2>1, IndexInSlots DEF Sequence, Index
  <2> QED BY <1>1, <2>2 DEF LoopInv
<1> QED BY <1>7, <1>8, <1>9, <1>10, <1>11, <1>12

(* The consumer's peek: a published slot at tail was claimed. *)
LEMMA PeekStep ==
  ASSUME RingInv, PeekReady, RingTypeOK'
  PROVE  RingInv'
<1> USE DEF RingInv, RingTypeOK, PeekReady
<1>1. tail < head
  <2> SUFFICES ASSUME head = tail PROVE FALSE
    BY DEF CursorInv
  <2>1. Sequence(tail) = tail
    BY RingSizeAssumption DEF FreeInv
  <2> QED BY <2>1 DEF Ready
<1>2. \A t \in Nat : Sequence(t)' = Sequence(t) /\ RequestAt(t)' = RequestAt(t) /\ Index(t)' = Index(t)
  BY DEF Sequence, RequestAt, Index, slotVars
<1>3. CursorInv' /\ ConsumerInv' /\ ClaimedInv' /\ FreeInv'
  BY <1>1, <1>2 DEF CursorInv, ConsumerInv, ClaimedInv, FreeInv, Ready
<1>4. WriterInv'
  BY <1>2 DEF WriterInv, OwnsPosition, Writing, Current, Whole, slotVars
<1>5. LoopInv'
  BY <1>2 DEF LoopInv
<1> QED BY <1>3, <1>4, <1>5

(* The consumer reads the request that was accepted at this position. *)
LEMMA ReadStep ==
  ASSUME RingInv, ReadSlot, RingTypeOK'
  PROVE  RingInv'
<1> USE DEF RingInv, RingTypeOK, ReadSlot
<1>1. /\ tail < head /\ Sequence(tail) = tail + 1
      /\ Len(written) = tail
      /\ \A i \in 1 .. tail : written[i] = accepted[i]
  BY DEF ConsumerInv
<1>2. RequestAt(tail) = accepted[tail + 1]
  BY <1>1 DEF ClaimedInv
<1>3. /\ Len(written') = tail + 1
      /\ \A i \in 1 .. tail : written'[i] = written[i]
      /\ written'[tail + 1] = RequestAt(tail)
  <2>1. RequestAt(tail) \in Request
    BY IndexInSlots DEF RequestAt, Request
  <2> QED BY <1>1, <2>1, AppendProperties
<1>4. \A t \in Nat : Sequence(t)' = Sequence(t) /\ RequestAt(t)' = RequestAt(t) /\ Index(t)' = Index(t)
  BY DEF Sequence, RequestAt, Index, slotVars
<1>5. ConsumerInv'
  <2>1. \A i \in 1 .. tail + 1 : written'[i] = accepted[i]
    BY <1>1, <1>2, <1>3
  <2> QED BY <1>1, <1>3, <1>4, <2>1 DEF ConsumerInv
<1>6. CursorInv' /\ ClaimedInv' /\ FreeInv'
  BY <1>4 DEF CursorInv, ClaimedInv, FreeInv
<1>7. WriterInv'
  BY <1>4 DEF WriterInv, OwnsPosition, Writing, Current, Whole, slotVars
<1>8. LoopInv'
  BY <1>4 DEF LoopInv
<1> QED BY <1>5, <1>6, <1>7, <1>8

(* Consuming: the slot of tail becomes the free slot of tail + RingSize. *)
LEMMA ConsumeStep ==
  ASSUME RingInv, ConsumeSlot, RingTypeOK'
  PROVE  RingInv'
<1> USE DEF RingInv, RingTypeOK, ConsumeSlot
<1>1. /\ tail < head /\ Sequence(tail) = tail + 1 /\ head <= tail + RingSize
      /\ Len(written) = tail + 1 /\ Len(accepted) = head
      /\ \A i \in 1 .. Len(written) : written[i] = accepted[i]
  BY DEF ConsumerInv, CursorInv
<1>2. \A t \in Nat : t = tail + RingSize => Sequence(t)' = t
  <2>1. sequence'[Index(tail)] = tail + RingSize
    BY IndexInSlots
  <2>2. Index(tail + RingSize) = Index(tail)
    BY IndexWraps
  <2> QED BY <2>1, <2>2 DEF Sequence, Index
<1>3. \A t \in Nat : Index(t) # Index(tail) => Sequence(t)' = Sequence(t)
  BY IndexInSlots DEF Sequence, Index
<1>4. \A t \in Nat : RequestAt(t)' = RequestAt(t)
  BY DEF RequestAt, Index
<1>5. \A t \in Nat : tail < t /\ t < tail + RingSize => Sequence(t)' = Sequence(t)
  BY <1>3, IndexDistinct
<1>6. CursorInv' /\ ConsumerInv'
  BY <1>1, RingSizeAssumption DEF CursorInv, ConsumerInv
<1>7. ClaimedInv'
  <2> SUFFICES ASSUME NEW t \in tail + 1 .. head - 1
               PROVE  (\/ Sequence(t) = t
                       \/ Sequence(t) = t + 1 /\ RequestAt(t) = accepted[t + 1])'
    BY DEF ClaimedInv
  <2>1. t \in Nat /\ tail < t /\ t < tail + RingSize /\ t \in tail .. head - 1
    BY <1>1, RingSizeAssumption
  <2> QED BY <1>4, <1>5, <2>1 DEF ClaimedInv
<1>8. FreeInv'
  <2> SUFFICES ASSUME NEW t \in Nat, head <= t, t <= tail + RingSize
               PROVE  Sequence(t)' = t
    BY RingSizeAssumption DEF FreeInv
  <2>1. CASE t = tail + RingSize
    BY <1>2, <2>1
  <2>2. CASE t < tail + RingSize
    <3>1. Sequence(t)' = Sequence(t)
      BY <1>1, <1>5, <2>2
    <3>2. Sequence(t) = t
      BY <2>2, RingSizeAssumption DEF FreeInv
    <3> QED BY <3>1, <3>2
  <2> QED BY <2>1, <2>2, RingSizeAssumption
<1>9. WriterInv'
  <2> SUFFICES ASSUME NEW q \in Producers, Writing(q)' PROVE OwnsPosition(q)'
    BY DEF WriterInv
  <2>1. Writing(q) /\ OwnsPosition(q) /\ pos[q] \in Nat
    BY DEF Writing, WriterInv
  <2>2. tail < pos[q] /\ pos[q] < tail + RingSize
    BY <1>1, <2>1, RingSizeAssumption DEF OwnsPosition
  <2>3. Sequence(pos[q])' = Sequence(pos[q])
    BY <1>5, <2>1, <2>2
  <2>4. (\A r \in Producers : Writing(r) /\ r # q => pos[r] # pos[q])'
    BY <2>1 DEF OwnsPosition, Writing
  <2>5. /\ Current(q)' = Current(q) /\ Whole(Current(q))' = Whole(Current(q))
        /\ Index(pos[q])' = Index(pos[q])
    BY DEF Current, Whole, Index
  <2> QED BY <2>1, <2>2, <2>3, <2>4, <2>5 DEF OwnsPosition
<1>10. LoopInv'
  <2> SUFFICES ASSUME NEW q \in Producers, pc[q] \in {"check", "cas"}
               PROVE  /\ \/ pos[q] <= Sequence(pos[q]) /\ pos[q] <= head
                         \/ pc[q] = "check" /\ pos[q] = head /\ head = tail + RingSize
                      => pos[q] <= Sequence(pos[q])' /\ pos[q] <= head
    BY DEF LoopInv
  <2>1. pos[q] \in Nat /\ Sequence(pos[q]) \in Nat
    BY IndexInSlots DEF Sequence
  <2>2. CASE Index(pos[q]) = Index(tail)
    <3>1. Sequence(pos[q]) = tail + 1 /\ Sequence(pos[q])' = tail + RingSize
      BY <1>1, <2>2, IndexInSlots DEF Sequence, Index
    <3> QED BY <2>1, <3>1, RingSizeAssumption
  <2>3. CASE Index(pos[q]) # Index(tail)
    <3>1. Sequence(pos[q])' = Sequence(pos[q])
      BY <1>3, <2>1, <2>3
    <3>2. pos[q] # tail + RingSize
      BY <2>3, IndexWraps
    <3> QED BY <2>1, <3>1, <3>2
  <2> QED BY <2>2, <2>3
<1> QED BY <1>6, <1>7, <1>8, <1>9, <1>10

(* RingInv is inductive. *)
LEMMA InvStep ==
  ASSUME RingInv, [RingNext]_ringVars
  PROVE  RingInv'
<1>1. RingTypeOK'
  <2>1. CallsBegun
    BY MaxCallsAssumption DEF RingInv, LoopInv, CallsBegun
  <2> QED BY <2>1, TypeStep DEF RingInv
<1>2. ASSUME NEW p \in Producers, EnqueueCall(p) \/ Enqueue(p) \/ EnqueueReturn(p)
      PROVE  RingInv'
  BY <1>1, <1>2, CallStep, LoadHeadStep, LoadSequenceStep, CasStep, WriteMetaStep,
     WriteDataStep, PublishStep, ReturnStep DEF Enqueue
<1>3. CASE Drain
  BY <1>1, <1>3, PeekStep, ReadStep, ConsumeStep DEF Drain
<1>4. CASE UNCHANGED ringVars
  <2>1. SlotsInv'
    BY <1>4, SlotsInvKept DEF RingInv, SlotsInv, ringVars
  <2>2. WriterInv' /\ LoopInv'
    BY <1>4 DEF RingInv, WriterInv, LoopInv, OwnsPosition, Writing, Current, Whole,
                Sequence, Index, ringVars, slotVars, prodVars
  <2> QED BY <1>1, <2>1, <2>2 DEF RingInv, SlotsInv
<1> QED BY <1>2, <1>3, <1>4 DEF RingNext, Drained

(* The invariant of the handshake on sequence holds in every state: claimed
   positions are being filled or hold their request, free ones carry their
   number, and no two producers own the same one. *)
THEOREM RingInvariant == RingSpec => []RingInv
<1>1. RingInit => RingInv
  BY InitInv
<1>2. RingInv /\ [RingNext]_ringVars => RingInv'
  BY InvStep
<1> QED BY <1>1, <1>2, PTL DEF RingSpec

----------------------------------------------------------------------------
(* What the invariant gives. *)

(* No two threads ever use one slot: producers fill different slots, and none
   fills the slot the consumer reads in place. *)
THEOREM OneOwnerPerSlot == RingSpec => []SlotOwnership
<1>1. RingInv => SlotOwnership
  <2> SUFFICES ASSUME RingInv, NEW p \in Producers, Writing(p)
               PROVE  /\ slot # "null" => Index(pos[p]) # Index(tail)
                      /\ \A q \in Producers \ {p} : Writing(q) => Index(pos[p]) # Index(pos[q])
    BY DEF SlotOwnership
  <2> USE DEF RingInv, RingTypeOK
  <2>1. /\ OwnsPosition(p) /\ pos[p] \in Nat
        /\ tail <= pos[p] /\ pos[p] < tail + RingSize
    BY RingSizeAssumption DEF WriterInv, OwnsPosition, CursorInv
  <2>2. ASSUME slot # "null" PROVE Index(pos[p]) # Index(tail)
    <3>1. pos[p] # tail
      BY <2>1, <2>2 DEF ConsumerInv, OwnsPosition
    <3> QED BY <2>1, <3>1, OtherSlot, RingSizeAssumption
  <2>3. ASSUME NEW q \in Producers \ {p}, Writing(q) PROVE Index(pos[p]) # Index(pos[q])
    <3>1. /\ pos[q] \in Nat /\ pos[q] # pos[p]
          /\ tail <= pos[q] /\ pos[q] < tail + RingSize
      BY <2>1, <2>3, RingSizeAssumption DEF WriterInv, OwnsPosition, CursorInv
    <3> QED BY <2>1, <3>1, OtherSlot
  <2> QED BY <2>2, <2>3
<1> QED BY <1>1, RingInvariant, PTL

(* The consumer reads exactly the accepted requests, whole, once and in the
   order of acceptance. *)
THEOREM ReadInAcceptanceOrder == RingSpec => []WrittenInOrder
<1>1. RingInv => WrittenInOrder
  BY DEF RingInv, RingTypeOK, ConsumerInv, CursorInv, WrittenInOrder
<1> QED BY <1>1, RingInvariant, PTL

(* A producer that finds the sequence of its position behind is at the head
   of a full ring, at that very instant. *)
LEMMA FullWhenBehind ==
  ASSUME RingInv, NEW p \in Producers, pc[p] = "check", Sequence(pos[p]) - pos[p] < 0
  PROVE  head - tail = RingSize
<1>1. Sequence(pos[p]) \in Nat /\ pos[p] \in Nat
  BY IndexInSlots DEF Sequence, RingInv, RingTypeOK
<1> QED BY <1>1, RingSizeAssumption DEF RingInv, RingTypeOK, LoopInv

(* A log call is refused only while the ring is full. *)
THEOREM NoEarlyRefusal == RingSpec => RefusedOnlyWhenFull
<1>1. RingInv /\ [RingNext]_ringVars => [refused' # refused => head - tail = RingSize]_ringVars
  <2> SUFFICES ASSUME RingInv, RingNext, refused' # refused
               PROVE  head - tail = RingSize
    BY DEF ringVars
  <2>1. PICK p \in Producers : EnqueueLoadSequence(p)
    BY DEF RingNext, Enqueue, Drain, Drained, EnqueueCall, EnqueueLoadHead, EnqueueCas,
           EnqueueCasFail, EnqueueWriteMeta, EnqueueWriteData, EnqueuePublish, EnqueueReturn,
           PeekReady, ReadSlot, ConsumeSlot, ringVars
  <2>2. pc[p] = "check" /\ Sequence(pos[p]) - pos[p] < 0
    BY <2>1 DEF EnqueueLoadSequence
  <2> QED BY <2>2, FullWhenBehind
<1> QED BY <1>1, RingInvariant, PTL DEF RingSpec, RefusedOnlyWhenFull

----------------------------------------------------------------------------
(* The ring implements the abstract queue. *)

(* Every step of the ring is a step of the queue, or leaves it alone. *)
LEMMA QueueStep ==
  ASSUME RingInv, [RingNext]_ringVars
  PROVE  [Queue!Next]_Queue!vars
<1> USE DEF Queue!vars
<1>1. ASSUME NEW p \in Producers, pc[p] # "idle"
      PROVE  Whole(Current(p)) \in {Whole(<<q, n>>) : q \in Producers, n \in 1 .. MaxCalls}
  BY <1>1 DEF RingInv, LoopInv, Current
<1>2. ASSUME NEW p \in Producers, EnqueueCas(p)
      PROVE  Queue!Next
  <2>1. head < tail + RingSize
    BY <1>2, RoomAtHead DEF EnqueueCas, RingInv, LoopInv
  <2>2. Len(accepted) - tail < RingSize
    BY <2>1, RingSizeAssumption DEF RingInv, RingTypeOK, CursorInv
  <2>3. Queue!Accept(Whole(Current(p)))
    BY <1>2, <2>2 DEF EnqueueCas, Queue!Accept
  <2> QED BY <1>1, <1>2, <2>3 DEF Queue!Next, EnqueueCas
<1>3. ASSUME NEW p \in Producers, EnqueueLoadSequence(p), ~UNCHANGED refused
      PROVE  Queue!Next
  <2>1. pc[p] = "check" /\ Sequence(pos[p]) - pos[p] < 0
    BY <1>3 DEF EnqueueLoadSequence
  <2>2. Len(accepted) - tail = RingSize
    BY <2>1, FullWhenBehind DEF RingInv, CursorInv
  <2>3. Queue!Refuse(Whole(Current(p)))
    BY <1>3, <2>1, <2>2 DEF EnqueueLoadSequence, Queue!Refuse
  <2> QED BY <1>1, <2>1, <2>3 DEF Queue!Next
<1>4. ASSUME ReadSlot
      PROVE  Queue!Next
  <2>1. /\ Len(written) = tail /\ tail < head /\ Len(accepted) = head
        /\ RequestAt(tail) = accepted[tail + 1]
    <3>1. /\ Len(written) = tail /\ tail < head /\ Len(accepted) = head
          /\ Sequence(tail) = tail + 1
      BY <1>4 DEF ReadSlot, RingInv, ConsumerInv, CursorInv
    <3>2. RequestAt(tail) = accepted[tail + 1]
      BY <3>1 DEF RingInv, RingTypeOK, ClaimedInv
    <3> QED BY <3>1, <3>2
  <2>2. Queue!Write
    BY <1>4, <2>1 DEF ReadSlot, Queue!Write
  <2> QED BY <2>2 DEF Queue!Next
<1>5. ASSUME ConsumeSlot
      PROVE  Queue!Next
  <2>1. tail < Len(written)
    BY <1>5 DEF ConsumeSlot, RingInv, RingTypeOK, ConsumerInv
  <2>2. Queue!Release
    BY <1>5, <2>1 DEF ConsumeSlot, Queue!Release
  <2> QED BY <2>2 DEF Queue!Next
<1>6. ASSUME UNCHANGED <<accepted, refused, written, tail>>
      PROVE  UNCHANGED Queue!vars
  BY <1>6
<1> QED
  BY <1>2, <1>3, <1>4, <1>5, <1>6
  DEF RingNext, Enqueue, Drain, Drained, EnqueueCall, EnqueueLoadHead, EnqueueLoadSequence,
      EnqueueCasFail, EnqueueWriteMeta, EnqueueWriteData, EnqueuePublish, EnqueueReturn,
      PeekReady, ringVars

(* The lock-free ring behaves as an atomic bounded queue that refuses only
   when full. *)
THEOREM RingImplementsQueue == RingSpec => ImplementsQueue
<1>1. RingInit => Queue!Init
  BY DEF RingInit, Queue!Init
<1>2. RingInv /\ [RingNext]_ringVars => [Queue!Next]_Queue!vars
  BY QueueStep
<1> QED BY <1>1, <1>2, RingInvariant, PTL DEF RingSpec, ImplementsQueue, Queue!Spec

=============================================================================
