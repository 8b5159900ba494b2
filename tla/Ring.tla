------------------------------- MODULE Ring --------------------------------
(***************************************************************************)
(* The bounded ring every log handler owns (src/src/main/logmoko.h,        *)
(* lmk_ring_slot .. lmk_ring_consume): any number of producers enqueue     *)
(* without a lock, one consumer peeks and consumes.                        *)
(*                                                                         *)
(* One action is one access to shared memory: a load, a store or a         *)
(* compare-and-swap of an atomic, or one of the two groups of plain stores *)
(* that fill a claimed slot.  The atomics are sequentially consistent      *)
(* here; positions are naturals, since a 64-bit counter does not wrap in   *)
(* the life of a process.  pos & mask is pos % RingSize because            *)
(* lmk_next_pow2 makes the size a power of two, at least 2.                *)
(***************************************************************************)
EXTENDS Integers, Sequences

CONSTANTS
  Producers,   \* the threads that log
  RingSize,    \* number of slots (ring_mask + 1)
  MaxCalls     \* bound: log calls each producer makes

ASSUME RingSizeAssumption == RingSize \in Nat /\ RingSize >= 2
ASSUME MaxCallsAssumption == MaxCalls \in Nat

VARIABLES
  head,        \* producer cursor: the next position to claim
  tail,        \* consumer cursor: the next position to consume
  sequence,    \* the sequence of each slot of ring_buffer
  meta,        \* the four small members of its request
  data,        \* the text of its request
  slot,        \* the consumer's local pointer: "null", "ready" or "read"
  pc,          \* where each producer is in lmk_ring_enqueue
  pos,         \* its local variable pos
  calls,       \* the number of log calls it has begun
  accepted,    \* history: the requests whose position was claimed, in order
  refused,     \* history: the requests turned away because the ring was full
  written      \* history: the requests the consumer took out, as it read them

prodVars == <<pc, pos, calls>>
slotVars == <<sequence, meta, data>>
ringVars == <<head, tail, slotVars, slot, prodVars, accepted, refused, written>>

----------------------------------------------------------------------------
(* A record is named by its producer and the number of the call.  A request
   in a slot has two parts, filled by separate stores: the members log_level,
   line_no, file_name and handler_name (meta), and the text (data).  A request
   whose two parts name different records is torn. *)
NoRecord == <<>>
Record == Producers \X (Nat \ {0})
Whole(r) == [meta |-> r, data |-> r]
Request == [meta : Record \cup {NoRecord}, data : Record \cup {NoRecord}]

Slots == 0 .. RingSize - 1
Index(t) == t % RingSize
Sequence(t) == sequence[Index(t)]
RequestAt(t) == [meta |-> meta[Index(t)], data |-> data[Index(t)]]
Current(p) == <<p, calls[p]>>

ProducerState == {"idle", "load", "check", "cas", "meta", "data", "publish", "done", "full"}
Writing(p) == pc[p] \in {"meta", "data", "publish"}

RingTypeOK ==
  /\ head \in Nat
  /\ tail \in Nat
  /\ sequence \in [Slots -> Nat]
  /\ meta \in [Slots -> Record \cup {NoRecord}]
  /\ data \in [Slots -> Record \cup {NoRecord}]
  /\ slot \in {"null", "ready", "read"}
  /\ pc \in [Producers -> ProducerState]
  /\ pos \in [Producers -> Nat]
  /\ calls \in [Producers -> Nat]
  /\ accepted \in Seq(Request)
  /\ refused \in SUBSET Request
  /\ written \in Seq(Request)

----------------------------------------------------------------------------
(* lmk_malloc zeroes the slots; lmk_ring_init numbers them. *)
RingInit ==
  /\ head = 0
  /\ tail = 0
  /\ sequence = [i \in Slots |-> i]
  /\ meta = [i \in Slots |-> NoRecord]
  /\ data = [i \in Slots |-> NoRecord]
  /\ slot = "null"
  /\ pc = [p \in Producers |-> "idle"]
  /\ pos = [p \in Producers |-> 0]
  /\ calls = [p \in Producers |-> 0]
  /\ accepted = <<>>
  /\ refused = {}
  /\ written = <<>>

Goto(p, state) == pc' = [pc EXCEPT ![p] = state]

(* A producer enters lmk_ring_enqueue with its next record. *)
EnqueueCall(p) ==
  /\ pc[p] = "idle"
  /\ calls[p] < MaxCalls
  /\ calls' = [calls EXCEPT ![p] = @ + 1]
  /\ Goto(p, "load")
  /\ UNCHANGED <<head, tail, slotVars, slot, pos, accepted, refused, written>>

(* pos = head: on entry, and again when the slot was already taken. *)
EnqueueLoadHead(p) ==
  /\ pc[p] = "load"
  /\ pos' = [pos EXCEPT ![p] = head]
  /\ Goto(p, "check")
  /\ UNCHANGED <<head, tail, slotVars, slot, calls, accepted, refused, written>>

(* Mutant: every non-zero difference is taken for a full ring. *)
RefuseOnAnyDifference(p) ==
  /\ pc[p] = "check"
  /\ \/ /\ Sequence(pos[p]) = pos[p]
        /\ Goto(p, "cas")
        /\ UNCHANGED refused
     \/ /\ Sequence(pos[p]) # pos[p]
        /\ Goto(p, "full")
        /\ refused' = refused \cup {Whole(Current(p))}
  /\ UNCHANGED <<head, tail, slotVars, slot, pos, calls, accepted, written>>

(* seq = slot->sequence, and the three branches on diff = seq - pos. *)
EnqueueLoadSequence(p) ==
  /\ pc[p] = "check"
  /\ LET diff == Sequence(pos[p]) - pos[p]
     IN  \/ /\ diff = 0
            /\ Goto(p, "cas")
            /\ UNCHANGED refused
         \/ /\ diff < 0
            /\ Goto(p, "full")
            /\ refused' = refused \cup {Whole(Current(p))}
         \/ /\ diff > 0
            /\ Goto(p, "load")
            /\ UNCHANGED refused
  /\ UNCHANGED <<head, tail, slotVars, slot, pos, calls, accepted, written>>

(* Mutant: a plain store in place of the compare-and-swap. *)
ClaimWithoutCompare(p) ==
  /\ pc[p] = "cas"
  /\ head' = pos[p] + 1
  /\ accepted' = Append(accepted, Whole(Current(p)))
  /\ Goto(p, "meta")
  /\ UNCHANGED <<tail, slotVars, slot, pos, calls, refused, written>>

(* The compare-and-swap succeeds: position pos now belongs to p. *)
EnqueueCas(p) ==
  /\ pc[p] = "cas"
  /\ head = pos[p]
  /\ head' = pos[p] + 1
  /\ accepted' = Append(accepted, Whole(Current(p)))
  /\ Goto(p, "meta")
  /\ UNCHANGED <<tail, slotVars, slot, pos, calls, refused, written>>

(* It fails, for another producer moved head or spuriously (it is the weak
   form), leaves the current head in pos, and the loop reads that slot. *)
EnqueueCasFail(p) ==
  /\ pc[p] = "cas"
  /\ pos' = [pos EXCEPT ![p] = head]
  /\ Goto(p, "check")
  /\ UNCHANGED <<head, tail, slotVars, slot, calls, accepted, refused, written>>

(* Mutant: the slot is published before the text is copied. *)
PublishBeforeData(p) ==
  /\ pc[p] = "meta"
  /\ meta' = [meta EXCEPT ![Index(pos[p])] = Current(p)]
  /\ sequence' = [sequence EXCEPT ![Index(pos[p])] = pos[p] + 1]
  /\ Goto(p, "data")
  /\ UNCHANGED <<data, head, tail, slot, pos, calls, accepted, refused, written>>

(* The plain stores of the four small members of the request. *)
EnqueueWriteMeta(p) ==
  /\ pc[p] = "meta"
  /\ meta' = [meta EXCEPT ![Index(pos[p])] = Current(p)]
  /\ Goto(p, "data")
  /\ UNCHANGED <<sequence, data, head, tail, slot, pos, calls, accepted, refused, written>>

(* The memcpy of the text and its terminator. *)
EnqueueWriteData(p) ==
  /\ pc[p] = "data"
  /\ data' = [data EXCEPT ![Index(pos[p])] = Current(p)]
  /\ Goto(p, "publish")
  /\ UNCHANGED <<sequence, meta, head, tail, slot, pos, calls, accepted, refused, written>>

(* sequence = pos + 1: the slot is ready, and the call returns 1. *)
EnqueuePublish(p) ==
  /\ pc[p] = "publish"
  /\ sequence' = [sequence EXCEPT ![Index(pos[p])] = pos[p] + 1]
  /\ Goto(p, "done")
  /\ UNCHANGED <<meta, data, head, tail, slot, pos, calls, accepted, refused, written>>

(* The caller takes the result, 1 ("done") or 0 ("full"), and goes on. *)
EnqueueReturn(p) ==
  /\ pc[p] \in {"done", "full"}
  /\ Goto(p, "idle")
  /\ UNCHANGED <<head, tail, slotVars, slot, pos, calls, accepted, refused, written>>

(* Mutant: a slot that is claimed but not yet filled counts as ready. *)
ReadyWhenClaimed == Sequence(tail) >= tail /\ tail < head

(* The slot at tail is published: lmk_ring_peek_slot returns it. *)
Ready == Sequence(tail) = tail + 1

PeekReady ==
  /\ slot = "null"
  /\ Ready
  /\ slot' = "ready"
  /\ UNCHANGED <<head, tail, slotVars, pc, pos, calls, accepted, refused, written>>

(* The consumer formats the request where it lies and hands it to its output. *)
ReadSlot ==
  /\ slot = "ready"
  /\ written' = Append(written, RequestAt(tail))
  /\ slot' = "read"
  /\ UNCHANGED <<head, tail, slotVars, pc, pos, calls, accepted, refused>>

(* Mutant: the freed slot gets the number pos + mask. *)
FreeOneShort ==
  /\ slot = "read"
  /\ sequence' = [sequence EXCEPT ![Index(tail)] = tail + RingSize - 1]
  /\ tail' = tail + 1
  /\ slot' = "null"
  /\ UNCHANGED <<meta, data, head, pc, pos, calls, accepted, refused, written>>

(* lmk_ring_consume: sequence = pos + mask + 1 frees the slot for the next
   lap; tail is the consumer's own. *)
ConsumeSlot ==
  /\ slot = "read"
  /\ sequence' = [sequence EXCEPT ![Index(tail)] = tail + RingSize]
  /\ tail' = tail + 1
  /\ slot' = "null"
  /\ UNCHANGED <<meta, data, head, pc, pos, calls, accepted, refused, written>>

Enqueue(p) ==
  \/ EnqueueLoadHead(p) \/ EnqueueLoadSequence(p)
  \/ EnqueueCas(p) \/ EnqueueCasFail(p)
  \/ EnqueueWriteMeta(p) \/ EnqueueWriteData(p) \/ EnqueuePublish(p)

Drain == PeekReady \/ ReadSlot \/ ConsumeSlot

(* Every call the bound allows has returned and the ring is drained. *)
Drained ==
  /\ \A p \in Producers : pc[p] = "idle" /\ calls[p] = MaxCalls
  /\ slot = "null" /\ ~Ready
  /\ UNCHANGED ringVars

RingNext ==
  \/ \E p \in Producers : EnqueueCall(p) \/ Enqueue(p) \/ EnqueueReturn(p)
  \/ Drain
  \/ Drained

RingSpec == RingInit /\ [][RingNext]_ringVars

----------------------------------------------------------------------------
(* A claimed slot belongs to one thread at a time: no two producers write the
   same slot, and none writes the slot the consumer is reading in place
   between lmk_ring_peek_slot and lmk_ring_consume. *)
SlotOwnership ==
  \A p \in Producers : Writing(p) =>
    /\ slot # "null" => Index(pos[p]) # Index(tail)
    /\ \A q \in Producers \ {p} : Writing(q) => Index(pos[p]) # Index(pos[q])

(* What the consumer reads is what was accepted: whole requests (never one
   part of one record beside a part of another), each once, in the order in
   which the compare-and-swap on head admitted them. *)
WrittenInOrder ==
  /\ Len(written) <= Len(accepted)
  /\ \A i \in 1 .. Len(written) : written[i] = accepted[i]

(* A request is refused only at an instant when all RingSize slots hold
   accepted requests that are not consumed yet, however old the head was that
   the producer compared with. *)
RefusedOnlyWhenFull ==
  [][refused' # refused => head - tail = RingSize]_ringVars

(* Ring is an implementation of the abstract queue: claiming a position is
   accepting, and tail counts the requests that have left. *)
Queue == INSTANCE LogQueue
  WITH Requests <- {Whole(<<p, n>>) : p \in Producers, n \in 1 .. MaxCalls},
       Capacity <- RingSize,
       released <- tail

(* Every behaviour of the ring, with its separate steps to read head, compare
   sequences, claim, fill and publish, is one of the atomic queue: acceptance
   takes effect at the compare-and-swap, refusal at the load of a sequence. *)
ImplementsQueue == Queue!Spec

----------------------------------------------------------------------------
(* The inductive invariant, in parts. *)

(* The cursors are at most one lap apart. *)
CursorInv ==
  /\ tail <= head
  /\ head <= tail + RingSize
  /\ Len(accepted) = head

(* What was written so far, and the slot the consumer holds. *)
ConsumerInv ==
  /\ Len(written) = IF slot = "read" THEN tail + 1 ELSE tail
  /\ \A i \in 1 .. Len(written) : written[i] = accepted[i]
  /\ slot # "null" => tail < head /\ Sequence(tail) = tail + 1

(* The slot of a claimed position is being filled, or holds its request. *)
ClaimedInv ==
  \A t \in tail .. head - 1 :
    \/ Sequence(t) = t
    \/ Sequence(t) = t + 1 /\ RequestAt(t) = accepted[t + 1]

(* The slot of a position that can be claimed next carries its number. *)
FreeInv ==
  \A t \in head .. tail + RingSize - 1 : Sequence(t) = t

(* A producer that fills a slot has a claimed position of its own, and what it
   has stored there is its record. *)
OwnsPosition(p) ==
  /\ tail <= pos[p] /\ pos[p] < head
  /\ Sequence(pos[p]) = pos[p]
  /\ accepted[pos[p] + 1] = Whole(Current(p))
  /\ pc[p] \in {"data", "publish"} => meta[Index(pos[p])] = Current(p)
  /\ pc[p] = "publish" => data[Index(pos[p])] = Current(p)
  /\ \A q \in Producers : Writing(q) /\ q # p => pos[q] # pos[p]

WriterInv == \A p \in Producers : Writing(p) => OwnsPosition(p)

(* A position read earlier is never ahead of head, and the sequence of its
   slot has reached it unless the ring was full then and still is. *)
LoopInv ==
  \A p \in Producers :
    /\ pc[p] # "idle" => calls[p] \in 1 .. MaxCalls
    /\ calls[p] <= MaxCalls
    /\ pc[p] = "check" => \/ pos[p] <= Sequence(pos[p]) /\ pos[p] <= head
                          \/ pos[p] = head /\ head = tail + RingSize
    /\ pc[p] = "cas" => pos[p] <= Sequence(pos[p]) /\ pos[p] <= head

RingInv ==
  /\ RingTypeOK
  /\ CursorInv
  /\ ConsumerInv
  /\ ClaimedInv
  /\ FreeInv
  /\ WriterInv
  /\ LoopInv

=============================================================================
