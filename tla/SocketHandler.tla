--------------------------- MODULE SocketHandler ---------------------------
(***************************************************************************)
(* The socket handler (src/src/main/logmoko_socket_log_handler.c): its     *)
(* thread sends every record to every listener, sealed once a preshared    *)
(* key is set, over UDP to the receiver (logmoko_log_receiver.c).          *)
(*                                                                         *)
(* What is shared without a lock is modelled store by store: the list of   *)
(* listeners, which lmk_attach_log_listener extends while the thread walks *)
(* it, and the key, which lmk_set_socket_psk writes in place.  These       *)
(* stores are plain, so a build may make those of one attach visible to    *)
(* the thread in another order: StoresInOrder is FALSE for such a build.   *)
(*                                                                         *)
(* The ring is the bounded queue that module Ring is proved to implement,  *)
(* and the sleep of the thread is the one module LogHandler describes.     *)
(***************************************************************************)
EXTENDS Integers, SequencesExt

CONSTANTS
  RingSize,
  MaxRecords,     \* bound: records accepted by the ring
  MaxListeners,   \* bound: calls of lmk_attach_log_listener
  Psks,           \* the preshared keys the client sets
  MaxPsks,        \* bound: calls of lmk_set_socket_psk
  ReceiverPsk,    \* the key the receiver of listener 1 is started with
  StoresInOrder

ASSUME SocketAssumption ==
  /\ RingSize \in Nat \ {0} /\ MaxRecords \in Nat /\ MaxListeners \in Nat /\ MaxPsks \in Nat
  /\ Psks \subseteq Nat \ {0}
  /\ StoresInOrder \in BOOLEAN

VARIABLES
  queue,         \* the records in the ring, oldest first
  nr_records,    \* history: records accepted so far
  running,
  pc,            \* where the handler's thread is
  cursor, use_psk,  \* its locals
  node,          \* memory: the head of log_server_list (0) and the listeners
  live,          \* the listeners allocated, numbered in the order of attaching
  stores,        \* the stores of the attach in progress, not yet visible
  psk_key,       \* the two halves of the key
  psk_enabled,
  deriving,      \* lmk_set_socket_psk in progress: the stores left
  psk, nr_psks,  \* history: the key set last, and how many were
  due, visited,  \* history of a walk: listeners attached at its start; those passed
  net,           \* every datagram sent
  printed, rejected,  \* the datagrams of listener 1, by what its receiver did
  destroyer

queueVars == <<queue, nr_records>>
threadVars == <<pc, cursor, use_psk, due, visited>>
listVars == <<node, live, stores>>
keyVars == <<psk_key, psk_enabled, deriving, psk, nr_psks>>
receiverVars == <<printed, rejected>>
vars == <<queueVars, running, threadVars, listVars, keyVars, net, receiverVars, destroyer>>

----------------------------------------------------------------------------
Head0 == 0               \* &slh->log_server_list
Null == -1
Nodes == 1 .. MaxListeners
Pointer == Nodes \cup {Head0, Null}
Plain == <<>>            \* the key of a datagram that is not encrypted
Key == (Psks \cup {0}) \X (Psks \cup {0})

(* secret: logged when encryption was enabled. *)
Record == [id : 1 .. MaxRecords, secret : BOOLEAN]
ListStore ==
  [node : Nodes \cup {Head0}, field : {"addr", "prev", "next"}, value : Nodes \cup {Head0}]
Datagram == [to : Nodes \cup {0}, rec : Record, key : {Plain} \cup Key]

(* The part of the types that records and keys depend on. *)
SealTypeOK ==
  /\ queue \in Seq(Record) /\ nr_records \in 0 .. MaxRecords
  /\ psk_key \in Key /\ psk_enabled \in BOOLEAN
  /\ deriving \in 0 .. 2 /\ psk \in Psks \cup {0} /\ nr_psks \in 0 .. MaxPsks

SocketTypeOK ==
  /\ SealTypeOK
  /\ Len(queue) <= RingSize
  /\ running \in BOOLEAN
  /\ pc \in {"peek", "walk", "check", "sleep", "exited"}
  /\ cursor \in Pointer /\ use_psk \in BOOLEAN
  /\ node \in [Nodes \cup {Head0} -> [next : Pointer, prev : Pointer, addr : Nodes \cup {0}]]
  /\ live \subseteq Nodes /\ stores \in Seq(ListStore)
  /\ due \subseteq Nodes /\ visited \in Seq(Nodes)
  /\ net \subseteq Datagram
  /\ printed \subseteq Datagram /\ rejected \subseteq Datagram
  /\ destroyer \in {"idle", "join", "free", "freed"}

(* lmk_socket_log_handler_init. *)
SocketInit ==
  /\ queue = <<>> /\ nr_records = 0
  /\ running = TRUE
  /\ pc = "peek" /\ cursor = Head0 /\ use_psk = FALSE
  /\ node = [n \in Nodes \cup {Head0} |->
       IF n = Head0 THEN [next |-> Head0, prev |-> Head0, addr |-> 0]
       ELSE [next |-> Null, prev |-> Null, addr |-> 0]]
  /\ live = {} /\ stores = <<>>
  /\ psk_key = <<0, 0>> /\ psk_enabled = FALSE
  /\ deriving = 0 /\ psk = 0 /\ nr_psks = 0
  /\ due = {} /\ visited = <<>>
  /\ net = {} /\ printed = {} /\ rejected = {}
  /\ destroyer = "idle"

----------------------------------------------------------------------------
(* Mutant of LogImpl: a full ring takes the record. *)
LogImplOver ==
  /\ running /\ nr_records < MaxRecords
  /\ queue' = Append(queue, [id |-> nr_records + 1, secret |-> psk_enabled])
  /\ nr_records' = nr_records + 1
  /\ UNCHANGED <<running, threadVars, listVars, keyVars, net, receiverVars, destroyer>>

(* lmk_socket_log_handler_log_impl: a record enters the ring unless it is full. *)
LogImpl ==
  /\ running /\ nr_records < MaxRecords
  /\ Len(queue) < RingSize
  /\ queue' = Append(queue, [id |-> nr_records + 1, secret |-> psk_enabled])
  /\ nr_records' = nr_records + 1
  /\ UNCHANGED <<running, threadVars, listVars, keyVars, net, receiverVars, destroyer>>

Store(n, f, v) == [node |-> n, field |-> f, value |-> v]

(* Mutants of AttachStores: linked before it is complete; the head's prev
   forgotten. *)
AttachStoresEarly(n) ==
  LET last == node[Head0].prev
  IN <<Store(n, "addr", n), Store(n, "prev", last), Store(last, "next", n),
       Store(n, "next", Head0), Store(Head0, "prev", n)>>
AttachStoresNoPrev(n) ==
  LET last == node[Head0].prev
  IN <<Store(n, "addr", n), Store(n, "prev", last), Store(n, "next", Head0), Store(last, "next", n)>>

(* The address, then lmk_insert_list.  (What memset and lmk_init_list stored in
   the same fields before is left out.) *)
AttachStores(n) ==
  LET last == node[Head0].prev
  IN <<Store(n, "addr", n), Store(n, "prev", last), Store(n, "next", Head0),
       Store(last, "next", n), Store(Head0, "prev", n)>>

(* lmk_attach_log_listener.  The lock it holds keeps out another attach, not the
   handler's thread. *)
Attach ==
  /\ destroyer = "idle" /\ stores = <<>>
  /\ \E n \in Nodes :
       /\ n - 1 = 0 \/ n - 1 \in live
       /\ n \notin live
       /\ live' = live \cup {n}
       /\ stores' = AttachStores(n)
  /\ UNCHANGED <<queueVars, running, threadVars, node, keyVars, net, receiverVars, destroyer>>

StoreVisible ==
  /\ \E k \in DOMAIN stores :
       /\ StoresInOrder => k = 1
       /\ node' = [node EXCEPT ![stores[k].node][stores[k].field] = stores[k].value]
       /\ stores' = RemoveAt(stores, k)
  /\ UNCHANGED <<queueVars, running, threadVars, live, keyVars, net, receiverVars, destroyer>>

(* Mutant of DeriveKey: encryption is enabled before the key is there. *)
EnableThenDerive ==
  /\ destroyer = "idle" /\ deriving = 0 /\ nr_psks < MaxPsks
  /\ \E k \in Psks : psk' = k /\ psk_key' = [psk_key EXCEPT ![1] = k]
  /\ nr_psks' = nr_psks + 1 /\ deriving' = 2
  /\ psk_enabled' = TRUE
  /\ UNCHANGED <<queueVars, running, threadVars, listVars, net, receiverVars, destroyer>>

(* lmk_set_socket_psk: derive_key writes the key where the thread reads it, one
   half and then the other; then the flag is set. *)
DeriveKey ==
  /\ destroyer = "idle" /\ deriving = 0 /\ nr_psks < MaxPsks
  /\ \E k \in Psks : psk' = k /\ psk_key' = [psk_key EXCEPT ![1] = k]
  /\ nr_psks' = nr_psks + 1 /\ deriving' = 2
  /\ UNCHANGED <<psk_enabled, queueVars, running, threadVars, listVars, net, receiverVars, destroyer>>

DeriveRest ==
  /\ deriving = 2
  /\ psk_key' = [psk_key EXCEPT ![2] = psk]
  /\ deriving' = 1
  /\ UNCHANGED <<psk_enabled, psk, nr_psks, queueVars, running, threadVars, listVars, net,
                 receiverVars, destroyer>>

EnablePsk ==
  /\ deriving = 1
  /\ psk_enabled' = TRUE
  /\ deriving' = 0
  /\ UNCHANGED <<psk_key, psk, nr_psks, queueVars, running, threadVars, listVars, net,
                 receiverVars, destroyer>>

----------------------------------------------------------------------------
(* The handler's thread.  Listeners whose attach is complete are due. *)
Attached == {n \in live : stores = <<>> \/ n + 1 \in live}

(* Mutant of StartRecord: psk_enabled is read at the thread's start only. *)
StartRecordStale ==
  /\ pc = "peek" /\ queue # <<>>
  /\ cursor' = node[Head0].next
  /\ due' = Attached /\ visited' = <<>>
  /\ pc' = "walk"
  /\ UNCHANGED <<use_psk, queueVars, running, listVars, keyVars, net, receiverVars, destroyer>>

StartRecord ==
  /\ pc = "peek" /\ queue # <<>>
  /\ use_psk' = psk_enabled
  /\ cursor' = node[Head0].next
  /\ due' = Attached /\ visited' = <<>>
  /\ pc' = "walk"
  /\ UNCHANGED <<queueVars, running, listVars, keyVars, net, receiverVars, destroyer>>

(* The formatter produced nothing: the record is consumed unsent. *)
SkipRecord ==
  /\ pc = "peek" /\ queue # <<>>
  /\ queue' = Tail(queue)
  /\ UNCHANGED <<nr_records, running, threadVars, listVars, keyVars, net, receiverVars, destroyer>>

(* lmk_send_udp_packet.  Nobody looks at its result: a datagram that sendto
   refuses is lost. *)
SendUdpPacket(key) ==
  \/ net' = net \cup {[to |-> node[cursor].addr, rec |-> queue[1], key |-> key]}
  \/ UNCHANGED net

Advance ==
  /\ visited' = Append(visited, cursor)
  /\ cursor' = node[cursor].next

(* encrypt_packet with the key as it is now.  When it fails there is nothing to
   send. *)
SendSealed == SendUdpPacket(psk_key) \/ UNCHANGED net

(* Mutant of SendTo: after a failed encryption the walk begins again. *)
SendToRetry ==
  /\ pc = "walk" /\ cursor \in Nodes
  /\ \/ SendUdpPacket(IF use_psk THEN psk_key ELSE Plain) /\ Advance
     \/ use_psk /\ cursor' = node[Head0].next /\ visited' = <<>> /\ UNCHANGED net
  /\ UNCHANGED <<queueVars, running, pc, use_psk, due, listVars, keyVars, receiverVars, destroyer>>

(* One listener of the walk. *)
SendTo ==
  /\ pc = "walk" /\ cursor \in Nodes
  /\ IF use_psk THEN SendSealed ELSE SendUdpPacket(Plain)
  /\ Advance
  /\ UNCHANGED <<queueVars, running, pc, use_psk, due, listVars, keyVars, receiverVars, destroyer>>

FinishRecord ==
  /\ pc = "walk" /\ cursor = Head0
  /\ queue' = Tail(queue)
  /\ pc' = "peek"
  /\ UNCHANGED <<nr_records, running, cursor, use_psk, due, visited, listVars, keyVars, net,
                 receiverVars, destroyer>>

Rest ==
  /\ \/ pc = "peek" /\ queue = <<>> /\ pc' = "check"
     \/ pc = "check" /\ pc' = IF running THEN "sleep" ELSE "exited"
     \/ pc = "sleep" /\ (queue # <<>> \/ ~running) /\ pc' = "peek"
  /\ UNCHANGED <<queueVars, running, cursor, use_psk, due, visited, listVars, keyVars, net,
                 receiverVars, destroyer>>

Thread == StartRecord \/ SkipRecord \/ SendTo \/ FinishRecord \/ Rest

(* decrypt_packet authenticates: it opens what was sealed with the receiver's own
   key and refuses everything else. *)
DecryptPacket(d) == d.key = <<ReceiverPsk, ReceiverPsk>>

(* The receiver of listener 1.  UDP may lose, repeat and reorder: any datagram
   ever sent may arrive now. *)
Receive ==
  /\ \E d \in net :
       /\ d.to = 1
       /\ IF DecryptPacket(d)
            THEN printed' = printed \cup {d} /\ UNCHANGED rejected
            ELSE rejected' = rejected \cup {d} /\ UNCHANGED printed
  /\ UNCHANGED <<queueVars, running, threadVars, listVars, keyVars, net, destroyer>>

(* lmk_socket_log_handler_destroy, which the client calls when no other call on
   the handler is in progress. *)
DestroyStop ==
  /\ destroyer = "idle" /\ stores = <<>> /\ deriving = 0
  /\ running' = FALSE
  /\ destroyer' = "join"
  /\ UNCHANGED <<queueVars, threadVars, listVars, keyVars, net, receiverVars>>

DestroyJoin ==
  /\ destroyer = "join" /\ pc = "exited"
  /\ destroyer' = "free"
  /\ UNCHANGED <<queueVars, running, threadVars, listVars, keyVars, net, receiverVars>>

(* lmk_remove_list *)
Removed(c) ==
  IF node[c].next = c THEN node
  ELSE [node EXCEPT ![node[c].prev].next = node[c].next,
                    ![node[c].next].prev = node[c].prev]

(* The first listener is removed and freed; the cursor restored is the head. *)
FreeListener ==
  /\ destroyer = "free"
  /\ LET c == node[Head0].next
     IN c # Head0 /\ node' = Removed(c) /\ live' = live \ {c}
  /\ UNCHANGED <<queueVars, running, threadVars, stores, keyVars, net, receiverVars, destroyer>>

DestroyClose ==
  /\ destroyer = "free" /\ node[Head0].next = Head0
  /\ destroyer' = "freed"
  /\ UNCHANGED <<queueVars, running, threadVars, listVars, keyVars, net, receiverVars>>

Gone == destroyer = "freed" /\ UNCHANGED vars

SocketNext ==
  \/ LogImpl
  \/ Attach \/ StoreVisible
  \/ DeriveKey \/ DeriveRest \/ EnablePsk
  \/ Thread
  \/ Receive
  \/ DestroyStop \/ DestroyJoin \/ FreeListener \/ DestroyClose \/ Gone

(* The handler's thread keeps running. *)
SocketSpec == SocketInit /\ [][SocketNext]_vars /\ WF_vars(Thread)

----------------------------------------------------------------------------
(* The comment on the walk, "Server list is append-only after init; safe to read
   without lock": its cursor is at the head or at a listener that is complete,
   whatever attach is under way. *)
WalkSafe ==
  pc = "walk" => cursor = Head0 \/ (cursor \in live /\ node[cursor].addr = cursor
                                    /\ node[cursor].next # Null)

(* The walk for a record ends having passed every listener whose attach had
   returned when it began, and none twice, whatever is attached meanwhile. *)
EveryListenerOnce ==
  pc = "walk" /\ cursor = Head0 =>
    due \subseteq ToSet(visited) /\ IsInjective(visited)

(* A record logged once encryption is enabled never leaves in plain. *)
SecretStaysSealed == \A d \in net : d.rec.secret => d.key # Plain

(* A client that sets one key, the receiver's, is understood: what the receiver
   refuses was sent in plain.  No datagram is sealed with a part of the key. *)
OnlyPlainRejected ==
  nr_psks <= 1 /\ psk = ReceiverPsk => \A d \in rejected : d.key = Plain

(* Every record leaves the ring while the handler runs: listeners attached
   during the walk, failures of encryption and of sendto do not hold it up. *)
QueueDrained ==
  \A n \in 1 .. MaxRecords :
    (\E k \in DOMAIN queue : queue[k].id = n)
      ~> (\A k \in DOMAIN queue : queue[k].id # n) \/ ~running

----------------------------------------------------------------------------
(* The inductive invariants, in parts.  First what records and keys need, in any
   build. *)

(* The flag is set after the key is, and while the first key is written nothing
   has been sealed.  A walk that began with a secret record seals it. *)
KeyInv ==
  /\ pc = "walk" => queue # <<>> /\ (queue[1].secret => use_psk)
  /\ use_psk => psk_enabled
  /\ \A j \in DOMAIN queue : queue[j].secret => psk_enabled
  /\ nr_psks = 0 => deriving = 0 /\ ~psk_enabled
  /\ nr_psks = 1 => /\ deriving # 0 => ~psk_enabled /\ psk_key[1] = psk
                    /\ deriving # 2 => psk_key = <<psk, psk>>

(* What was sent, and what came of it. *)
NetInv ==
  /\ ~psk_enabled => \A d \in net : d.key = Plain
  /\ nr_psks <= 1 => \A d \in net : d.key \in {Plain, <<psk, psk>>}
  /\ rejected \subseteq net /\ \A d \in rejected : ~DecryptPacket(d)

SealInv == SealTypeOK /\ KeyInv /\ NetInv /\ SecretStaysSealed

(* Then the list and its walk, for a build that keeps the stores of an attach in
   order. *)

(* The listener the head's prev names, the last store of an attach, is the last
   one complete. *)
Complete == node[Head0].prev

(* The list up to it is doubly linked in the order of attaching.  The stores
   left of an attach tell how far the next listener is linked: it is reached
   from its predecessor when all but the last one are visible. *)
ListInv ==
  /\ Complete # Null
  /\ live = 1 .. (IF stores = <<>> THEN Complete ELSE Complete + 1)
  /\ Len(stores) <= 5
  /\ stores = SubSeq(AttachStores(Complete + 1), 6 - Len(stores), 5)
  /\ \A n \in 1 .. Complete : node[n].addr = n /\ node[n].prev = n - 1
  /\ \A n \in 0 .. Complete - 1 : node[n].next = n + 1
  /\ node[Complete].next = IF Len(stores) = 1 THEN Complete + 1 ELSE Head0
  /\ Len(stores) \in 1 .. 4 => node[Complete + 1].addr = Complete + 1
  /\ Len(stores) \in 1 .. 3 => node[Complete + 1].prev = Complete
  /\ Len(stores) \in 1 .. 2 => node[Complete + 1].next = Head0

(* While destroy frees the listeners, the list begins at the oldest left. *)
FreeInv ==
  LET first == node[Head0].next
  IN /\ first # Null
     /\ first = Head0 => live = {}
     /\ first # Head0 => first \in live /\ node[first].prev = Head0
     /\ \A n \in live : /\ first <= n /\ first .. n \subseteq live
                        /\ node[n].next = IF n + 1 \in live THEN n + 1 ELSE Head0

(* Attach and set run before destroy, which frees when the thread has ended. *)
PhaseInv ==
  /\ destroyer \in {"idle", "join"} => ListInv
  /\ destroyer \in {"free", "freed"} => FreeInv /\ pc = "exited"
  /\ destroyer # "idle" => stores = <<>> /\ deriving = 0
  /\ destroyer = "freed" => live = {}

(* The cursor of a walk has passed the listeners before it, in order, and is at
   one that is linked; the listeners due were complete. *)
WalkInv ==
  pc = "walk" =>
    /\ \A j \in DOMAIN visited : visited[j] = j
    /\ due \subseteq 1 .. Complete
    /\ cursor = Head0 => due \subseteq 1 .. Len(visited)
    /\ cursor # Head0 => /\ cursor = Len(visited) + 1
                         /\ cursor <= Complete \/ (cursor = Complete + 1 /\ Len(stores) = 1)

SocketInv ==
  /\ SocketTypeOK
  /\ SealInv
  /\ PhaseInv
  /\ WalkInv
============================================================================
