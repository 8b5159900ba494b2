---------------------------- MODULE SocketProof ----------------------------
(***************************************************************************)
(* Proofs about SocketHandler, for any number of listeners and records.    *)
(* What is proved of the key holds in any build; what is proved of the     *)
(* list assumes that the thread sees the stores of an attach in the order  *)
(* in which the code makes them (run socket_weak_stores shows what goes    *)
(* wrong in a build that does not keep it).                                *)
(***************************************************************************)
EXTENDS SocketHandler, SequenceTheorems, TLAPS

----------------------------------------------------------------------------
(* The key. *)

(* A record that enters the ring, and one that leaves it. *)
LEMMA QueueAppend ==
  ASSUME SealTypeOK, LogImpl, NEW q, q = Len(queue)
  PROVE  /\ q \in Nat /\ DOMAIN queue = 1 .. q
         /\ queue' \in Seq(Record) /\ Len(queue') = q + 1 /\ DOMAIN queue' = 1 .. q + 1
         /\ \A j \in 1 .. q : queue'[j] = queue[j]
         /\ queue'[q + 1].secret = psk_enabled
<1>1. q \in Nat /\ DOMAIN queue = 1 .. q
  BY LenProperties DEF SealTypeOK
<1>2. PICK r : r = [id |-> nr_records + 1, secret |-> psk_enabled]
  OBVIOUS
<1>3. r \in Record /\ r.secret = psk_enabled
  BY <1>2, SocketAssumption DEF LogImpl, SealTypeOK, Record
<1>4. queue' = Append(queue, r)
  BY <1>2 DEF LogImpl
<1>5. /\ queue' \in Seq(Record) /\ Len(queue') = q + 1
      /\ \A j \in 1 .. q : queue'[j] = queue[j]
      /\ queue'[q + 1] = r
  BY <1>3, <1>4, AppendProperties DEF SealTypeOK
<1>6. DOMAIN queue' = 1 .. q + 1
  BY <1>5, LenProperties
<1> QED BY <1>1, <1>3, <1>5, <1>6

LEMMA QueueTail ==
  ASSUME SealTypeOK, queue # <<>>, queue' = Tail(queue), NEW q, q = Len(queue)
  PROVE  /\ q \in Nat /\ DOMAIN queue = 1 .. q
         /\ queue' \in Seq(Record) /\ Len(queue') = q - 1 /\ DOMAIN queue' = 1 .. q - 1
         /\ \A j \in 1 .. q - 1 : queue'[j] = queue[j + 1]
<1>1. q \in Nat /\ DOMAIN queue = 1 .. q
  BY LenProperties DEF SealTypeOK
<1>2. /\ queue' \in Seq(Record) /\ Len(queue') = q - 1
      /\ \A j \in 1 .. Len(queue') : queue'[j] = queue[j + 1]
  BY HeadTailProperties DEF SealTypeOK
<1>3. DOMAIN queue' = 1 .. q - 1
  BY <1>2, LenProperties
<1> QED BY <1>1, <1>2, <1>3

(* Types of records and keys. *)
LEMMA SealTypeStep ==
  ASSUME SealInv, [SocketNext]_vars
  PROVE  SealTypeOK'
<1> USE SocketAssumption DEF SealInv, queueVars, threadVars, keyVars, receiverVars
<1>1. CASE LogImpl
  <2>1. queue' \in Seq(Record)
    BY <1>1, QueueAppend
  <2>2. nr_records' \in 0 .. MaxRecords
    BY <1>1 DEF LogImpl, SealTypeOK
  <2> QED BY <1>1, <2>1, <2>2 DEF LogImpl, SealTypeOK
<1>2. CASE SkipRecord \/ FinishRecord
  <2>1. queue # <<>> /\ queue' = Tail(queue)
    BY <1>2 DEF SkipRecord, FinishRecord, KeyInv
  <2>2. queue' \in Seq(Record)
    BY <2>1, QueueTail
  <2> QED BY <1>2, <2>2 DEF SkipRecord, FinishRecord, SealTypeOK
<1>3. CASE DeriveKey
  <2>1. psk' \in Psks /\ psk_key' = [psk_key EXCEPT ![1] = psk'] /\ nr_psks' \in 0 .. MaxPsks
    BY <1>3 DEF DeriveKey, SealTypeOK
  <2>2. psk_key' \in Key
    BY <2>1 DEF SealTypeOK, Key
  <2> QED BY <1>3, <2>1, <2>2 DEF DeriveKey, SealTypeOK
<1>4. CASE DeriveRest
  <2>1. psk_key' = [psk_key EXCEPT ![2] = psk] /\ psk \in Psks \cup {0} /\ psk_key \in Key
    BY <1>4 DEF DeriveRest, SealTypeOK
  <2>2. psk_key' \in Key
    BY <2>1 DEF Key
  <2> QED BY <1>4, <2>2 DEF DeriveRest, SealTypeOK
<1>5. CASE EnablePsk
  BY <1>5 DEF EnablePsk, SealTypeOK
<1>6. CASE UNCHANGED <<queueVars, keyVars>>
  BY <1>6 DEF SealTypeOK
<1>7. CASE Attach \/ StoreVisible \/ StartRecord \/ SendTo \/ Rest \/ Receive
  BY <1>6, <1>7 DEF Attach, StoreVisible, StartRecord, SendTo, Rest, Receive
<1>8. CASE DestroyStop \/ DestroyJoin \/ DestroyClose \/ FreeListener \/ UNCHANGED vars
  BY <1>6, <1>8 DEF DestroyStop, DestroyJoin, DestroyClose, FreeListener, vars
<1> QED
  BY <1>1, <1>2, <1>3, <1>4, <1>5, <1>7, <1>8 DEF SocketNext, Thread, Gone

(* The key is whole when the flag says so, and the records logged under
   encryption are sealed. *)
LEMMA KeyStep ==
  ASSUME SealInv, [SocketNext]_vars
  PROVE  KeyInv'
<1> USE DEF SealInv, queueVars, threadVars, keyVars, receiverVars
<1>1. CASE LogImpl
  <2>1. PICK q : q = Len(queue)
    OBVIOUS
  <2>2. /\ q \in Nat /\ DOMAIN queue = 1 .. q
        /\ queue' \in Seq(Record) /\ Len(queue') = q + 1 /\ DOMAIN queue' = 1 .. q + 1
        /\ \A j \in 1 .. q : queue'[j] = queue[j]
        /\ queue'[q + 1].secret = psk_enabled
    BY <1>1, <2>1, QueueAppend
  <2>3. UNCHANGED <<pc, use_psk, keyVars>>
    BY <1>1 DEF LogImpl
  <2>4. \A j \in DOMAIN queue' : queue'[j].secret => psk_enabled
    BY <2>2 DEF KeyInv
  <2>5. ASSUME pc = "walk" PROVE queue' # <<>> /\ (queue'[1].secret => use_psk)
    <3>1. queue # <<>> /\ (queue[1].secret => use_psk)
      BY <2>5 DEF KeyInv
    <3>2. q # 0
      BY <2>1, <3>1, EmptySeq DEF SealTypeOK
    <3>3. queue'[1] = queue[1] /\ Len(queue') # 0
      BY <2>2, <3>2
    <3> QED BY <3>1, <3>3, EmptySeq
  <2> QED BY <2>3, <2>4, <2>5 DEF KeyInv
<1>2. CASE SkipRecord \/ FinishRecord
  <2>1. /\ queue # <<>> /\ queue' = Tail(queue) /\ pc' = "peek"
        /\ UNCHANGED <<use_psk, keyVars>>
    BY <1>2 DEF SkipRecord, FinishRecord, KeyInv
  <2>2. PICK q : q = Len(queue)
    OBVIOUS
  <2>3. /\ q \in Nat /\ DOMAIN queue = 1 .. q /\ DOMAIN queue' = 1 .. q - 1
        /\ \A j \in 1 .. q - 1 : queue'[j] = queue[j + 1]
    BY <2>1, <2>2, QueueTail
  <2>4. ASSUME NEW j \in DOMAIN queue', queue'[j].secret
        PROVE  psk_enabled
    <3>1. j + 1 \in DOMAIN queue /\ queue[j + 1].secret
      BY <2>3, <2>4
    <3> QED BY <3>1 DEF KeyInv
  <2> QED BY <2>1, <2>4 DEF KeyInv
<1>5. CASE DeriveKey
  <2>1. psk' \in Psks /\ psk_key' = [psk_key EXCEPT ![1] = psk'] /\ psk_key \in Key
        /\ nr_psks' = nr_psks + 1 /\ nr_psks \in Nat /\ deriving = 0 /\ deriving' = 2
        /\ UNCHANGED <<psk_enabled, use_psk, queue, pc>>
    BY <1>5, SocketAssumption DEF DeriveKey, SealTypeOK
  <2>2. psk_key'[1] = psk'
    BY <2>1 DEF Key
  <2>3. nr_psks' # 0 /\ (nr_psks' = 1 => nr_psks = 0)
    BY <2>1
  <2> QED BY <2>1, <2>2, <2>3 DEF KeyInv
<1>6. CASE DeriveRest
  <2>1. psk_key' = [psk_key EXCEPT ![2] = psk] /\ psk_key \in Key
    BY <1>6 DEF DeriveRest, SealTypeOK
  <2>2. psk_key'[1] = psk_key[1] /\ psk_key' = <<psk_key[1], psk>>
    BY <2>1 DEF Key
  <2>3. nr_psks = 1 => psk_key' = <<psk, psk>> /\ ~psk_enabled
    BY <1>6, <2>2 DEF DeriveRest, KeyInv
  <2> QED BY <1>6, <2>2, <2>3 DEF DeriveRest, KeyInv
<1>7. CASE EnablePsk
  <2>1. deriving = 1 /\ deriving' = 0 /\ psk_enabled' = TRUE /\ nr_psks # 0
    BY <1>7 DEF EnablePsk, KeyInv
  <2> QED BY <1>7, <2>1 DEF EnablePsk, KeyInv
<1>8. CASE StartRecord
  <2>1. 1 \in DOMAIN queue
    BY <1>8, EmptySeq, LenProperties DEF StartRecord, SealTypeOK
  <2> QED BY <1>8, <2>1 DEF StartRecord, KeyInv
<1>9. CASE Attach \/ StoreVisible \/ SendTo \/ Rest \/ Receive
  BY <1>9 DEF Attach, StoreVisible, SendTo, Rest, Receive, KeyInv
<1>10. CASE DestroyStop \/ DestroyJoin \/ DestroyClose \/ FreeListener
  BY <1>10 DEF DestroyStop, DestroyJoin, DestroyClose, FreeListener, KeyInv
<1>11. CASE UNCHANGED vars
  BY <1>11 DEF vars, KeyInv
<1> QED
  BY <1>1, <1>2, <1>5, <1>6, <1>7, <1>8, <1>9, <1>10, <1>11 DEF SocketNext, Thread, Gone

(* A key is not the mark of a plain datagram. *)
LEMMA PairNotEmpty ==
  ASSUME NEW S, NEW p \in S \X S
  PROVE  p # <<>>
<1>1. p = <<p[1], p[2]>>
  OBVIOUS
<1>2. Len(<<p[1], p[2]>>) = 2
  OBVIOUS
<1> QED BY <1>1, <1>2, EmptySeq

(* A datagram sealed is sealed with a key, all of one preshared key if only one
   was set; a secret record is sealed. *)
LEMMA SentSealed ==
  ASSUME SealInv, SendTo
  PROVE  \A d \in net' \ net :
           /\ d.key # Plain => psk_enabled
           /\ nr_psks <= 1 => d.key \in {Plain, <<psk, psk>>}
           /\ d.rec.secret => d.key # Plain
<1> USE DEF SealInv
<1> SUFFICES ASSUME NEW d \in net', d \notin net
             PROVE  /\ d.key # Plain => psk_enabled
                    /\ nr_psks <= 1 => d.key \in {Plain, <<psk, psk>>}
                    /\ d.rec.secret => d.key # Plain
  OBVIOUS
<1>1. d.rec = queue[1] /\ d.key = IF use_psk THEN psk_key ELSE Plain
  BY DEF SendTo, SendSealed, SendUdpPacket
<1>2. queue[1].secret => use_psk
  BY DEF SendTo, KeyInv
<1>3. psk_key # Plain
  BY PairNotEmpty DEF SealTypeOK, Key, Plain
<1>4. use_psk /\ nr_psks <= 1 => psk_key = <<psk, psk>>
  <2> SUFFICES ASSUME use_psk, nr_psks <= 1 PROVE psk_key = <<psk, psk>>
    OBVIOUS
  <2>1. psk_enabled /\ nr_psks = 1
    BY SocketAssumption DEF KeyInv, SealTypeOK
  <2> QED BY <2>1 DEF KeyInv
<1> QED BY <1>1, <1>2, <1>3, <1>4 DEF KeyInv

(* What was sent stays as it was sent: a key set later changes nothing. *)
LEMMA NetStep ==
  ASSUME SealInv, [SocketNext]_vars
  PROVE  NetInv' /\ SecretStaysSealed'
<1> USE DEF SealInv, queueVars, threadVars, keyVars, receiverVars
<1>1. CASE SendTo
  <2>1. \A d \in net' \ net : /\ d.key # Plain => psk_enabled
                              /\ nr_psks <= 1 => d.key \in {Plain, <<psk, psk>>}
                              /\ d.rec.secret => d.key # Plain
    BY <1>1, SentSealed
  <2>2. net \subseteq net' /\ UNCHANGED <<psk_enabled, nr_psks, psk, rejected>>
    BY <1>1 DEF SendTo, SendSealed, SendUdpPacket
  <2>3. SecretStaysSealed'
    BY <2>1 DEF SecretStaysSealed
  <2>4. NetInv'
    BY <2>1, <2>2 DEF NetInv, DecryptPacket
  <2> QED BY <2>3, <2>4
<1>2. CASE DeriveKey
  <2>1. nr_psks' = nr_psks + 1 /\ nr_psks \in Nat /\ UNCHANGED <<psk_enabled, net, rejected>>
    BY <1>2, SocketAssumption DEF DeriveKey, SealTypeOK
  <2>2. nr_psks' <= 1 => ~psk_enabled
    BY <2>1 DEF KeyInv
  <2> QED BY <2>1, <2>2 DEF NetInv, SecretStaysSealed, DecryptPacket
<1>3. CASE EnablePsk
  BY <1>3 DEF EnablePsk, NetInv, SecretStaysSealed, DecryptPacket
<1>4. CASE Receive
  <2>1. PICK d \in net : \/ rejected' = rejected
                         \/ ~DecryptPacket(d) /\ rejected' = rejected \cup {d}
    BY <1>4 DEF Receive
  <2>2. UNCHANGED <<net, psk_enabled, nr_psks, psk>>
    BY <1>4 DEF Receive
  <2> QED BY <2>1, <2>2 DEF NetInv, SecretStaysSealed, DecryptPacket
<1>5. CASE UNCHANGED <<net, psk_enabled, nr_psks, psk, rejected>>
  BY <1>5 DEF NetInv, SecretStaysSealed, DecryptPacket
<1>6. CASE LogImpl \/ Attach \/ StoreVisible \/ DeriveRest
  BY <1>5, <1>6 DEF LogImpl, Attach, StoreVisible, DeriveRest
<1>7. CASE StartRecord \/ SkipRecord \/ FinishRecord \/ Rest
  BY <1>5, <1>7 DEF StartRecord, SkipRecord, FinishRecord, Rest
<1>8. CASE DestroyStop \/ DestroyJoin \/ DestroyClose \/ FreeListener
  BY <1>5, <1>8 DEF DestroyStop, DestroyJoin, DestroyClose, FreeListener
<1>9. CASE UNCHANGED vars
  BY <1>5, <1>9 DEF vars
<1> QED
  BY <1>1, <1>2, <1>3, <1>4, <1>6, <1>7, <1>8, <1>9 DEF SocketNext, Thread, Gone

(* The state in which init leaves records and keys. *)
LEMMA SealInitInv == SocketInit => SealInv
<1> SUFFICES ASSUME SocketInit PROVE SealInv
  OBVIOUS
<1>1. SealTypeOK
  <2>1. queue \in Seq(Record)
    BY EmptySeq DEF SocketInit
  <2>2. psk_key \in Key
    BY DEF SocketInit, Key
  <2>3. nr_records \in 0 .. MaxRecords
    BY SocketAssumption DEF SocketInit
  <2>4. psk_enabled \in BOOLEAN /\ psk \in Psks \cup {0}
    BY DEF SocketInit
  <2>5. deriving \in 0 .. 2 /\ nr_psks \in 0 .. MaxPsks
    BY SocketAssumption DEF SocketInit
  <2> QED BY <2>1, <2>2, <2>3, <2>4, <2>5 DEF SealTypeOK
<1> QED BY <1>1 DEF SocketInit, SealInv, KeyInv, NetInv, SecretStaysSealed

(* Key, flag, records and datagrams agree in every state, in any build. *)
THEOREM SealInvariant == SocketSpec => []SealInv
<1>1. SocketInit => SealInv
  BY SealInitInv
<1>2. SealInv /\ [SocketNext]_vars => SealInv'
  BY SealTypeStep, KeyStep, NetStep DEF SealInv
<1> QED BY <1>1, <1>2, PTL DEF SocketSpec

(* What was logged under encryption is never sent in plain, whenever the key is
   set and however often. *)
THEOREM SecretsAreSealed == SocketSpec => []SecretStaysSealed
<1>1. SealInv => SecretStaysSealed
  BY DEF SealInv
<1> QED BY <1>1, SealInvariant, PTL

(* A client that sets one key, the receiver's, is understood: no datagram is
   sealed with a key that is half written. *)
THEOREM SealedIsUnderstood == SocketSpec => []OnlyPlainRejected
<1>1. SealInv => OnlyPlainRejected
  BY DEF SealInv, NetInv, OnlyPlainRejected, DecryptPacket
<1> QED BY <1>1, SealInvariant, PTL

----------------------------------------------------------------------------
(* The stores of an attach. *)

(* The store that becomes visible is the first one left. *)
LEMMA RemoveAtOne ==
  ASSUME NEW S, NEW s \in Seq(S), s # <<>>
  PROVE  RemoveAt(s, 1) = Tail(s)
<1>1. SubSeq(s, 1, 0) = <<>>
  BY SubSeqEmpty
<1>2. Tail(s) = SubSeq(s, 2, Len(s)) /\ Tail(s) \in Seq(S)
  BY TailIsSubSeq, HeadTailProperties
<1>3. <<>> \o Tail(s) = Tail(s)
  BY <1>2, ConcatEmptySeq
<1> QED BY <1>1, <1>2, <1>3 DEF RemoveAt

(* A sequence of five. *)
LEMMA FiveTuple ==
  ASSUME NEW S, NEW a \in S, NEW b \in S, NEW c \in S, NEW d \in S, NEW e \in S
  PROVE  LET s == <<a, b, c, d, e>>
         IN /\ s \in Seq(S) /\ Len(s) = 5
            /\ s[1] = a /\ s[2] = b /\ s[3] = c /\ s[4] = d /\ s[5] = e
OBVIOUS

(* What lmk_attach_log_listener and lmk_insert_list store, in order. *)
LEMMA AttachStoresAre ==
  ASSUME NEW c \in Nodes \cup {Head0}, c = Complete, c + 1 \in Nodes,
         NEW A, A = AttachStores(c + 1)
  PROVE  /\ A \in Seq(ListStore) /\ Len(A) = 5
         /\ A[1] = Store(c + 1, "addr", c + 1)
         /\ A[2] = Store(c + 1, "prev", c)
         /\ A[3] = Store(c + 1, "next", Head0)
         /\ A[4] = Store(c, "next", c + 1)
         /\ A[5] = Store(Head0, "prev", c + 1)
<1>1. A = <<Store(c + 1, "addr", c + 1), Store(c + 1, "prev", c), Store(c + 1, "next", Head0),
            Store(c, "next", c + 1), Store(Head0, "prev", c + 1)>>
  BY DEF AttachStores, Complete
<1>2. /\ Store(c + 1, "addr", c + 1) \in ListStore
      /\ Store(c + 1, "prev", c) \in ListStore
      /\ Store(c + 1, "next", Head0) \in ListStore
      /\ Store(c, "next", c + 1) \in ListStore
      /\ Store(Head0, "prev", c + 1) \in ListStore
  BY DEF Store, ListStore
<1>3. PICK a, b, d, e, f : /\ a = Store(c + 1, "addr", c + 1) /\ b = Store(c + 1, "prev", c)
                           /\ d = Store(c + 1, "next", Head0) /\ e = Store(c, "next", c + 1)
                           /\ f = Store(Head0, "prev", c + 1)
  OBVIOUS
<1>4. A = <<a, b, d, e, f>>
  BY <1>1, <1>3, Zenon
<1>5. a \in ListStore /\ b \in ListStore /\ d \in ListStore /\ e \in ListStore /\ f \in ListStore
  BY <1>2, <1>3, Zenon
<1>6. /\ <<a, b, d, e, f>> \in Seq(ListStore) /\ Len(<<a, b, d, e, f>>) = 5
      /\ <<a, b, d, e, f>>[1] = a /\ <<a, b, d, e, f>>[2] = b /\ <<a, b, d, e, f>>[3] = d
      /\ <<a, b, d, e, f>>[4] = e /\ <<a, b, d, e, f>>[5] = f
  BY <1>5, FiveTuple
<1> QED BY <1>3, <1>4, <1>6, Zenon

(* The stores left of an attach are the last ones of it, the next to become
   visible is at their head. *)
LEMMA NextStore ==
  ASSUME SocketTypeOK, ListInv, stores # <<>>,
         NEW A, A = AttachStores(Complete + 1), NEW L, L = Len(stores)
  PROVE  /\ Complete \in Nodes \cup {Head0} /\ Complete + 1 \in Nodes
         /\ A \in Seq(ListStore) /\ Len(A) = 5
         /\ L \in 1 .. 5 /\ stores[1] = A[6 - L]
         /\ RemoveAt(stores, 1) = SubSeq(A, 7 - L, 5)
         /\ RemoveAt(stores, 1) \in Seq(ListStore)
         /\ Len(RemoveAt(stores, 1)) = L - 1
<1>1. Complete \in Nodes \cup {Head0} /\ Complete + 1 \in Nodes
  <2>1. Complete \in Nodes \cup {Head0}
    BY DEF SocketTypeOK, Complete, Pointer, ListInv
  <2>2. Complete + 1 \in live
    BY <2>1, SocketAssumption DEF ListInv, Nodes, Head0
  <2> QED BY <2>1, <2>2 DEF SocketTypeOK
<1>2. A \in Seq(ListStore) /\ Len(A) = 5
  BY <1>1, AttachStoresAre
<1>3. stores = SubSeq(A, 6 - L, 5)
  BY DEF ListInv
<1>4. stores \in Seq(ListStore) /\ L \in Nat \ {0}
  BY EmptySeq DEF SocketTypeOK
<1>5. L <= 5
  BY DEF ListInv
<1>6. PICK m : m = 6 - L
  OBVIOUS
<1>7. m \in 1 .. 5
  BY <1>4, <1>5, <1>6
<1>8. Head(SubSeq(A, m, 5)) = A[m] /\ Tail(SubSeq(A, m, 5)) = SubSeq(A, m + 1, 5)
  BY <1>2, <1>7, HeadTailOfSubSeq
<1>9. stores[1] = A[6 - L] /\ Tail(stores) = SubSeq(A, 7 - L, 5)
  <2>1. Head(stores) = A[m] /\ Tail(stores) = SubSeq(A, m + 1, 5)
    BY <1>3, <1>6, <1>8, Zenon
  <2>2. Head(stores) = stores[1]
    BY <1>4
  <2>3. m + 1 = 7 - L
    BY <1>4, <1>6
  <2> QED BY <1>6, <2>1, <2>2, <2>3, Zenon
<1>10. /\ RemoveAt(stores, 1) = Tail(stores)
       /\ Tail(stores) \in Seq(ListStore) /\ Len(Tail(stores)) = L - 1
  BY <1>4, RemoveAtOne, HeadTailProperties
<1>11. L \in 1 .. 5
  BY <1>4, <1>5
<1> QED BY <1>1, <1>2, <1>9, <1>10, <1>11, Zenon

(* The memory of the list. *)
Memory == [Nodes \cup {Head0} -> [next : Pointer, prev : Pointer, addr : Nodes \cup {0}]]

(* Each store of an attach takes the list from one of the stages ListInv
   describes to the next. *)
LEMMA StoreKeepsList ==
  ASSUME StoresInOrder, SocketTypeOK, ListInv, StoreVisible
  PROVE  /\ ListInv' /\ stores' \in Seq(ListStore) /\ node' \in Memory
         /\ Complete' = IF Len(stores) = 1 THEN Complete + 1 ELSE Complete
<1>1. stores # <<>>
  BY DEF StoreVisible
<1>2. /\ stores' = RemoveAt(stores, 1)
      /\ node' = [node EXCEPT ![stores[1].node][stores[1].field] = stores[1].value]
      /\ live' = live
  BY DEF StoreVisible
<1>3. PICK A : A = AttachStores(Complete + 1)
  OBVIOUS
<1>4. PICK c : c = Complete
  OBVIOUS
<1>5. PICK L : L = Len(stores)
  OBVIOUS
<1>6. /\ c \in Nodes \cup {Head0} /\ c + 1 \in Nodes
      /\ L \in 1 .. 5 /\ stores[1] = A[6 - L]
      /\ stores' = SubSeq(A, 7 - L, 5)
      /\ stores' \in Seq(ListStore)
      /\ Len(stores') = L - 1
  BY <1>1, <1>2, <1>3, <1>4, <1>5, NextStore
<1>7. /\ A[1] = Store(c + 1, "addr", c + 1) /\ A[2] = Store(c + 1, "prev", c)
      /\ A[3] = Store(c + 1, "next", Head0) /\ A[4] = Store(c, "next", c + 1)
      /\ A[5] = Store(Head0, "prev", c + 1)
  BY <1>3, <1>4, <1>6, AttachStoresAre
<1>8. /\ live = 1 .. c + 1
      /\ \A n \in 1 .. c : node[n].addr = n /\ node[n].prev = n - 1
      /\ \A n \in 0 .. c - 1 : node[n].next = n + 1
      /\ node[c].next = IF L = 1 THEN c + 1 ELSE Head0
      /\ L \in 1 .. 4 => node[c + 1].addr = c + 1
      /\ L \in 1 .. 3 => node[c + 1].prev = c
      /\ L \in 1 .. 2 => node[c + 1].next = Head0
  BY <1>1, <1>4, <1>5 DEF ListInv
<1>9. node \in Memory /\ c = node[Head0].prev
  BY <1>4 DEF SocketTypeOK, Complete, Memory
<1>10. /\ c \in Nat /\ Head0 = 0 /\ c + 1 \in Nodes
       /\ \A n \in 0 .. c : n \in Nodes \cup {Head0} /\ n # c + 1
  BY <1>6, SocketAssumption DEF Nodes, Head0
<1>11. ASSUME Complete' = c, L > 1,
              \A n \in 1 .. c : node'[n].addr = n /\ node'[n].prev = n - 1,
              \A n \in 0 .. c - 1 : node'[n].next = n + 1,
              node'[c].next = IF L = 2 THEN c + 1 ELSE Head0,
              L \in 2 .. 5 => node'[c + 1].addr = c + 1,
              L \in 2 .. 4 => node'[c + 1].prev = c,
              L \in 2 .. 3 => node'[c + 1].next = Head0
       PROVE  ListInv'
  <2>1. stores' # <<>>
    <3>1. Len(stores') # 0
      BY <1>6, <1>11
    <3> QED BY <3>1, EmptySeq
  <2>2. AttachStores(c + 1)' = A
    BY <1>3, <1>4, <1>11 DEF AttachStores, Complete
  <2>3. stores' = SubSeq(AttachStores(Complete + 1)', 6 - Len(stores'), 5)
    <3>1. 6 - Len(stores') = 7 - L
      BY <1>6
    <3> QED BY <1>6, <1>11, <2>2, <3>1, Zenon
  <2>4. live' = 1 .. (IF stores' = <<>> THEN Complete' ELSE Complete' + 1)
    BY <1>2, <1>8, <1>11, <2>1
  <2>5. PICK K : K = Len(stores')
    OBVIOUS
  <2>6. K = L - 1
    BY <1>6, <2>5
  <2>7. Complete' # Null
    BY <1>6, <1>11, SocketAssumption DEF Nodes, Head0, Null
  <2> HIDE <1>2
  <2> QED BY <1>6, <1>11, <2>3, <2>4, <2>5, <2>6, <2>7 DEF ListInv
<1>12. CASE L = 5
  <2>1. stores[1].node = c + 1 /\ stores[1].field = "addr" /\ stores[1].value = c + 1
    BY <1>6, <1>7, <1>12 DEF Store
  <2>2. node' = [node EXCEPT ![c + 1]["addr"] = c + 1]
    BY <1>2, <2>1, Zenon
  <2>3. /\ node' \in Memory
        /\ \A n \in Nodes \cup {Head0} :
             /\ node'[n].next = node[n].next /\ node'[n].prev = node[n].prev
             /\ node'[n].addr = IF n = c + 1 THEN c + 1 ELSE node[n].addr
    BY <1>6, <1>9, <2>2 DEF Memory, Pointer, Head0
  <2>4. Complete' = c
    BY <1>4, <1>9, <1>10, <2>3 DEF Complete
  <2>5. /\ \A n \in 1 .. c : node'[n].addr = n /\ node'[n].prev = n - 1
        /\ \A n \in 0 .. c - 1 : node'[n].next = n + 1
    <3>1. \A n \in 1 .. c : n \in 0 .. c
      BY <1>10
    <3>2. \A n \in 0 .. c - 1 : n \in 0 .. c
      BY <1>10
    <3>3. \A n \in 1 .. c : node'[n].addr = n /\ node'[n].prev = n - 1
      BY <1>8, <1>10, <2>3, <3>1
    <3>4. \A n \in 0 .. c - 1 : node'[n].next = n + 1
      BY <1>8, <1>10, <2>3, <3>2
    <3> QED BY <3>3, <3>4
  <2>6. node'[c].next = IF L = 2 THEN c + 1 ELSE Head0
    BY <1>8, <1>10, <1>12, <2>3
  <2>7. /\ L \in 2 .. 5 => node'[c + 1].addr = c + 1
        /\ L \in 2 .. 4 => node'[c + 1].prev = c
        /\ L \in 2 .. 3 => node'[c + 1].next = Head0
    BY <1>8, <1>10, <1>12, <2>3
  <2>8. ListInv'
    BY <1>11, <1>12, <2>4, <2>5, <2>6, <2>7
  <2> QED BY <1>4, <1>5, <1>6, <1>12, <2>3, <2>4, <2>8
<1>13. CASE L = 4
  <2>1. stores[1].node = c + 1 /\ stores[1].field = "prev" /\ stores[1].value = c
    BY <1>6, <1>7, <1>13 DEF Store
  <2>2. node' = [node EXCEPT ![c + 1]["prev"] = c]
    BY <1>2, <2>1, Zenon
  <2>3. /\ node' \in Memory
        /\ \A n \in Nodes \cup {Head0} :
             /\ node'[n].next = node[n].next /\ node'[n].addr = node[n].addr
             /\ node'[n].prev = IF n = c + 1 THEN c ELSE node[n].prev
    BY <1>6, <1>9, <2>2 DEF Memory, Pointer, Head0
  <2>4. Complete' = c
    BY <1>4, <1>9, <1>10, <2>3 DEF Complete
  <2>5. /\ \A n \in 1 .. c : node'[n].addr = n /\ node'[n].prev = n - 1
        /\ \A n \in 0 .. c - 1 : node'[n].next = n + 1
    <3>1. \A n \in 1 .. c : n \in 0 .. c
      BY <1>10
    <3>2. \A n \in 0 .. c - 1 : n \in 0 .. c
      BY <1>10
    <3>3. \A n \in 1 .. c : node'[n].addr = n /\ node'[n].prev = n - 1
      BY <1>8, <1>10, <2>3, <3>1
    <3>4. \A n \in 0 .. c - 1 : node'[n].next = n + 1
      BY <1>8, <1>10, <2>3, <3>2
    <3> QED BY <3>3, <3>4
  <2>6. node'[c].next = IF L = 2 THEN c + 1 ELSE Head0
    BY <1>8, <1>10, <1>13, <2>3
  <2>7. /\ L \in 2 .. 5 => node'[c + 1].addr = c + 1
        /\ L \in 2 .. 4 => node'[c + 1].prev = c
        /\ L \in 2 .. 3 => node'[c + 1].next = Head0
    BY <1>8, <1>10, <1>13, <2>3
  <2>8. ListInv'
    BY <1>11, <1>13, <2>4, <2>5, <2>6, <2>7
  <2> QED BY <1>4, <1>5, <1>6, <1>13, <2>3, <2>4, <2>8
<1>14. CASE L = 3
  <2>1. stores[1].node = c + 1 /\ stores[1].field = "next" /\ stores[1].value = Head0
    BY <1>6, <1>7, <1>14 DEF Store
  <2>2. node' = [node EXCEPT ![c + 1]["next"] = Head0]
    BY <1>2, <2>1, Zenon
  <2>3. /\ node' \in Memory
        /\ \A n \in Nodes \cup {Head0} :
             /\ node'[n].prev = node[n].prev /\ node'[n].addr = node[n].addr
             /\ node'[n].next = IF n = c + 1 THEN Head0 ELSE node[n].next
    BY <1>6, <1>9, <2>2 DEF Memory, Pointer, Head0
  <2>4. Complete' = c
    BY <1>4, <1>9, <1>10, <2>3 DEF Complete
  <2>5. /\ \A n \in 1 .. c : node'[n].addr = n /\ node'[n].prev = n - 1
        /\ \A n \in 0 .. c - 1 : node'[n].next = n + 1
    <3>1. \A n \in 1 .. c : n \in 0 .. c
      BY <1>10
    <3>2. \A n \in 0 .. c - 1 : n \in 0 .. c
      BY <1>10
    <3>3. \A n \in 1 .. c : node'[n].addr = n /\ node'[n].prev = n - 1
      BY <1>8, <1>10, <2>3, <3>1
    <3>4. \A n \in 0 .. c - 1 : node'[n].next = n + 1
      BY <1>8, <1>10, <2>3, <3>2
    <3> QED BY <3>3, <3>4
  <2>6. node'[c].next = IF L = 2 THEN c + 1 ELSE Head0
    BY <1>8, <1>10, <1>14, <2>3
  <2>7. /\ L \in 2 .. 5 => node'[c + 1].addr = c + 1
        /\ L \in 2 .. 4 => node'[c + 1].prev = c
        /\ L \in 2 .. 3 => node'[c + 1].next = Head0
    BY <1>8, <1>10, <1>14, <2>3
  <2>8. ListInv'
    BY <1>11, <1>14, <2>4, <2>5, <2>6, <2>7
  <2> QED BY <1>4, <1>5, <1>6, <1>14, <2>3, <2>4, <2>8
<1>15. CASE L = 2
  <2>1. stores[1].node = c /\ stores[1].field = "next" /\ stores[1].value = c + 1
    BY <1>6, <1>7, <1>15 DEF Store
  <2>2. node' = [node EXCEPT ![c]["next"] = c + 1]
    BY <1>2, <2>1, Zenon
  <2>3. /\ node' \in Memory
        /\ \A n \in Nodes \cup {Head0} :
             /\ node'[n].prev = node[n].prev /\ node'[n].addr = node[n].addr
             /\ node'[n].next = IF n = c THEN c + 1 ELSE node[n].next
    BY <1>6, <1>9, <2>2 DEF Memory, Pointer, Head0
  <2>4. Complete' = c
    BY <1>4, <1>9, <1>10, <2>3 DEF Complete
  <2>5. /\ \A n \in 1 .. c : node'[n].addr = n /\ node'[n].prev = n - 1
        /\ \A n \in 0 .. c - 1 : node'[n].next = n + 1
    <3>1. \A n \in 1 .. c : n \in 0 .. c
      BY <1>10
    <3>2. \A n \in 0 .. c - 1 : n \in 0 .. c
      BY <1>10
    <3>3. \A n \in 1 .. c : node'[n].addr = n /\ node'[n].prev = n - 1
      BY <1>8, <1>10, <2>3, <3>1
    <3>4. \A n \in 0 .. c - 1 : node'[n].next = n + 1
      BY <1>8, <1>10, <2>3, <3>2
    <3> QED BY <3>3, <3>4
  <2>6. node'[c].next = IF L = 2 THEN c + 1 ELSE Head0
    BY <1>8, <1>10, <1>15, <2>3
  <2>7. /\ L \in 2 .. 5 => node'[c + 1].addr = c + 1
        /\ L \in 2 .. 4 => node'[c + 1].prev = c
        /\ L \in 2 .. 3 => node'[c + 1].next = Head0
    BY <1>8, <1>10, <1>15, <2>3
  <2>8. ListInv'
    BY <1>11, <1>15, <2>4, <2>5, <2>6, <2>7
  <2> QED BY <1>4, <1>5, <1>6, <1>15, <2>3, <2>4, <2>8
<1>16. CASE L = 1
  <2>1. stores[1].node = Head0 /\ stores[1].field = "prev" /\ stores[1].value = c + 1
    BY <1>6, <1>7, <1>16 DEF Store
  <2>2. node' = [node EXCEPT ![Head0]["prev"] = c + 1]
    BY <1>2, <2>1, Zenon
  <2>3. /\ node' \in Memory
        /\ \A n \in Nodes \cup {Head0} :
             /\ node'[n].next = node[n].next /\ node'[n].addr = node[n].addr
             /\ node'[n].prev = IF n = Head0 THEN c + 1 ELSE node[n].prev
    BY <1>6, <1>9, <2>2 DEF Memory, Pointer, Head0
  <2>4. Complete' = c + 1 /\ Complete' # Null
    BY <1>6, <2>3, SocketAssumption DEF Complete, Nodes, Null, Head0
  <2>5. stores' = <<>>
    BY <1>6, <1>16, EmptySeq
  <2>6. SubSeq(AttachStores(Complete + 1)', 6 - Len(stores'), 5) = <<>>
    BY <1>6, <1>16, SubSeqEmpty
  <2>7. \A n \in 1 .. c + 1 : node'[n].addr = n /\ node'[n].prev = n - 1
    <3>1. \A n \in 1 .. c : n \in 0 .. c /\ n # Head0
      BY <1>10
    <3>2. \A n \in 1 .. c : node'[n].addr = n /\ node'[n].prev = n - 1
      BY <1>8, <1>10, <2>3, <3>1
    <3>3. node'[c + 1].addr = c + 1 /\ node'[c + 1].prev = c /\ c = (c + 1) - 1
      BY <1>8, <1>10, <1>16, <2>3
    <3>4. \A n \in 1 .. c + 1 : n \in 1 .. c \/ n = c + 1
      BY <1>10
    <3> QED BY <3>2, <3>3, <3>4
  <2>8. \A n \in 0 .. c : node'[n].next = n + 1
    BY <1>8, <1>10, <1>16, <2>3
  <2>9. node'[c + 1].next = Head0
    BY <1>8, <1>10, <1>16, <2>3
  <2>10. Len(stores') = 0 /\ live' = 1 .. c + 1 /\ (c + 1) - 1 = c
    BY <1>2, <1>6, <1>8, <1>16, SocketAssumption DEF Nodes, Head0
  <2>11. ListInv'
    BY <2>4, <2>5, <2>6, <2>7, <2>8, <2>9, <2>10 DEF ListInv
  <2> QED BY <1>4, <1>5, <1>6, <1>16, <2>3, <2>4, <2>11
<1> QED BY <1>6, <1>12, <1>13, <1>14, <1>15, <1>16

(* ListInv and FreeInv are about the list alone. *)
LEMMA ListKept ==
  ASSUME UNCHANGED listVars
  PROVE  (ListInv => ListInv') /\ (FreeInv => FreeInv') /\ Complete' = Complete
BY DEF listVars, ListInv, FreeInv, Complete, AttachStores

(* A new listener is the one after the last, and nothing of it is visible yet. *)
LEMMA AttachKeepsList ==
  ASSUME SocketTypeOK, ListInv, Attach
  PROVE  /\ ListInv' /\ stores' \in Seq(ListStore) /\ live' \subseteq Nodes
         /\ Complete' = Complete
<1>1. PICK n \in Nodes : /\ n - 1 = 0 \/ n - 1 \in live
                         /\ n \notin live
                         /\ live' = live \cup {n}
                         /\ stores' = AttachStores(n)
  BY DEF Attach
<1>2. node' = node /\ stores = <<>>
  BY DEF Attach
<1>3. PICK c : c = Complete
  OBVIOUS
<1>4. c \in Nodes \cup {Head0} /\ live = 1 .. c /\ Len(stores) = 0
  BY <1>2, <1>3, EmptySeq DEF SocketTypeOK, Complete, Pointer, ListInv
<1>5. n = c + 1 /\ live' = 1 .. c + 1
  BY <1>1, <1>4, SocketAssumption DEF Nodes, Head0
<1>6. PICK A : A = AttachStores(c + 1)
  OBVIOUS
<1>7. A \in Seq(ListStore) /\ Len(A) = 5
  BY <1>1, <1>3, <1>4, <1>5, <1>6, AttachStoresAre
<1>8. stores' = A /\ Complete' = c /\ AttachStores(Complete + 1)' = A
  BY <1>1, <1>2, <1>3, <1>5, <1>6 DEF Complete, AttachStores
<1>9. SubSeq(A, 1, 5) = A
  BY <1>7, SubSeqFull
<1>10. Len(stores') = 5 /\ stores' # <<>>
  BY <1>7, <1>8, EmptySeq
<1>11. stores' = SubSeq(AttachStores(Complete + 1)', 6 - Len(stores'), 5)
  <2>1. 6 - Len(stores') = 1
    BY <1>10
  <2> QED BY <1>8, <1>9, <2>1, Zenon
<1>12. /\ c # Null
       /\ \A m \in 1 .. c : node[m].addr = m /\ node[m].prev = m - 1
       /\ \A m \in 0 .. c - 1 : node[m].next = m + 1
       /\ node[c].next = Head0
  BY <1>3, <1>4 DEF ListInv
<1>13. ListInv'
  <2>1. PICK K : K = Len(stores')
    OBVIOUS
  <2>2. K = 5
    BY <1>10, <2>1
  <2> QED BY <1>2, <1>5, <1>8, <1>10, <1>11, <1>12, <2>1, <2>2 DEF ListInv
<1> QED BY <1>1, <1>3, <1>7, <1>8, <1>13 DEF SocketTypeOK

(* lmk_remove_list of the first listener leaves the list of the others. *)
LEMMA FreeKeepsList ==
  ASSUME SocketTypeOK, FreeInv, FreeListener
  PROVE  FreeInv' /\ node' \in Memory
<1>1. PICK c : c = node[Head0].next
  OBVIOUS
<1>2. c # Head0 /\ node' = Removed(c) /\ live' = live \ {c}
  BY <1>1 DEF FreeListener
<1>3. node \in Memory /\ live \subseteq Nodes
  BY DEF SocketTypeOK, Memory
<1>4. c \in live /\ c \in Nodes /\ node[c].prev = Head0
  BY <1>1, <1>2, <1>3 DEF FreeInv
<1>5. \A n \in live : /\ c <= n /\ c .. n \subseteq live
                      /\ node[n].next = IF n + 1 \in live THEN n + 1 ELSE Head0
  BY <1>1 DEF FreeInv
<1>6. PICK x : x = node[c].next
  OBVIOUS
<1>7. x = (IF c + 1 \in live THEN c + 1 ELSE Head0) /\ x # c /\ x \in Nodes \cup {Head0}
  BY <1>3, <1>4, <1>5, <1>6, SocketAssumption DEF Nodes, Head0
<1>8. node' = [node EXCEPT ![Head0].next = x, ![x].prev = Head0]
  BY <1>2, <1>4, <1>6, <1>7 DEF Removed
<1>9. /\ node' \in Memory
      /\ \A n \in Nodes \cup {Head0} :
           /\ node'[n].next = IF n = Head0 THEN x ELSE node[n].next
           /\ node'[n].prev = IF n = x THEN Head0 ELSE node[n].prev
  BY <1>3, <1>7, <1>8 DEF Memory, Pointer, Head0
<1>10. node'[Head0].next = x /\ x # Null
  BY <1>7, <1>9, SocketAssumption DEF Nodes, Head0, Null
<1>11. x = Head0 => live' = {}
  <2> SUFFICES ASSUME x = Head0, NEW n \in live, n # c PROVE FALSE
    BY <1>2
  <2>1. c + 1 \notin live
    BY <1>4, <1>7, SocketAssumption DEF Nodes, Head0
  <2>2. c + 1 \in c .. n
    BY <1>3, <1>4, <1>5, SocketAssumption DEF Nodes
  <2> QED BY <1>5, <2>1, <2>2
<1>12. x # Head0 => x \in live' /\ node'[x].prev = Head0
  BY <1>2, <1>4, <1>7, <1>9, SocketAssumption DEF Nodes
<1>13. ASSUME NEW n \in live'
       PROVE  /\ x <= n /\ x .. n \subseteq live'
              /\ node'[n].next = IF n + 1 \in live' THEN n + 1 ELSE Head0
  <2>1. n \in live /\ n # c /\ c < n /\ n \in Nodes
    <3>1. n \in live /\ n # c /\ n \in Nodes
      BY <1>2, <1>3, <1>13
    <3>2. c <= n
      BY <1>5, <3>1
    <3> QED BY <1>4, <3>1, <3>2, SocketAssumption DEF Nodes
  <2>2. c + 1 \in live /\ x = c + 1
    <3>1. c + 1 \in c .. n
      BY <1>3, <1>4, <2>1, SocketAssumption DEF Nodes
    <3> QED BY <1>5, <1>7, <2>1, <3>1
  <2>3. x <= n
    BY <1>4, <2>1, <2>2, SocketAssumption DEF Nodes
  <2>4. x .. n \subseteq live'
    <3> SUFFICES ASSUME NEW k \in x .. n PROVE k \in live /\ k # c
      BY <1>2
    <3> QED BY <1>4, <1>5, <2>1, <2>2, SocketAssumption DEF Nodes
  <2>5. node'[n].next = node[n].next
    BY <1>9, <2>1, SocketAssumption DEF Nodes, Head0
  <2>6. n + 1 \in live' <=> n + 1 \in live
    BY <1>2, <1>4, <2>1, SocketAssumption DEF Nodes
  <2> QED BY <1>5, <2>1, <2>3, <2>4, <2>5, <2>6
<1>14. FreeInv'
  BY <1>10, <1>11, <1>12, <1>13 DEF FreeInv
<1> QED BY <1>9, <1>14

(* When the thread has ended and the frees begin, the list is complete. *)
LEMMA ListIsFree ==
  ASSUME SocketTypeOK, ListInv, stores = <<>>
  PROVE  FreeInv
<1>1. PICK c : c = Complete
  OBVIOUS
<1>2. c \in Nodes \cup {Head0} /\ live = 1 .. c /\ Len(stores) = 0
  BY <1>1, EmptySeq DEF SocketTypeOK, Complete, Pointer, ListInv
<1>3. /\ \A n \in 1 .. c : node[n].prev = n - 1
      /\ \A n \in 0 .. c - 1 : node[n].next = n + 1
      /\ node[c].next = Head0
  BY <1>1, <1>2 DEF ListInv
<1>4. CASE c = Head0
  BY <1>2, <1>3, <1>4 DEF FreeInv, Head0, Null
<1>5. CASE c \in Nodes
  <2>1. node[Head0].next = 1 /\ 1 \in live /\ node[1].prev = Head0
    BY <1>2, <1>3, <1>5, SocketAssumption DEF Nodes, Head0
  <2>2. ASSUME NEW n \in live
        PROVE  /\ 1 <= n /\ 1 .. n \subseteq live
               /\ node[n].next = IF n + 1 \in live THEN n + 1 ELSE Head0
    BY <1>2, <1>3, <1>5, SocketAssumption DEF Nodes, Head0
  <2> QED BY <2>1, <2>2 DEF FreeInv, Head0, Null
<1> QED BY <1>2, <1>4, <1>5

----------------------------------------------------------------------------
(* Types. *)
LEMMA TypeStep ==
  ASSUME StoresInOrder, SocketInv, [SocketNext]_vars
  PROVE  SocketTypeOK'
<1> USE SocketAssumption DEF SocketInv, queueVars, threadVars, listVars, keyVars, receiverVars
<1>1. SealTypeOK'
  BY SealTypeStep
<1>2. CASE LogImpl
  <2>1. Len(queue) \in Nat /\ Len(queue') = Len(queue) + 1
    BY <1>2, QueueAppend DEF SealInv
  <2> QED BY <1>1, <1>2, <2>1 DEF LogImpl, SocketTypeOK
<1>3. CASE Attach
  <2>1. ListInv
    BY <1>3 DEF Attach, PhaseInv
  <2>2. stores' \in Seq(ListStore) /\ live' \subseteq Nodes
    BY <1>3, <2>1, AttachKeepsList
  <2> QED BY <1>1, <1>3, <2>2 DEF Attach, SocketTypeOK
<1>4. CASE StoreVisible
  <2>1. destroyer \in {"idle", "join"}
    BY <1>4 DEF StoreVisible, PhaseInv, SocketTypeOK
  <2>2. stores' \in Seq(ListStore) /\ node' \in Memory
    BY <1>4, <2>1, StoreKeepsList DEF PhaseInv
  <2> QED BY <1>1, <1>4, <2>2 DEF StoreVisible, SocketTypeOK, Memory
<1>5. CASE DeriveKey \/ DeriveRest \/ EnablePsk
  BY <1>1, <1>5 DEF DeriveKey, DeriveRest, EnablePsk, SocketTypeOK
<1>8. CASE StartRecord
  <2>1. cursor' \in Pointer
    BY <1>8 DEF StartRecord, SocketTypeOK
  <2>2. due' \subseteq Nodes
    BY <1>8 DEF StartRecord, Attached, SocketTypeOK
  <2>3. visited' \in Seq(Nodes)
    BY <1>8, EmptySeq DEF StartRecord
  <2> QED BY <1>1, <1>8, <2>1, <2>2, <2>3 DEF StartRecord, SocketTypeOK, SealTypeOK
<1>10. CASE SkipRecord \/ FinishRecord
  <2>1. queue # <<>> /\ queue' = Tail(queue)
    BY <1>10 DEF SkipRecord, FinishRecord, SealInv, KeyInv
  <2>2. Len(queue) \in Nat /\ Len(queue') = Len(queue) - 1
    BY <2>1, QueueTail DEF SealInv
  <2> QED BY <1>1, <1>10, <2>2 DEF SkipRecord, FinishRecord, SocketTypeOK
<1>11. CASE SendTo
  <2>1. queue # <<>>
    BY <1>11 DEF SendTo, SealInv, KeyInv
  <2>2. queue[1] \in Record
    BY <2>1, EmptySeq, ElementOfSeq DEF SealInv, SealTypeOK
  <2>3. node[cursor].addr \in Nodes \cup {0} /\ cursor' \in Pointer
    BY <1>11 DEF SendTo, Advance, SocketTypeOK
  <2>4. net' \subseteq Datagram
    BY <1>11, <2>2, <2>3
    DEF SendTo, SendSealed, SendUdpPacket, SocketTypeOK, SealTypeOK, Datagram
  <2>5. visited' \in Seq(Nodes)
    BY <1>11, AppendProperties DEF SendTo, Advance, SocketTypeOK
  <2> QED BY <1>1, <1>11, <2>3, <2>4, <2>5 DEF SendTo, SocketTypeOK
<1>13. CASE Rest
  BY <1>1, <1>13 DEF Rest, SocketTypeOK
<1>14. CASE Receive
  BY <1>1, <1>14 DEF Receive, SocketTypeOK
<1>15. CASE DestroyStop \/ DestroyJoin \/ DestroyClose
  BY <1>1, <1>15 DEF DestroyStop, DestroyJoin, DestroyClose, SocketTypeOK
<1>16. CASE FreeListener
  <2>1. node' \in Memory
    BY <1>16, FreeKeepsList DEF FreeListener, PhaseInv
  <2>2. live' \subseteq Nodes
    BY <1>16 DEF FreeListener, SocketTypeOK
  <2> QED BY <1>1, <1>16, <2>1, <2>2 DEF FreeListener, SocketTypeOK, Memory
<1>17. CASE UNCHANGED vars
  BY <1>1, <1>17 DEF vars, SocketTypeOK
<1> QED
  BY <1>2, <1>3, <1>4, <1>5, <1>8, <1>10, <1>11, <1>13, <1>14, <1>15, <1>16, <1>17
  DEF SocketNext, Thread, Gone

(* The list in the phases of the handler's life. *)
LEMMA PhaseStep ==
  ASSUME StoresInOrder, SocketInv, [SocketNext]_vars
  PROVE  PhaseInv'
<1> USE DEF SocketInv, PhaseInv, queueVars, threadVars, keyVars, receiverVars
<1>1. destroyer \in {"idle", "join", "free", "freed"}
  BY DEF SocketTypeOK
<1>2. CASE Attach
  <2>1. ListInv'
    BY <1>2, AttachKeepsList DEF Attach
  <2> QED BY <1>2, <2>1 DEF Attach
<1>3. CASE StoreVisible
  <2>1. destroyer = "idle"
    BY <1>1, <1>3 DEF StoreVisible
  <2>2. ListInv'
    BY <1>3, <2>1, StoreKeepsList
  <2> QED BY <1>3, <2>1, <2>2 DEF StoreVisible
<1>4. CASE FreeListener
  <2>1. FreeInv'
    BY <1>4, FreeKeepsList DEF FreeListener
  <2> QED BY <1>4, <2>1 DEF FreeListener
<1>5. ASSUME UNCHANGED listVars
      PROVE  /\ ListInv => ListInv'
             /\ FreeInv => FreeInv'
             /\ stores' = stores /\ live' = live
  BY <1>5, ListKept DEF listVars
<1>6. CASE DestroyStop
  BY <1>5, <1>6 DEF DestroyStop
<1>7. CASE DestroyJoin
  BY <1>5, <1>7, ListIsFree DEF DestroyJoin
<1>8. CASE DestroyClose
  <2>1. live = {}
    BY <1>8 DEF DestroyClose, FreeInv
  <2> QED BY <1>5, <1>8, <2>1 DEF DestroyClose
<1>9. CASE LogImpl \/ Receive
  BY <1>5, <1>9 DEF LogImpl, Receive
<1>10. CASE DeriveKey \/ DeriveRest \/ EnablePsk
  BY <1>5, <1>10 DEF DeriveKey, DeriveRest, EnablePsk
<1>11. CASE Thread
  BY <1>5, <1>11 DEF Thread, StartRecord, SkipRecord, SendTo, FinishRecord, Rest
<1>12. CASE UNCHANGED vars
  BY <1>5, <1>12 DEF vars
<1> QED
  BY <1>2, <1>3, <1>4, <1>6, <1>7, <1>8, <1>9, <1>10, <1>11, <1>12 DEF SocketNext, Gone

----------------------------------------------------------------------------
(* The walk. *)

(* One listener further: it is the next in the order of attaching or, when all
   that were due are passed, the head. *)
LEMMA SendToKeepsWalk ==
  ASSUME SocketInv, SendTo
  PROVE  WalkInv'
<1> USE DEF SocketInv
<1>1. /\ pc = "walk" /\ pc' = pc /\ cursor \in Nodes
      /\ due' = due /\ node' = node /\ stores' = stores
      /\ visited' = Append(visited, cursor) /\ cursor' = node[cursor].next
  BY DEF SendTo, Advance, queueVars, listVars
<1>2. ListInv
  BY <1>1 DEF PhaseInv, SocketTypeOK
<1>3. PICK c : c = Complete
  OBVIOUS
<1>4. PICK v : v = Len(visited)
  OBVIOUS
<1>5. c \in Nodes \cup {Head0} /\ v \in Nat /\ cursor # Head0 /\ visited \in Seq(Nodes)
  BY <1>1, <1>2, <1>3, <1>4, LenProperties, SocketAssumption
  DEF SocketTypeOK, Complete, Pointer, ListInv, Nodes, Head0
<1>6. /\ \A j \in DOMAIN visited : visited[j] = j
      /\ due \subseteq 1 .. c
      /\ cursor = v + 1
      /\ cursor <= c \/ (cursor = c + 1 /\ Len(stores) = 1)
  BY <1>1, <1>3, <1>4, <1>5 DEF WalkInv
<1>7. /\ visited' \in Seq(Nodes) /\ Len(visited') = v + 1
      /\ \A j \in 1 .. v : visited'[j] = visited[j]
      /\ visited'[v + 1] = cursor
  BY <1>1, <1>4, <1>5, AppendProperties
<1>8. DOMAIN visited = 1 .. v /\ DOMAIN visited' = 1 .. v + 1
  BY <1>4, <1>5, <1>7, LenProperties
<1>9. \A j \in DOMAIN visited' : visited'[j] = j
  BY <1>5, <1>6, <1>7, <1>8
<1>10. /\ \A n \in 0 .. c - 1 : node[n].next = n + 1
       /\ node[c].next = IF Len(stores) = 1 THEN c + 1 ELSE Head0
       /\ Len(stores) \in 1 .. 2 => node[c + 1].next = Head0
  BY <1>2, <1>3 DEF ListInv
<1>11. \/ cursor < c /\ cursor' = cursor + 1
       \/ cursor = c /\ Len(stores) = 1 /\ cursor' = c + 1
       \/ cursor >= c /\ cursor' = Head0
  BY <1>1, <1>5, <1>6, <1>10, SocketAssumption DEF Nodes, Head0
<1>12. cursor' = Head0 => due' \subseteq 1 .. Len(visited')
  BY <1>1, <1>5, <1>6, <1>7, <1>11, SocketAssumption DEF Nodes, Head0
<1>13. cursor' # Head0 => /\ cursor' = Len(visited') + 1
                          /\ cursor' <= c \/ (cursor' = c + 1 /\ Len(stores') = 1)
  BY <1>1, <1>5, <1>6, <1>7, <1>11, SocketAssumption DEF Nodes, Head0
<1>14. Complete' = c
  BY <1>1, <1>3 DEF Complete
<1> QED BY <1>1, <1>6, <1>9, <1>12, <1>13, <1>14 DEF WalkInv

(* The first listener: those whose attach has returned are linked. *)
LEMMA StartKeepsWalk ==
  ASSUME SocketInv, StartRecord
  PROVE  WalkInv'
<1> USE DEF SocketInv
<1>1. /\ pc = "peek"
      /\ due' = Attached /\ visited' = <<>> /\ cursor' = node[Head0].next
      /\ node' = node /\ stores' = stores
  BY DEF StartRecord, queueVars, listVars
<1>2. ListInv
  BY <1>1 DEF PhaseInv, SocketTypeOK
<1>3. PICK c : c = Complete
  OBVIOUS
<1>4. c \in Nodes \cup {Head0} /\ Complete' = c
  BY <1>1, <1>2, <1>3 DEF SocketTypeOK, Complete, Pointer, ListInv
<1>5. due' \subseteq 1 .. c
  <2>1. live = 1 .. (IF stores = <<>> THEN c ELSE c + 1)
    BY <1>2, <1>3 DEF ListInv
  <2>2. CASE stores = <<>>
    BY <1>1, <2>1, <2>2 DEF Attached
  <2>3. CASE stores # <<>>
    BY <1>1, <1>4, <2>1, <2>3, SocketAssumption DEF Attached, Nodes, Head0
  <2> QED BY <2>2, <2>3
<1>6. /\ 0 < c => node[0].next = 1
      /\ c = 0 => node[0].next = IF Len(stores) = 1 THEN 1 ELSE Head0
  <2>1. /\ \A n \in 0 .. c - 1 : node[n].next = n + 1
        /\ node[c].next = IF Len(stores) = 1 THEN c + 1 ELSE Head0
    BY <1>2, <1>3 DEF ListInv
  <2> QED BY <1>4, <2>1, SocketAssumption DEF Nodes, Head0
<1>7. Len(visited') = 0 /\ DOMAIN visited' = {}
  BY <1>1
<1>8. cursor' = Head0 => due' \subseteq 1 .. Len(visited')
  BY <1>1, <1>4, <1>5, <1>6, <1>7, SocketAssumption DEF Nodes, Head0
<1>9. cursor' # Head0 => /\ cursor' = Len(visited') + 1
                         /\ cursor' <= c \/ (cursor' = c + 1 /\ Len(stores') = 1)
  BY <1>1, <1>4, <1>6, <1>7, SocketAssumption DEF Nodes, Head0
<1> QED BY <1>1, <1>4, <1>5, <1>7, <1>8, <1>9 DEF WalkInv

(* What the walk rests on stays as it is, whatever others do meanwhile. *)
LEMMA WalkStep ==
  ASSUME StoresInOrder, SocketInv, [SocketNext]_vars
  PROVE  WalkInv'
<1> USE DEF SocketInv, queueVars, threadVars, keyVars, receiverVars
<1>1. CASE LogImpl
  BY <1>1 DEF LogImpl, WalkInv, listVars, Complete
<1>2. CASE Attach
  <2>1. Complete' = Complete /\ stores = <<>>
    BY <1>2, AttachKeepsList DEF Attach, PhaseInv
  <2>2. Len(stores) # 1
    BY <2>1
  <2> QED BY <1>2, <2>1, <2>2 DEF Attach, WalkInv
<1>3. CASE StoreVisible
  <2> SUFFICES ASSUME pc = "walk" PROVE WalkInv'
    BY <1>3 DEF StoreVisible, WalkInv
  <2>1. ListInv
    BY DEF PhaseInv, SocketTypeOK
  <2>2. Complete' = IF Len(stores) = 1 THEN Complete + 1 ELSE Complete
    BY <1>3, <2>1, StoreKeepsList
  <2>3. Complete \in Nodes \cup {Head0} /\ cursor \in Pointer
    BY <2>1 DEF SocketTypeOK, Complete, Pointer, ListInv
  <2>4. due \subseteq 1 .. Complete'
    BY <2>2, <2>3, SocketAssumption DEF WalkInv, Nodes, Head0
  <2>5. cursor # Head0 =>
          cursor <= Complete' \/ (cursor = Complete' + 1 /\ Len(stores') = 1)
    BY <2>2, <2>3, SocketAssumption DEF WalkInv, Nodes, Head0, Pointer, Null
  <2> QED BY <1>3, <2>4, <2>5 DEF StoreVisible, WalkInv
<1>4. CASE DeriveKey \/ DeriveRest \/ EnablePsk \/ Receive
  BY <1>4 DEF DeriveKey, DeriveRest, EnablePsk, Receive, WalkInv, listVars, Complete
<1>5. CASE StartRecord
  BY <1>5, StartKeepsWalk
<1>6. CASE SendTo
  BY <1>6, SendToKeepsWalk
<1>7. CASE SkipRecord \/ FinishRecord \/ Rest
  BY <1>7 DEF SkipRecord, FinishRecord, Rest, WalkInv
<1>8. CASE DestroyStop \/ DestroyJoin \/ DestroyClose
  BY <1>8 DEF DestroyStop, DestroyJoin, DestroyClose, WalkInv, listVars, Complete
<1>9. CASE FreeListener
  BY <1>9 DEF FreeListener, PhaseInv, WalkInv
<1>10. CASE UNCHANGED vars
  BY <1>10 DEF vars, WalkInv, listVars, Complete
<1> QED
  BY <1>1, <1>2, <1>3, <1>4, <1>5, <1>6, <1>7, <1>8, <1>9, <1>10 DEF SocketNext, Thread, Gone

----------------------------------------------------------------------------
(* The invariant holds when the handler is created. *)
LEMMA SocketInitInv == SocketInit => SocketInv
<1> SUFFICES ASSUME SocketInit PROVE SocketInv
  OBVIOUS
<1> USE SocketAssumption DEF SocketInit
<1>1. /\ stores \in Seq(ListStore) /\ visited \in Seq(Nodes)
      /\ Len(queue) = 0 /\ Len(stores) = 0
  BY EmptySeq
<1>2. SealInv
  BY SealInitInv
<1>7. node \in [Nodes \cup {Head0} -> [next : Pointer, prev : Pointer, addr : Nodes \cup {0}]]
  BY DEF Pointer
<1>8. SocketTypeOK
  <2>1. Len(queue) <= RingSize /\ cursor \in Pointer
    BY <1>1 DEF Pointer
  <2> QED BY <1>1, <1>2, <1>7, <2>1 DEF SealInv, SocketTypeOK
<1>3. Complete = 0 /\ node[Head0].next = Head0
  BY DEF Complete, Head0
<1>4. SubSeq(AttachStores(Complete + 1), 6 - Len(stores), 5) = <<>>
  BY <1>1, SubSeqEmpty
<1>5. ListInv
  BY <1>1, <1>3, <1>4 DEF ListInv, Head0, Null
<1>6. PhaseInv
  BY <1>5 DEF PhaseInv
<1> QED BY <1>2, <1>6, <1>8 DEF SocketInv, WalkInv

(* List, walk, key and network agree in every state of a socket handler, if
   the thread sees the stores of an attach in order. *)
THEOREM SocketInvariant ==
  ASSUME StoresInOrder
  PROVE  SocketSpec => []SocketInv
<1>1. SocketInit => SocketInv
  BY SocketInitInv
<1>2. SocketInv /\ [SocketNext]_vars => SocketInv'
  <2> SUFFICES ASSUME SocketInv, [SocketNext]_vars PROVE SocketInv'
    OBVIOUS
  <2>1. SocketTypeOK' /\ PhaseInv'
    BY TypeStep, PhaseStep
  <2>2. WalkInv' /\ SealInv'
    BY WalkStep, SealTypeStep, KeyStep, NetStep DEF SocketInv, SealInv
  <2> QED BY <2>1, <2>2 DEF SocketInv
<1> QED BY <1>1, <1>2, PTL DEF SocketSpec

(* The thread walks the list of listeners without a lock and never follows a
   pointer to one that is not complete, whatever attach is under way. *)
THEOREM WalkIsSafe ==
  ASSUME StoresInOrder
  PROVE  SocketSpec => []WalkSafe
<1>1. SocketInv => WalkSafe
  <2> SUFFICES ASSUME SocketInv, pc = "walk", cursor # Head0
               PROVE  cursor \in live /\ node[cursor].addr = cursor /\ node[cursor].next # Null
    BY DEF WalkSafe
  <2>1. ListInv
    BY DEF SocketInv, PhaseInv, SocketTypeOK
  <2>2. PICK c : c = Complete
    OBVIOUS
  <2>3. c \in Nodes \cup {Head0} /\ c \in Nat
    BY <2>1, <2>2, SocketAssumption
    DEF SocketInv, SocketTypeOK, Complete, Pointer, ListInv, Nodes, Head0
  <2>4. cursor \in Nat \ {0} /\ (cursor <= c \/ (cursor = c + 1 /\ Len(stores) = 1))
    <3>1. Len(visited) \in Nat
      BY LenProperties DEF SocketInv, SocketTypeOK
    <3> QED BY <2>2, <3>1 DEF SocketInv, WalkInv
  <2>5. Len(stores) = 1 => stores # <<>>
    OBVIOUS
  <2>6. /\ live = 1 .. (IF stores = <<>> THEN c ELSE c + 1)
        /\ \A n \in 1 .. c : node[n].addr = n
        /\ \A n \in 0 .. c - 1 : node[n].next = n + 1
        /\ node[c].next = IF Len(stores) = 1 THEN c + 1 ELSE Head0
        /\ Len(stores) \in 1 .. 4 => node[c + 1].addr = c + 1
        /\ Len(stores) \in 1 .. 2 => node[c + 1].next = Head0
    BY <2>1, <2>2 DEF ListInv
  <2>7. cursor \in live
    BY <2>3, <2>4, <2>5, <2>6
  <2>8. node[cursor].addr = cursor
    BY <2>3, <2>4, <2>6
  <2>9. node[cursor].next # Null
    BY <2>3, <2>4, <2>6 DEF Head0, Null
  <2> QED BY <2>7, <2>8, <2>9
<1> QED BY <1>1, SocketInvariant, PTL

(* A record goes once to every listener that was attached when its walk began,
   however many are attached meanwhile. *)
THEOREM EveryListenerServedOnce ==
  ASSUME StoresInOrder
  PROVE  SocketSpec => []EveryListenerOnce
<1>1. SocketInv => EveryListenerOnce
  <2> SUFFICES ASSUME SocketInv, pc = "walk", cursor = Head0
               PROVE  due \subseteq ToSet(visited) /\ IsInjective(visited)
    BY DEF EveryListenerOnce
  <2>1. (\A j \in DOMAIN visited : visited[j] = j) /\ due \subseteq 1 .. Len(visited)
    BY DEF SocketInv, WalkInv
  <2>2. DOMAIN visited = 1 .. Len(visited)
    BY LenProperties DEF SocketInv, SocketTypeOK
  <2> QED BY <2>1, <2>2 DEF ToSet, IsInjective
<1> QED BY <1>1, SocketInvariant, PTL

(* destroy frees every listener that was attached, and only after the thread
   that walks the list has ended. *)
THEOREM ListenersFreed ==
  ASSUME StoresInOrder
  PROVE  SocketSpec => [](/\ destroyer = "freed" => live = {}
                          /\ destroyer \in {"free", "freed"} => pc = "exited")
<1>1. SocketInv => /\ destroyer = "freed" => live = {}
                   /\ destroyer \in {"free", "freed"} => pc = "exited"
  BY DEF SocketInv, PhaseInv
<1> QED BY <1>1, SocketInvariant, PTL

============================================================================
