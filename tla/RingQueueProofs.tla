--------------------------- MODULE RingQueueProofs ---------------------------
(***************************************************************************)
(* For every number of threads, ring size, batch size and width: as long   *)
(* as the counts stay below the width of the batch functions' locals       *)
(* (NoWrap), the ring's counters stay ordered, no two threads touch the    *)
(* same slot with one of them writing, and a receiver only ever hands back *)
(* pointers that a sender published.                                       *)
(*                                                                         *)
(* The invariant the proof carries relates each thread's local count to    *)
(* the shared one it was read from, and records what the thread's check    *)
(* reserved: the other side may move its own count in between, but only in *)
(* the direction that makes the reservation larger.                        *)
(***************************************************************************)
EXTENDS RingQueue, SequenceTheorems, TLAPS

(* No count of the run reaches the point where a 32-bit local loses bits. *)
NoWrap == CountBound + Capacity < Narrow

-----------------------------------------------------------------------------
(* Arithmetic of ring indices. *)

(* A count below the modulus is its own residue. *)
LEMMA ModSmall ==
    ASSUME NEW m \in Nat \ {0}, NEW a \in 0..(m - 1) PROVE a % m = a
BY SMT

(* A residue is a slot number. *)
LEMMA ModRange ==
    ASSUME NEW m \in Nat \ {0}, NEW a \in Int PROVE a % m \in 0..(m - 1)
BY SMT

(* Euclidean division. *)
LEMMA ModDiv ==
    ASSUME NEW m \in Nat \ {0}, NEW a \in Int
    PROVE  a \div m \in Int /\ a = m * (a \div m) + (a % m)
BY SMT

(* A non-zero multiple of m is at least m away from 0. *)
LEMMA MultipleGap ==
    ASSUME NEW m \in Nat \ {0}, NEW q \in Int, q # 0
    PROVE  m * q >= m \/ m * q <= -m
BY SMT

(* Two counts less than a ring apart fall into different slots. *)
LEMMA ModDiffer ==
    ASSUME NEW m \in Nat \ {0}, NEW a \in Int, NEW b \in Int, a < b, b - a < m
    PROVE  a % m # b % m
<1>1. SUFFICES ASSUME a % m = b % m PROVE FALSE
  OBVIOUS
<1> DEFINE q == (b \div m) - (a \div m)
<1>2. b - a = m * q
  BY <1>1, ModDiv, SMT
<1>3. q \in Int
  BY ModDiv
<1>4. q # 0
  BY <1>2, <1>3
<1> HIDE DEF q
<1>5. m * q >= m \/ m * q <= -m
  BY <1>3, <1>4, MultipleGap
<1> QED
  BY <1>2, <1>3, <1>5

-----------------------------------------------------------------------------
(* The inductive invariant. *)

SendPcs == {"idle", "enq_lock", "enq_check", "enq_store", "enq_publish", "ok", "fail"}
RecvPcs == {"idle", "deq_lock", "deq_check", "deq_copy", "deq_commit", "ok", "fail"}

(* Counts are ordered and inside the bound. *)
Counts ==
    /\ enqueue_count \in 0..CountBound
    /\ dequeue_count \in 0..enqueue_count
    /\ enqueue_count <= dequeue_count + Capacity

(* A sender past its check has room for all it brings, whatever receivers  *)
(* did since; its local count runs ahead of the shared one by what it has  *)
(* stored.                                                                 *)
Sender(p) ==
    /\ pc[p] \in SendPcs
    /\ op[p] = "none" <=> pc[p] = "idle"
    /\ pc[p] \in {"idle", "enq_lock", "enq_check", "fail"} => moved[p] = 0
    /\ pc[p] = "enq_store" => moved[p] < Amount(op[p])
    /\ pc[p] \in {"enq_publish", "ok"} => moved[p] = Amount(op[p])
    /\ pc[p] \in {"enq_store", "enq_publish"} =>
         /\ enqueue_count + Amount(op[p]) <= dequeue_count + Capacity
         /\ enqueue_count + Amount(op[p]) <= CountBound
         /\ cnt[p] = enqueue_count + moved[p]

(* A receiver past its check finds all it asked for, whatever senders did  *)
(* since.                                                                  *)
Receiver(c) ==
    /\ pc[c] \in RecvPcs
    /\ op[c] = "none" <=> pc[c] = "idle"
    /\ pc[c] \in {"idle", "deq_lock", "deq_check", "fail"} => out[c] = <<>>
    /\ pc[c] = "deq_copy" => Len(out[c]) < Amount(op[c])
    /\ pc[c] \in {"deq_commit", "ok"} => Len(out[c]) = Amount(op[c])
    /\ pc[c] \in {"deq_copy", "deq_commit"} =>
         /\ dequeue_count + Amount(op[c]) <= enqueue_count
         /\ cnt[c] = dequeue_count + Len(out[c])

(* Between lock and unlock a thread is alone on its side. *)
InEnqueue(p) == pc[p] \in SendPcs \ {"idle", "enq_lock"}
InDequeue(c) == pc[c] \in RecvPcs \ {"idle", "deq_lock"}
Exclusion ==
    /\ EnqLocked => \A p \in Producers : InEnqueue(p) => enqueue_mutex = p
    /\ DeqLocked => \A c \in Consumers : InDequeue(c) => dequeue_mutex = c

(* Every slot that a receiver may come to read has been filled. *)
Filled ==
    /\ \A i \in Int : dequeue_count <= i /\ i < enqueue_count => node[Slot(i)] \in Items
    /\ \A p \in Producers, i \in Int :
         pc[p] \in {"enq_store", "enq_publish"}
           /\ enqueue_count <= i /\ i < enqueue_count + moved[p]
         => node[Slot(i)] \in Items

IInv ==
    /\ TypeOK
    /\ Counts
    /\ \A p \in Producers : Sender(p)
    /\ \A c \in Consumers : Receiver(c)
    /\ Exclusion
    /\ Filled
-----------------------------------------------------------------------------
(* Facts used by every step. *)

(* A call moves between one and Batch items; outside a call, none. *)
LEMMA AmountFact ==
    /\ Amount("none") = 0 /\ Amount("one") = 1 /\ Amount("many") = Batch
    /\ \A o \in {"none", "one", "many"} : Amount(o) \in 0..Batch
    /\ \A o \in {"one", "many"} : Amount(o) \in 1..Batch
BY RingAssumption DEF Amount

(* At most one sender is between its check and its return, and at most one *)
(* receiver.                                                               *)
LEMMA Alone ==
    ASSUME IInv
    PROVE  /\ \A p, q \in Producers : InEnqueue(p) /\ InEnqueue(q) => p = q
           /\ \A c, d \in Consumers : InDequeue(c) /\ InDequeue(d) => c = d
BY RingAssumption DEF IInv, Exclusion

(* The local copy of a count below the 32-bit limit is the count itself. *)
LEMMA LocalCountExact ==
    ASSUME NoWrap, NEW t \in Threads, NEW n \in 0..(CountBound + Capacity)
    PROVE  LocalCount(t, n) = n /\ n % Wide = n /\ LocalCount(t, n % Wide) = n
<1>1. n % Narrow = n /\ n % Wide = n
  BY RingAssumption, ModSmall DEF NoWrap
<1> QED
  BY <1>1 DEF LocalCount

(* With counts below the limit, the checks decide exactly what they are    *)
(* meant to decide.                                                        *)
LEMMA CheckExact ==
    ASSUME NoWrap, TypeOK, Counts
    PROVE  /\ \A p \in Producers : op[p] # "none" /\ ~LacksRoom(p)
                => enqueue_count + Amount(op[p]) <= dequeue_count + Capacity
           /\ \A c \in Consumers : op[c] # "none" /\ ~LacksItems(c)
                => dequeue_count + Amount(op[c]) <= enqueue_count
<1>1. /\ (enqueue_count - dequeue_count) % Wide = enqueue_count - dequeue_count
      /\ (enqueue_count + Batch - dequeue_count) % Wide
           = enqueue_count + Batch - dequeue_count
      /\ (dequeue_count + Batch) % Wide = dequeue_count + Batch
  BY RingAssumption, ModSmall DEF NoWrap, Counts
<1>2. \A t \in Threads : op[t] \in {"none", "one", "many"}
  BY DEF TypeOK
<1> QED
  BY <1>1, <1>2, AmountFact, RingAssumption DEF LacksRoom, LacksItems, Counts, Threads

-----------------------------------------------------------------------------
(* The invariant holds initially. *)
LEMMA InitIInv ==
    ASSUME NoWrap, Init PROVE IInv
<1>1. TypeOK
  BY RingAssumption, AmountFact DEF Init, TypeOK, NoWrap, Threads
<1>2. Counts
  BY RingAssumption DEF Init, Counts
<1>3. \A p \in Producers : Sender(p)
  BY DEF Init, Sender, SendPcs, Threads
<1>4. \A c \in Consumers : Receiver(c)
  BY DEF Init, Receiver, RecvPcs, Threads
<1>5. Exclusion
  BY DEF Init, Exclusion, InEnqueue, InDequeue, Threads
<1>6. Filled
  BY DEF Init, Filled, Threads
<1> QED
  BY <1>1, <1>2, <1>3, <1>4, <1>5, <1>6 DEF IInv
-----------------------------------------------------------------------------
(* A sender's steps keep the invariant. *)
LEMMA CallEnqueueStep ==
    ASSUME NoWrap, IInv, NEW p \in Producers, CallEnqueue(p) PROVE IInv'
<1> USE DEF IInv, At, Goto, recvVars
<1>a. PICK o \in SendOps :
        /\ op' = [op EXCEPT ![p] = o]
        /\ \E s \in Offers(o) : offer' = [offer EXCEPT ![p] = s]
  BY DEF CallEnqueue
<1>b. PICK s \in Offers(o) : offer' = [offer EXCEPT ![p] = s]
  BY <1>a
<1>0. op' = [op EXCEPT ![p] = o] /\ offer' = [offer EXCEPT ![p] = s]
  BY <1>a, <1>b
<1>1. s \in Seq(Items) /\ Len(s) = Amount(o) /\ o \in {"one", "many"}
  BY AmountFact, RingAssumption, SeqDef DEF Offers
<1>2. TypeOK'
  BY <1>0, <1>1 DEF CallEnqueue, TypeOK, Threads
<1>3. Counts'
  BY DEF CallEnqueue, Counts
<1>4. \A q \in Producers : Sender(q)'
  BY <1>0, <1>1 DEF CallEnqueue, Sender, SendPcs, TypeOK, Threads
<1>5. \A c \in Consumers : Receiver(c)'
  BY <1>0, RingAssumption DEF CallEnqueue, Receiver, TypeOK, Threads
<1>6. Exclusion'
  BY RingAssumption DEF CallEnqueue, Exclusion, InEnqueue, InDequeue, TypeOK, Threads
<1>7. Filled'
  BY DEF CallEnqueue, Filled, TypeOK, Threads
<1> QED
  BY <1>2, <1>3, <1>4, <1>5, <1>6, <1>7

(* A sender that takes the mutex is the only one inside. *)
LEMMA LockEnqueueStep ==
    ASSUME NoWrap, IInv, NEW p \in Producers, LockEnqueue(p) PROVE IInv'
<1> USE DEF IInv, At, Goto, recvVars, LockEnqueue
<1>1. TypeOK'
  BY DEF TypeOK, Threads
<1>2. Counts'
  BY DEF Counts
<1>3. \A q \in Producers : Sender(q)'
  BY DEF Sender, SendPcs, TypeOK, Threads
<1>4. \A c \in Consumers : Receiver(c)'
  BY RingAssumption DEF Receiver, TypeOK, Threads
<1>5. Exclusion'
  BY RingAssumption DEF Exclusion, InEnqueue, InDequeue, SendPcs, TypeOK, Threads
<1>6. Filled'
  BY DEF Filled, TypeOK, Threads
<1> QED
  BY <1>1, <1>2, <1>3, <1>4, <1>5, <1>6

(* Returning -1 from the check disturbs nothing. *)
LEMMA EnqueueFullStep ==
    ASSUME NoWrap, IInv, NEW p \in Producers, EnqueueFull(p) PROVE IInv'
<1> USE DEF IInv, At, Goto, recvVars, sendVars, EnqueueFull
<1>1. TypeOK'
  BY DEF TypeOK, Threads
<1>2. Counts'
  BY DEF Counts
<1>3. \A q \in Producers : Sender(q)'
  BY DEF Sender, SendPcs, TypeOK, Threads
<1>4. \A c \in Consumers : Receiver(c)'
  BY RingAssumption DEF Receiver, TypeOK, Threads
<1>5. Exclusion'
  <2>1. \A q \in Producers : InEnqueue(q)' => InEnqueue(q)
    BY DEF InEnqueue, SendPcs, TypeOK, Threads
  <2>2. \A c \in Consumers : InDequeue(c)' => InDequeue(c)
    BY RingAssumption DEF InDequeue, TypeOK, Threads
  <2>3. UNCHANGED <<enqueue_mutex, dequeue_mutex>>
    OBVIOUS
  <2> HIDE DEF EnqueueFull
  <2> QED
    BY <2>1, <2>2, <2>3 DEF Exclusion
<1>6. Filled'
  BY DEF Filled, TypeOK, Threads
<1> QED
  BY <1>1, <1>2, <1>3, <1>4, <1>5, <1>6

(* The check is where the reservation is made. *)
LEMMA EnqueueRoomStep ==
    ASSUME NoWrap, IInv, NEW p \in Producers, EnqueueRoom(p) PROVE IInv'
<1> USE DEF IInv, At, Goto, recvVars, sendVars, EnqueueRoom
<1>a. op[p] \in {"one", "many"}
  BY DEF TypeOK, Sender, Threads
<1>b. Amount(op[p]) \in 1..Batch
  BY <1>a, AmountFact
<1>c. enqueue_count + Amount(op[p]) <= dequeue_count + Capacity
  BY <1>a, CheckExact
<1>d. LocalCount(p, enqueue_count) = enqueue_count
  BY LocalCountExact, RingAssumption DEF Counts, Threads
<1>0. cnt' = [cnt EXCEPT ![p] = enqueue_count]
  BY <1>d
<1>1. TypeOK'
  BY <1>0 DEF TypeOK, Threads
<1>2. Counts'
  BY DEF Counts
<1>3. \A q \in Producers : Sender(q)'
  BY <1>0, <1>a, <1>b, <1>c DEF Sender, SendPcs, TypeOK, Threads
<1>4. \A c \in Consumers : Receiver(c)'
  BY <1>0, RingAssumption DEF Receiver, TypeOK, Threads
<1>5. Exclusion'
  <2>1. \A q \in Producers : InEnqueue(q)' => InEnqueue(q)
    BY DEF InEnqueue, SendPcs, TypeOK, Threads
  <2>2. \A c \in Consumers : InDequeue(c)' => InDequeue(c)
    BY RingAssumption DEF InDequeue, TypeOK, Threads
  <2>3. UNCHANGED <<enqueue_mutex, dequeue_mutex>>
    OBVIOUS
  <2> HIDE DEF EnqueueRoom
  <2> QED
    BY <2>1, <2>2, <2>3 DEF Exclusion
<1>6. Filled'
  BY DEF Filled, TypeOK, Sender, Threads
<1> QED
  BY <1>1, <1>2, <1>3, <1>4, <1>5, <1>6
(* Storing one item keeps the local count in step with what was stored. *)
LEMMA StoreNodeStep ==
    ASSUME NoWrap, IInv, NEW p \in Producers, StoreNode(p) PROVE IInv'
<1> USE DEF IInv, At, Goto, recvVars, StoreNode
<1>a. op[p] \in {"one", "many"} /\ moved[p] \in Nat /\ pc[p] = "enq_store"
  BY DEF TypeOK, Sender, Threads
<1>b. Amount(op[p]) \in 1..Batch /\ moved[p] + 1 <= Amount(op[p])
  BY <1>a, AmountFact, RingAssumption DEF Sender
<1>c. /\ enqueue_count + Amount(op[p]) <= dequeue_count + Capacity
      /\ enqueue_count + Amount(op[p]) <= CountBound
      /\ cnt[p] = enqueue_count + moved[p]
  BY <1>a DEF Sender
<1>d. cnt[p] \in Int /\ cnt[p] + 1 \in 0..CountBound
  BY <1>a, <1>b, <1>c, RingAssumption DEF Counts
<1>e. cnt' = [cnt EXCEPT ![p] = cnt[p] + 1]
  <2>1. cnt[p] + 1 \in 0..(CountBound + Capacity) /\ p \in Threads
    BY <1>d, RingAssumption DEF Threads
  <2>2. LocalCount(p, (cnt[p] + 1) % Wide) = cnt[p] + 1
    BY <2>1, LocalCountExact
  <2> QED
    BY <2>2
<1>f. Slot(cnt[p]) \in Slots /\ offer[p][moved[p] + 1] \in Items
  <2>1. Slot(cnt[p]) \in Slots
    BY <1>d, ModRange, RingAssumption DEF Slot, Slots
  <2>2. offer[p] \in Seq(Items) /\ Len(offer[p]) = Amount(op[p])
    BY DEF TypeOK
  <2>3. moved[p] + 1 \in 1..Len(offer[p])
    BY <1>a, <1>b, <2>2, AmountFact, RingAssumption
  <2> QED
    BY <2>1, <2>2, <2>3, ElementOfSeq
<1>g. \A q \in Producers : pc[q] \in {"enq_store", "enq_publish"} => q = p
  BY <1>a, Alone DEF InEnqueue, SendPcs
<1>1. TypeOK'
  <2>1. cnt' \in [Threads -> 0..(Wide - 1)]
    <3>1. cnt \in [Threads -> 0..(Wide - 1)]
      BY DEF TypeOK
    <3> HIDE DEF IInv, StoreNode
    <3>2. cnt[p] + 1 \in 0..(Wide - 1)
      BY <1>d, RingAssumption DEF NoWrap
    <3> QED
      BY <1>e, <3>1, <3>2
  <2>2. node' \in [Slots -> Items \cup {Junk}] /\ moved' \in [Producers -> 0..Batch]
    <3>1. moved[p] + 1 \in 0..Batch
      BY <1>a, <1>b, RingAssumption
    <3>2. node \in [Slots -> Items \cup {Junk}] /\ moved \in [Producers -> 0..Batch]
      BY DEF TypeOK
    <3> HIDE DEF IInv
    <3> QED
      BY <1>f, <3>1, <3>2
  <2>3. pc' \in [Threads -> {"idle", "enq_lock", "enq_check", "enq_store",
                           "enq_publish", "deq_lock", "deq_check", "deq_copy",
                           "deq_commit", "ok", "fail"}]
    BY DEF TypeOK
  <2>4. UNCHANGED <<enqueue_count, dequeue_count, enqueue_mutex, dequeue_mutex, op,
                    offer, out>>
    OBVIOUS
  <2> HIDE DEF StoreNode
  <2> QED
    BY <2>1, <2>2, <2>3, <2>4 DEF TypeOK, Amount
<1>2. Counts'
  BY DEF Counts
<1>3. \A q \in Producers : Sender(q)'
  <2>1. Sender(p)'
    <3>1. moved'[p] = moved[p] + 1 /\ cnt'[p] = cnt[p] + 1 /\ p \in Threads
      BY <1>e DEF TypeOK, Threads
    <3>2. pc'[p] = IF moved[p] + 1 < Amount(op[p]) THEN "enq_store" ELSE "enq_publish"
      BY <3>1 DEF TypeOK
    <3>3. UNCHANGED <<enqueue_count, dequeue_count, op>>
      OBVIOUS
    <3> HIDE DEF StoreNode
    <3> QED
      BY <1>a, <1>b, <1>c, <3>1, <3>2, <3>3, RingAssumption DEF Sender, SendPcs, Counts, Amount
  <2>2. ASSUME NEW q \in Producers, q # p PROVE Sender(q)'
    BY <1>e, <1>g, <2>2 DEF Sender, TypeOK, Threads
  <2> QED
    BY <2>1, <2>2
<1>4. \A c \in Consumers : Receiver(c)'
  BY <1>e, RingAssumption DEF Receiver, TypeOK, Threads
<1>5. Exclusion'
  <2>1. \A q \in Producers : InEnqueue(q)' => InEnqueue(q)
    BY <1>a DEF InEnqueue, SendPcs, TypeOK, Threads
  <2>2. \A c \in Consumers : InDequeue(c)' => InDequeue(c)
    BY RingAssumption DEF InDequeue, TypeOK, Threads
  <2> QED
    BY <2>1, <2>2 DEF Exclusion
<1>6. Filled'
  <2>1. \A k \in Slots : node[k] \in Items => node'[k] \in Items
    BY <1>f DEF TypeOK
  <2>2. node'[Slot(enqueue_count + moved[p])] \in Items
    BY <1>c, <1>f DEF TypeOK
  <2>3. \A i \in Int : Slot(i) \in Slots
    BY ModRange, RingAssumption DEF Slot, Slots
  <2>4. \A i \in Int : dequeue_count <= i /\ i < enqueue_count => node'[Slot(i)] \in Items
    BY <2>1, <2>3 DEF Filled
  <2>5. ASSUME NEW q \in Producers, NEW i \in Int,
               pc'[q] \in {"enq_store", "enq_publish"},
               enqueue_count <= i, i < enqueue_count + moved'[q]
        PROVE  node'[Slot(i)] \in Items
    <3>1. q = p
      BY <1>g, <2>5 DEF TypeOK, Threads
    <3>2. moved'[q] = moved[p] + 1
      BY <3>1 DEF TypeOK
    <3>3. CASE i = enqueue_count + moved[p]
      BY <3>3, <2>2
    <3>4. CASE i < enqueue_count + moved[p]
      BY <3>4, <1>a, <2>1, <2>3, <2>5 DEF Filled
    <3> QED
      BY <3>2, <3>3, <3>4, <2>5, <1>a DEF Counts
  <2> QED
    BY <2>4, <2>5 DEF Filled
<1> QED
  BY <1>1, <1>2, <1>3, <1>4, <1>5, <1>6

(* Publishing hands the reserved slots to the receivers. *)
LEMMA PublishEnqueueStep ==
    ASSUME NoWrap, IInv, NEW p \in Producers, PublishEnqueue(p) PROVE IInv'
<1> USE DEF IInv, At, Goto, recvVars, PublishEnqueue
<1>a. op[p] \in {"one", "many"} /\ pc[p] = "enq_publish"
  BY DEF TypeOK, Sender, Threads
<1>b. Amount(op[p]) \in 1..Batch /\ moved[p] = Amount(op[p])
  BY <1>a, AmountFact DEF Sender
<1>c. /\ enqueue_count + Amount(op[p]) <= dequeue_count + Capacity
      /\ enqueue_count + Amount(op[p]) <= CountBound
      /\ cnt[p] = enqueue_count + moved[p]
  BY <1>a DEF Sender
<1>d. enqueue_count' = enqueue_count + Amount(op[p])
  <2>1. CASE op[p] = "one"
    <3>1. enqueue_count + 1 \in 0..(Wide - 1)
      BY RingAssumption, <1>c, <2>1, AmountFact DEF Counts, NoWrap
    <3>2. (enqueue_count + 1) % Wide = enqueue_count + 1
      BY <3>1, ModSmall, RingAssumption
    <3> QED
      BY <3>2, <2>1, AmountFact
  <2>2. CASE op[p] = "many"
    BY <2>2, <1>b, <1>c
  <2> QED
    BY <2>1, <2>2, <1>a
<1>g. \A q \in Producers : InEnqueue(q) => q = p
  BY <1>a, Alone DEF InEnqueue, SendPcs
<1>1. TypeOK'
  <2>1. enqueue_count' \in 0..(Wide - 1)
    BY <1>b, <1>c, <1>d, RingAssumption DEF NoWrap, Counts
  <2>2. pc' \in [Threads -> {"idle", "enq_lock", "enq_check", "enq_store",
                           "enq_publish", "deq_lock", "deq_check", "deq_copy",
                           "deq_commit", "ok", "fail"}]
    BY DEF TypeOK
  <2>3. UNCHANGED <<dequeue_count, node, enqueue_mutex, dequeue_mutex, op, offer,
                    moved, cnt, out>>
    OBVIOUS
  <2> HIDE DEF PublishEnqueue
  <2> QED
    BY <2>1, <2>2, <2>3 DEF TypeOK, Amount
<1>2. Counts'
  BY <1>b, <1>c, <1>d, RingAssumption DEF Counts
<1>3. \A q \in Producers : Sender(q)'
  BY <1>a, <1>b, <1>g DEF Sender, SendPcs, InEnqueue, TypeOK, Threads
<1>4. \A c \in Consumers : Receiver(c)'
  <2> SUFFICES ASSUME NEW c \in Consumers PROVE Receiver(c)'
    OBVIOUS
  <2>1. op[c] \in {"none", "one", "many"} /\ enqueue_count \in Int /\ dequeue_count \in Int
    BY DEF TypeOK, Threads
  <2>2. Amount(op[c]) \in Nat /\ enqueue_count' \in Int /\ enqueue_count <= enqueue_count'
    BY <1>b, <1>d, <2>1, AmountFact, RingAssumption
  <2>3. pc'[c] = pc[c]
    BY RingAssumption DEF TypeOK, Threads
  <2> QED
    BY <2>1, <2>2, <2>3 DEF Receiver
<1>5. Exclusion'
  <2>1. \A q \in Producers : InEnqueue(q)' => InEnqueue(q)
    BY DEF InEnqueue, SendPcs, TypeOK, Threads
  <2>2. \A c \in Consumers : InDequeue(c)' => InDequeue(c)
    BY RingAssumption DEF InDequeue, TypeOK, Threads
  <2>3. UNCHANGED <<enqueue_mutex, dequeue_mutex>>
    OBVIOUS
  <2> HIDE DEF PublishEnqueue
  <2> QED
    BY <2>1, <2>2, <2>3 DEF Exclusion
<1>6. Filled'
  <2>1. \A i \in Int : dequeue_count <= i /\ i < enqueue_count' => node[Slot(i)] \in Items
    BY <1>a, <1>b, <1>d DEF Filled, Counts
  <2>2. \A q \in Producers : pc'[q] \notin {"enq_store", "enq_publish"}
    BY <1>g DEF InEnqueue, SendPcs, TypeOK, Threads
  <2> QED
    BY <2>1, <2>2 DEF Filled
<1> QED
  BY <1>1, <1>2, <1>3, <1>4, <1>5, <1>6

(* Returning resets the sender and frees the mutex it held. *)
LEMMA ReturnEnqueueStep ==
    ASSUME NoWrap, IInv, NEW p \in Producers, ReturnEnqueue(p) PROVE IInv'
<1> USE DEF IInv, At, Goto, recvVars, ReturnEnqueue
<1>g. \A q \in Producers : InEnqueue(q) => q = p
  BY Alone DEF InEnqueue, SendPcs
<1>1. TypeOK'
  <2>1. <<>> \in Seq(Items) /\ Len(<<>>) = Amount("none")
    BY AmountFact
  <2>2. offer' \in [Producers -> Seq(Items)]
    BY <2>1 DEF TypeOK
  <2>3. \A q \in Producers : Len(offer'[q]) = Amount(op'[q])
    BY <2>1 DEF TypeOK, Threads
  <2> QED
    BY <2>2, <2>3, RingAssumption DEF TypeOK, Threads
<1>2. Counts'
  BY DEF Counts
<1>3. \A q \in Producers : Sender(q)'
  BY DEF Sender, SendPcs, TypeOK, Threads
<1>4. \A c \in Consumers : Receiver(c)'
  BY RingAssumption DEF Receiver, TypeOK, Threads
<1>5. Exclusion'
  BY <1>g, RingAssumption DEF Exclusion, InEnqueue, InDequeue, SendPcs, TypeOK, Threads
<1>6. Filled'
  BY DEF Filled, TypeOK, Threads
<1> QED
  BY <1>1, <1>2, <1>3, <1>4, <1>5, <1>6
-----------------------------------------------------------------------------
(* A receiver's steps keep the invariant. *)
LEMMA CallDequeueStep ==
    ASSUME NoWrap, IInv, NEW c \in Consumers, CallDequeue(c) PROVE IInv'
<1> USE DEF IInv, At, Goto, recvVars, sendVars, CallDequeue
<1>1. TypeOK'
  <2>1. op' \in [Threads -> {"none", "one", "many"}]
    BY RingAssumption DEF TypeOK
  <2>2. pc' \in [Threads -> {"idle", "enq_lock", "enq_check", "enq_store",
                           "enq_publish", "deq_lock", "deq_check", "deq_copy",
                           "deq_commit", "ok", "fail"}]
    BY DEF TypeOK
  <2>3. \A p \in Producers : op'[p] = op[p]
    BY RingAssumption DEF TypeOK, Threads
  <2>4. UNCHANGED <<enqueue_count, dequeue_count, node, enqueue_mutex, dequeue_mutex,
                    offer, moved, cnt, out>>
    OBVIOUS
  <2> HIDE DEF CallDequeue
  <2> QED
    BY <2>1, <2>2, <2>3, <2>4 DEF TypeOK, Amount
<1>2. Counts'
  BY DEF Counts
<1>3. \A p \in Producers : Sender(p)'
  BY RingAssumption DEF Sender, TypeOK, Threads
<1>4. \A d \in Consumers : Receiver(d)'
  BY RingAssumption DEF Receiver, RecvPcs, TypeOK, Threads
<1>5. Exclusion'
  BY RingAssumption DEF Exclusion, InEnqueue, InDequeue, RecvPcs, TypeOK, Threads
<1>6. Filled'
  BY RingAssumption DEF Filled, TypeOK, Threads
<1> QED
  BY <1>1, <1>2, <1>3, <1>4, <1>5, <1>6

(* A receiver that takes the mutex is the only one inside. *)
LEMMA LockDequeueStep ==
    ASSUME NoWrap, IInv, NEW c \in Consumers, LockDequeue(c) PROVE IInv'
<1> USE DEF IInv, At, Goto, recvVars, sendVars, LockDequeue
<1>1. TypeOK'
  BY RingAssumption DEF TypeOK, Threads
<1>2. Counts'
  BY DEF Counts
<1>3. \A p \in Producers : Sender(p)'
  BY RingAssumption DEF Sender, TypeOK, Threads
<1>4. \A d \in Consumers : Receiver(d)'
  BY RingAssumption DEF Receiver, RecvPcs, TypeOK, Threads
<1>5. Exclusion'
  BY RingAssumption DEF Exclusion, InEnqueue, InDequeue, RecvPcs, TypeOK, Threads
<1>6. Filled'
  BY RingAssumption DEF Filled, TypeOK, Threads
<1> QED
  BY <1>1, <1>2, <1>3, <1>4, <1>5, <1>6

(* Returning -1 from the check disturbs nothing. *)
LEMMA DequeueEmptyStep ==
    ASSUME NoWrap, IInv, NEW c \in Consumers, DequeueEmpty(c) PROVE IInv'
<1> USE DEF IInv, At, Goto, recvVars, sendVars, DequeueEmpty
<1>1. TypeOK'
  BY RingAssumption DEF TypeOK, Threads
<1>2. Counts'
  BY DEF Counts
<1>3. \A p \in Producers : Sender(p)'
  BY RingAssumption DEF Sender, TypeOK, Threads
<1>4. \A d \in Consumers : Receiver(d)'
  BY RingAssumption DEF Receiver, RecvPcs, TypeOK, Threads
<1>5. Exclusion'
  <2>1. \A p \in Producers : InEnqueue(p)' => InEnqueue(p)
    BY RingAssumption DEF InEnqueue, TypeOK, Threads
  <2>2. \A d \in Consumers : InDequeue(d)' => InDequeue(d)
    BY DEF InDequeue, RecvPcs, TypeOK, Threads
  <2>3. UNCHANGED <<enqueue_mutex, dequeue_mutex>>
    OBVIOUS
  <2> HIDE DEF DequeueEmpty
  <2> QED
    BY <2>1, <2>2, <2>3 DEF Exclusion
<1>6. Filled'
  BY RingAssumption DEF Filled, TypeOK, Threads
<1> QED
  BY <1>1, <1>2, <1>3, <1>4, <1>5, <1>6

(* A receiver that passes its check has reserved the items it will copy. *)
LEMMA DequeueAvailStep ==
    ASSUME NoWrap, IInv, NEW c \in Consumers, DequeueAvail(c) PROVE IInv'
<1> USE DEF IInv, At, Goto, recvVars, sendVars, DequeueAvail
<1>a. op[c] \in {"one", "many"}
  BY DEF TypeOK, Receiver, Threads
<1>b. Amount(op[c]) \in 1..Batch
  BY <1>a, AmountFact
<1>c. dequeue_count + Amount(op[c]) <= enqueue_count
  BY <1>a, CheckExact
<1>d. LocalCount(c, dequeue_count) = dequeue_count
  BY LocalCountExact, RingAssumption DEF Counts, Threads
<1>0. cnt' = [cnt EXCEPT ![c] = dequeue_count]
  BY <1>d
<1>1. TypeOK'
  BY <1>0, RingAssumption DEF TypeOK, Threads
<1>2. Counts'
  BY DEF Counts
<1>3. \A p \in Producers : Sender(p)'
  BY <1>0, RingAssumption DEF Sender, TypeOK, Threads
<1>4. \A d \in Consumers : Receiver(d)'
  BY <1>0, <1>a, <1>b, <1>c, RingAssumption DEF Receiver, RecvPcs, TypeOK, Threads
<1>5. Exclusion'
  <2>1. \A p \in Producers : InEnqueue(p)' => InEnqueue(p)
    BY RingAssumption DEF InEnqueue, TypeOK, Threads
  <2>2. \A d \in Consumers : InDequeue(d)' => InDequeue(d)
    BY DEF InDequeue, RecvPcs, TypeOK, Threads
  <2>3. UNCHANGED <<enqueue_mutex, dequeue_mutex>>
    OBVIOUS
  <2> HIDE DEF DequeueAvail
  <2> QED
    BY <2>1, <2>2, <2>3 DEF Exclusion
<1>6. Filled'
  BY RingAssumption DEF Filled, TypeOK, Threads
<1> QED
  BY <1>1, <1>2, <1>3, <1>4, <1>5, <1>6

(* What is copied lies between the two counts, so it was published. *)
LEMMA CopyNodeStep ==
    ASSUME NoWrap, IInv, NEW c \in Consumers, CopyNode(c) PROVE IInv'
<1> USE DEF IInv, At, Goto, sendVars, CopyNode
<1>a. op[c] \in {"one", "many"} /\ pc[c] = "deq_copy" /\ out[c] \in Seq(Items)
  BY DEF TypeOK, Receiver, Threads
<1>b. Amount(op[c]) \in 1..Batch /\ Len(out[c]) \in Nat /\ Len(out[c]) + 1 <= Amount(op[c])
  BY <1>a, AmountFact, RingAssumption DEF Receiver
<1>c. dequeue_count + Amount(op[c]) <= enqueue_count /\ cnt[c] = dequeue_count + Len(out[c])
  BY <1>a DEF Receiver
<1>d. cnt[c] \in Int /\ cnt[c] + 1 \in 0..CountBound
  BY <1>b, <1>c, RingAssumption DEF Counts
<1>e. cnt' = [cnt EXCEPT ![c] = cnt[c] + 1]
  <2>1. cnt[c] + 1 \in 0..(CountBound + Capacity) /\ c \in Threads
    BY <1>d, RingAssumption DEF Threads
  <2>2. LocalCount(c, (cnt[c] + 1) % Wide) = cnt[c] + 1
    BY <2>1, LocalCountExact
  <2> QED
    BY <2>2
<1>f. node[Slot(cnt[c])] \in Items
  BY <1>b, <1>c, <1>d DEF Filled, Counts
<1>h. /\ Append(out[c], node[Slot(cnt[c])]) \in Seq(Items)
      /\ Len(Append(out[c], node[Slot(cnt[c])])) = Len(out[c]) + 1
  BY <1>a, <1>f, AppendProperties
<1>i. /\ out' \in [Consumers -> Seq(Items)] /\ Len(out'[c]) = Len(out[c]) + 1
      /\ \A d \in Consumers : d # c => out'[d] = out[d]
  BY <1>h DEF TypeOK
<1>1. TypeOK'
  <2>1. cnt' \in [Threads -> 0..(Wide - 1)]
    <3>1. cnt \in [Threads -> 0..(Wide - 1)]
      BY DEF TypeOK
    <3> HIDE DEF IInv, CopyNode
    <3>2. cnt[c] + 1 \in 0..(Wide - 1)
      BY <1>d, RingAssumption DEF NoWrap
    <3> QED
      BY <1>e, <3>1, <3>2
  <2>2. pc' \in [Threads -> {"idle", "enq_lock", "enq_check", "enq_store",
                           "enq_publish", "deq_lock", "deq_check", "deq_copy",
                           "deq_commit", "ok", "fail"}]
    BY DEF TypeOK
  <2>3. UNCHANGED <<enqueue_count, dequeue_count, node, enqueue_mutex, dequeue_mutex,
                    op, offer, moved>>
    OBVIOUS
  <2> HIDE DEF CopyNode
  <2> QED
    BY <1>i, <2>1, <2>2, <2>3 DEF TypeOK, Amount
<1>2. Counts'
  BY DEF Counts
<1>3. \A p \in Producers : Sender(p)'
  BY <1>e, RingAssumption DEF Sender, TypeOK, Threads
<1>4. \A d \in Consumers : Receiver(d)'
  <2>1. Receiver(c)'
    BY <1>a, <1>b, <1>c, <1>d, <1>e, <1>i DEF Receiver, RecvPcs, TypeOK, Threads
  <2>2. ASSUME NEW d \in Consumers, d # c PROVE Receiver(d)'
    BY <1>e, <1>i, <2>2 DEF Receiver, TypeOK, Threads
  <2> QED
    BY <2>1, <2>2
<1>5. Exclusion'
  <2>1. \A p \in Producers : InEnqueue(p)' => InEnqueue(p)
    BY RingAssumption DEF InEnqueue, TypeOK, Threads
  <2>2. \A d \in Consumers : InDequeue(d)' => InDequeue(d)
    BY <1>a DEF InDequeue, RecvPcs, TypeOK, Threads
  <2> QED
    BY <2>1, <2>2 DEF Exclusion
<1>6. Filled'
  BY RingAssumption DEF Filled, TypeOK, Threads
<1> QED
  BY <1>1, <1>2, <1>3, <1>4, <1>5, <1>6

(* Committing gives the copied slots back to the senders. *)
LEMMA CommitDequeueStep ==
    ASSUME NoWrap, IInv, NEW c \in Consumers, CommitDequeue(c) PROVE IInv'
<1> USE DEF IInv, At, Goto, sendVars, CommitDequeue
<1>a. op[c] \in {"one", "many"} /\ pc[c] = "deq_commit" /\ out[c] \in Seq(Items)
  BY DEF TypeOK, Receiver, Threads
<1>b. Amount(op[c]) \in 1..Batch /\ Len(out[c]) = Amount(op[c])
  BY <1>a, AmountFact DEF Receiver
<1>c. dequeue_count + Amount(op[c]) <= enqueue_count /\ cnt[c] = dequeue_count + Len(out[c])
  BY <1>a DEF Receiver
<1>d. dequeue_count' = dequeue_count + Amount(op[c])
  <2>1. CASE op[c] = "one"
    <3>1. dequeue_count + 1 \in 0..(Wide - 1)
      BY RingAssumption, <1>c, <2>1, AmountFact DEF Counts, NoWrap
    <3>2. (dequeue_count + 1) % Wide = dequeue_count + 1
      BY <3>1, ModSmall, RingAssumption
    <3> QED
      BY <3>2, <2>1, AmountFact
  <2>2. CASE op[c] = "many"
    BY <2>2, <1>b, <1>c
  <2> QED
    BY <2>1, <2>2, <1>a
<1>e. dequeue_count \in Int /\ dequeue_count' \in Int /\ dequeue_count <= dequeue_count'
  BY <1>b, <1>d, RingAssumption DEF Counts
<1>g. \A d \in Consumers : InDequeue(d) => d = c
  BY <1>a, Alone DEF InDequeue, RecvPcs
<1>1. TypeOK'
  <2>1. dequeue_count' \in 0..(Wide - 1)
    BY <1>b, <1>c, <1>d, RingAssumption DEF NoWrap, Counts
  <2>2. pc' \in [Threads -> {"idle", "enq_lock", "enq_check", "enq_store",
                           "enq_publish", "deq_lock", "deq_check", "deq_copy",
                           "deq_commit", "ok", "fail"}]
    BY DEF TypeOK
  <2>3. UNCHANGED <<enqueue_count, node, enqueue_mutex, dequeue_mutex, op, offer,
                    moved, cnt, out>>
    OBVIOUS
  <2> HIDE DEF CommitDequeue
  <2> QED
    BY <2>1, <2>2, <2>3 DEF TypeOK, Amount
<1>2. Counts'
  BY <1>b, <1>c, <1>d, RingAssumption DEF Counts
<1>3. \A p \in Producers : Sender(p)'
  <2> SUFFICES ASSUME NEW p \in Producers PROVE Sender(p)'
    OBVIOUS
  <2>1. op[p] \in {"none", "one", "many"} /\ enqueue_count \in Int
    BY DEF TypeOK, Threads
  <2>2. Amount(op[p]) \in Nat
    BY <2>1, AmountFact, RingAssumption
  <2>3. pc'[p] = pc[p]
    BY RingAssumption DEF TypeOK, Threads
  <2> QED
    BY <1>e, <2>1, <2>2, <2>3, RingAssumption DEF Sender
<1>4. \A d \in Consumers : Receiver(d)'
  BY <1>a, <1>b, <1>g DEF Receiver, RecvPcs, InDequeue, TypeOK, Threads
<1>5. Exclusion'
  <2>1. \A p \in Producers : InEnqueue(p)' => InEnqueue(p)
    BY RingAssumption DEF InEnqueue, TypeOK, Threads
  <2>2. \A d \in Consumers : InDequeue(d)' => InDequeue(d)
    BY <1>a DEF InDequeue, RecvPcs, TypeOK, Threads
  <2> QED
    BY <2>1, <2>2 DEF Exclusion
<1>6. Filled'
  <2>1. \A i \in Int : dequeue_count' <= i /\ i < enqueue_count => node[Slot(i)] \in Items
    BY <1>e DEF Filled
  <2>2. \A p \in Producers : pc'[p] = pc[p]
    BY RingAssumption DEF TypeOK, Threads
  <2> QED
    BY <2>1, <2>2 DEF Filled
<1> QED
  BY <1>1, <1>2, <1>3, <1>4, <1>5, <1>6

(* Returning resets the receiver and frees the mutex it held. *)
LEMMA ReturnDequeueStep ==
    ASSUME NoWrap, IInv, NEW c \in Consumers, ReturnDequeue(c) PROVE IInv'
<1> USE DEF IInv, At, Goto, sendVars, ReturnDequeue
<1>g. \A d \in Consumers : InDequeue(d) => d = c
  BY Alone DEF InDequeue, RecvPcs
<1>1. TypeOK'
  BY RingAssumption DEF TypeOK, Threads
<1>2. Counts'
  BY DEF Counts
<1>3. \A p \in Producers : Sender(p)'
  BY RingAssumption DEF Sender, TypeOK, Threads
<1>4. \A d \in Consumers : Receiver(d)'
  BY DEF Receiver, RecvPcs, TypeOK, Threads
<1>5. Exclusion'
  BY <1>g, RingAssumption DEF Exclusion, InEnqueue, InDequeue, RecvPcs, TypeOK, Threads
<1>6. Filled'
  BY RingAssumption DEF Filled, TypeOK, Threads
<1> QED
  BY <1>1, <1>2, <1>3, <1>4, <1>5, <1>6

-----------------------------------------------------------------------------
(* The invariant implies what the runs check. *)

(* Reservations of the two sides are disjoint slots: no access races. *)
LEMMA IInvNoSlotRace ==
    ASSUME IInv PROVE NoSlotRace
<1> SUFFICES ASSUME NEW p \in Producers, NEW t \in Threads, p # t,
                    pc[p] = "enq_store", pc[t] = "enq_store" \/ pc[t] = "deq_copy"
             PROVE  Slot(cnt[p]) # Slot(cnt[t])
  BY DEF NoSlotRace, At
<1> USE DEF IInv
<1>1. t \in Consumers /\ pc[t] = "deq_copy"
  <2>1. t \notin Producers
    BY Alone DEF InEnqueue, SendPcs, Sender
  <2> QED
    BY <2>1 DEF Receiver, RecvPcs, Threads
<1>2. op[p] \in {"one", "many"} /\ op[t] \in {"one", "many"}
  BY <1>1 DEF TypeOK, Sender, Receiver, Threads
<1>3. Amount(op[p]) \in Nat /\ Amount(op[t]) \in Nat /\ moved[p] \in Nat
      /\ Len(out[t]) \in Nat /\ enqueue_count \in Int /\ dequeue_count \in Int
  BY <1>1, <1>2, AmountFact, RingAssumption DEF TypeOK
<1>4. /\ enqueue_count + Amount(op[p]) <= dequeue_count + Capacity
      /\ cnt[p] = enqueue_count + moved[p] /\ moved[p] < Amount(op[p])
  BY DEF Sender
<1>5. /\ dequeue_count + Amount(op[t]) <= enqueue_count
      /\ cnt[t] = dequeue_count + Len(out[t]) /\ Len(out[t]) < Amount(op[t])
  BY <1>1 DEF Receiver
<1> HIDE DEF IInv
<1>6. cnt[t] \in Int /\ cnt[p] \in Int /\ cnt[t] < cnt[p] /\ cnt[p] - cnt[t] < Capacity
  <2>1. Capacity \in Int
    BY RingAssumption
  <2>2. cnt[t] \in Int /\ cnt[t] < enqueue_count /\ dequeue_count <= cnt[t]
    BY <1>3, <1>5
  <2>3. cnt[p] \in Int /\ cnt[p] < dequeue_count + Capacity /\ enqueue_count <= cnt[p]
    BY <1>3, <1>4, <2>1
  <2> QED
    BY <1>3, <2>1, <2>2, <2>3
<1>7. cnt[p] % Capacity # cnt[t] % Capacity
  BY <1>6, ModDiffer, RingAssumption
<1> QED
  BY <1>7 DEF Slot

(* Every step of every thread preserves the inductive invariant. *)
LEMMA NextIInv ==
    ASSUME NoWrap, IInv, [Next]_vars PROVE IInv'
<1>1. CASE UNCHANGED vars
  <2> USE <1>1 DEF vars
  <2>1. TypeOK' /\ Counts'
    BY DEF IInv, TypeOK, Counts
  <2>2. (\A p \in Producers : Sender(p)') /\ (\A c \in Consumers : Receiver(c)')
    BY DEF IInv, Sender, Receiver
  <2>3. Exclusion' /\ Filled'
    BY DEF IInv, Exclusion, InEnqueue, InDequeue, Filled
  <2> QED
    BY <2>1, <2>2, <2>3 DEF IInv
<1>2. ASSUME NEW p \in Producers, Send(p) PROVE IInv'
  BY <1>2, CallEnqueueStep, LockEnqueueStep, EnqueueFullStep, EnqueueRoomStep,
     StoreNodeStep, PublishEnqueueStep, ReturnEnqueueStep DEF Send
<1>3. ASSUME NEW c \in Consumers, Receive(c) PROVE IInv'
  BY <1>3, CallDequeueStep, LockDequeueStep, DequeueEmptyStep, DequeueAvailStep,
     CopyNodeStep, CommitDequeueStep, ReturnDequeueStep DEF Receive
<1> QED
  BY <1>1, <1>2, <1>3 DEF Next

(* Under NoWrap the queue functions keep the invariant in every execution. *)
THEOREM Invariance ==
    NoWrap => (Spec => []IInv)
<1> SUFFICES ASSUME NoWrap PROVE Spec => []IInv
  OBVIOUS
<1>1. Init => IInv
  BY InitIInv
<1>2. IInv /\ [Next]_vars => IInv'
  BY NextIInv
<1> QED
  BY <1>1, <1>2, PTL DEF Spec

(* Every count stays in its width, every thread where its function can be, *)
(* and no receiver ever returns the contents of an unfilled slot.          *)
THEOREM TypeCorrect ==
    NoWrap => (Spec => []TypeOK)
<1> SUFFICES ASSUME NoWrap PROVE Spec => []TypeOK
  OBVIOUS
<1>1. IInv => TypeOK
  BY DEF IInv
<1> QED
  BY <1>1, Invariance, PTL

(* A sender filling node[i] and a receiver reading node[j] without a       *)
(* common mutex never have i = j, and two senders never fill at once.      *)
THEOREM SlotsAreRaceFree ==
    NoWrap => (Spec => []NoSlotRace)
<1> SUFFICES ASSUME NoWrap PROVE Spec => []NoSlotRace
  OBVIOUS
<1>1. IInv => NoSlotRace
  BY IInvNoSlotRace
<1> QED
  BY <1>1, Invariance, PTL

(* The receivers' count never passes the senders', and the senders never   *)
(* get more than a ring ahead.                                             *)
THEOREM CountersStayOrdered ==
    NoWrap => (Spec => []CountersOrdered)
<1> SUFFICES ASSUME NoWrap PROVE Spec => []CountersOrdered
  OBVIOUS
<1>1. IInv => CountersOrdered
  BY DEF IInv, Counts, CountersOrdered
<1> QED
  BY <1>1, Invariance, PTL
=============================================================================
