---------------------------- MODULE RingRefinement ----------------------------
(***************************************************************************)
(* RingQueue implements Fifo's Spec as INTEL_QUEUE and Fifo's LosslessSpec *)
(* on both builds, for every number of threads, ring size and batch size,  *)
(* as long as the counts stay below the width of the batch functions'      *)
(* locals.                                                                 *)
(*                                                                         *)
(* A call takes effect at its assignment to enqueue_count or dequeue_count *)
(* and every other access is invisible to the abstract queue.  For that    *)
(* the invariant of RingQueueProofs is extended by what the slots hold:    *)
(* behind enqueue_count, what a sender has stored of its offer; behind     *)
(* dequeue_count, what a receiver has copied out.                          *)
(***************************************************************************)
EXTENDS RingQueueProofs

(* What a sender has stored so far waits in order behind the last          *)
(* published item.                                                         *)
Stored ==
    \A p \in Producers : pc[p] \in {"enq_store", "enq_publish"} =>
      \A i \in 1..moved[p] : node[Slot(enqueue_count + i - 1)] = offer[p][i]

(* What a receiver has copied so far is still the front of the queue. *)
Copied ==
    \A c \in Consumers : pc[c] \in {"deq_copy", "deq_commit"} =>
      \A i \in 1..Len(out[c]) : out[c][i] = node[Slot(dequeue_count + i - 1)]

RInv == IInv /\ Stored /\ Copied

-----------------------------------------------------------------------------
(* The refinement mapping, as functions of what a step changes. *)

(* The items between two counts of a ring. *)
Ring(e, d, nd) == [i \in 1..(e - d) |-> nd[Slot(d + i - 1)]]

PhaseOf(at) ==
    CASE at = "idle" -> "idle" [] at = "ok" -> "ok" [] at = "fail" -> "failed"
      [] OTHER -> "called"

(* The places a thread can be in its function. *)
Places == SendPcs \cup RecvPcs

(* Ordered counts are a natural number apart. *)
LEMMA Distance ==
    ASSUME NEW a \in Int, NEW b \in Int, b <= a PROVE a - b \in Nat
OBVIOUS

(* Below the width, the abstract content is the ring between the counts. *)
LEMMA QueuedIsRing ==
    ASSUME NoWrap, Counts, Counts'
    PROVE  /\ Queued = Ring(enqueue_count, dequeue_count, node)
           /\ Queued' = Ring(enqueue_count', dequeue_count', node')
           /\ enqueue_count - dequeue_count \in Nat
           /\ enqueue_count' - dequeue_count' \in Nat
<1>1. (enqueue_count - dequeue_count) % Wide = enqueue_count - dequeue_count
  BY RingAssumption, ModSmall DEF NoWrap, Counts
<1>2. (enqueue_count' - dequeue_count') % Wide = enqueue_count' - dequeue_count'
  BY RingAssumption, ModSmall DEF NoWrap, Counts
<1>3. enqueue_count - dequeue_count \in Nat
  BY RingAssumption DEF Counts
<1>4. enqueue_count' - dequeue_count' \in Nat
  <2>1. enqueue_count' \in Int /\ dequeue_count' \in Int /\ dequeue_count' <= enqueue_count'
    BY RingAssumption DEF Counts
  <2> QED
    BY <2>1, Distance
<1> QED
  BY <1>1, <1>2, <1>3, <1>4 DEF Queued, Ring

(* A ring is a sequence as long as its counts are apart. *)
LEMMA RingIsSeq ==
    ASSUME NEW e, NEW d, e - d \in Nat, NEW nd
    PROVE  /\ Len(Ring(e, d, nd)) = e - d
           /\ DOMAIN Ring(e, d, nd) = 1..(e - d)
           /\ \A i \in 1..(e - d) : Ring(e, d, nd)[i] = nd[Slot(d + i - 1)]
BY DEF Ring

(* A ring of filled slots is a sequence of items. *)
LEMMA RingOfItems ==
    ASSUME NEW e \in Int, NEW d \in Int, e - d \in Nat, NEW nd,
           \A i \in Int : d <= i /\ i < e => nd[Slot(i)] \in Items
    PROVE  Ring(e, d, nd) \in Seq(Items)
<1>1. \A i \in 1..(e - d) : nd[Slot(d + i - 1)] \in Items
  <2> TAKE i \in 1..(e - d)
  <2>1. d + i - 1 \in Int /\ d <= d + i - 1 /\ d + i - 1 < e
    OBVIOUS
  <2> QED
    BY <2>1
<1>2. Ring(e, d, nd) \in [1..(e - d) -> Items]
  BY <1>1 DEF Ring
<1> QED
  BY <1>2, SeqDef

(* Advancing the senders' count over slots that hold s appends s. *)
LEMMA RingAppend ==
    ASSUME NEW e \in Int, NEW d \in Int, e - d \in Nat, NEW nd, NEW t
    PROVE  /\ t \in Seq(Items)
           /\ Ring(e, d, nd) \in Seq(Items)
           /\ \A i \in 1..Len(t) : nd[Slot(e + i - 1)] = t[i]
           => Ring(e + Len(t), d, nd) = Ring(e, d, nd) \o t
<1> DEFINE n == e - d
           k == Len(t)
           old == Ring(e, d, nd)
           new == Ring(e + k, d, nd)
           cat == old \o t
<1>1. n \in Nat
  OBVIOUS
<1>2. Len(old) = n /\ \A i \in 1..n : old[i] = nd[Slot(d + i - 1)]
  BY <1>1 DEF Ring
<1> SUFFICES ASSUME t \in Seq(Items), Ring(e, d, nd) \in Seq(Items),
                    \A i \in 1..Len(t) : nd[Slot(e + i - 1)] = t[i]
             PROVE  new = cat
  OBVIOUS
<1>3. k \in Nat /\ e + k - d = n + k
  BY <1>1
<1>4. new = [i \in 1..(n + k) |-> nd[Slot(d + i - 1)]]
  BY <1>3 DEF Ring
<1> HIDE DEF n, k, old, new, cat
<1>5. /\ cat \in Seq(Items) /\ Len(cat) = n + k
      /\ \A i \in 1..(n + k) : cat[i] = IF i <= n THEN old[i] ELSE t[i - n]
  BY <1>1, <1>2, <1>3, ConcatProperties DEF k, cat, old
<1>6. ASSUME NEW i \in 1..(n + k) PROVE nd[Slot(d + i - 1)] = cat[i]
  <2>1. CASE i <= n
    <3>1. i \in 1..n
      BY <1>1, <1>3, <2>1
    <3> QED
      BY <1>2, <1>5, <2>1, <3>1
  <2>2. CASE i > n
    <3>1. i - n \in 1..k /\ d + i - 1 = e + (i - n) - 1 /\ ~(i <= n)
      BY <1>1, <1>3, <2>2 DEF n
    <3>2. nd[Slot(e + (i - n) - 1)] = t[i - n]
      BY <3>1 DEF k
    <3> QED
      BY <1>5, <3>1, <3>2
  <2>3. i <= n \/ i > n
    BY <1>1, <1>3
  <2> QED
    BY <2>1, <2>2, <2>3
<1>7. cat = [i \in 1..(n + k) |-> cat[i]]
  BY <1>1, <1>3, <1>5
<1> QED
  BY <1>4, <1>6, <1>7

(* Advancing the receivers' count over k slots drops the k oldest items. *)
LEMMA RingDrop ==
    ASSUME NEW e \in Int, NEW d \in Int, NEW k \in Nat, e - d \in Nat, k <= e - d, NEW nd,
           \A i \in Int : d <= i /\ i < e => nd[Slot(i)] \in Items
    PROVE  /\ Ring(e, d + k, nd) = SubSeq(Ring(e, d, nd), k + 1, Len(Ring(e, d, nd)))
           /\ Ring(d + k, d, nd) = SubSeq(Ring(e, d, nd), 1, k)
<1> DEFINE n == e - d
           old == Ring(e, d, nd)
           rest == SubSeq(old, k + 1, n)
           front == SubSeq(old, 1, k)
<1>1. n \in Nat /\ k \in 0..n /\ e - (d + k) = n - k /\ d + k - d = k /\ e - (d + k) \in Nat
  OBVIOUS
<1>2. Len(old) = n /\ \A i \in 1..n : old[i] = nd[Slot(d + i - 1)]
  BY <1>1, RingIsSeq
<1>3. Ring(e, d + k, nd) = [i \in 1..(n - k) |-> nd[Slot(d + k + i - 1)]]
  BY <1>1 DEF Ring
<1>4. Ring(d + k, d, nd) = [i \in 1..k |-> nd[Slot(d + i - 1)]]
  BY <1>1 DEF Ring
<1>5. old \in Seq(Items)
  BY RingOfItems
<1> HIDE DEF n, old, rest, front
<1>6. \A i \in 1..n : old[i] \in Items
  BY <1>2, <1>5, ElementOfSeq
<1>7. rest = [i \in 1..(n - k) |-> nd[Slot(d + k + i - 1)]]
  <2>1. \A i \in (k + 1)..n : old[i] \in Items
    BY <1>1, <1>6
  <2>2. k + 1 \in Int /\ n \in Int
    BY <1>1
  <2>3. /\ rest \in Seq(Items)
        /\ Len(rest) = IF k + 1 <= n THEN n - (k + 1) + 1 ELSE 0
        /\ \A i \in 1..(n - (k + 1) + 1) : rest[i] = old[(k + 1) + i - 1]
    BY <2>1, <2>2, SubSeqProperties DEF rest
  <2>4. Len(rest) = n - k /\ n - (k + 1) + 1 = n - k
    BY <1>1, <2>3
  <2>5. ASSUME NEW i \in 1..(n - k) PROVE rest[i] = nd[Slot(d + k + i - 1)]
    <3>1. k + 1 + i - 1 \in 1..n /\ d + (k + 1 + i - 1) - 1 = d + k + i - 1
      BY <1>1
    <3> QED
      BY <1>2, <2>3, <2>4, <3>1
  <2>6. rest = [i \in 1..(n - k) |-> rest[i]]
    BY <2>3, <2>4
  <2> QED
    BY <2>5, <2>6
<1>8. front = [i \in 1..k |-> nd[Slot(d + i - 1)]]
  <2>1. \A i \in 1..k : old[i] \in Items
    BY <1>1, <1>6
  <2>2. /\ front \in Seq(Items) /\ Len(front) = IF 1 <= k THEN k - 1 + 1 ELSE 0
        /\ \A i \in 1..(k - 1 + 1) : front[i] = old[1 + i - 1]
    BY <1>1, <2>1, SubSeqProperties DEF front
  <2>3. Len(front) = k /\ k - 1 + 1 = k
    BY <1>1, <2>2
  <2>4. ASSUME NEW i \in 1..k PROVE front[i] = nd[Slot(d + i - 1)]
    <3>1. 1 + i - 1 = i /\ i \in 1..n
      BY <1>1
    <3> QED
      BY <1>2, <2>2, <2>3, <3>1
  <2>5. front = [i \in 1..k |-> front[i]]
    BY <2>2, <2>3
  <2> QED
    BY <2>4, <2>5
<1> QED
  BY <1>2, <1>3, <1>4, <1>7, <1>8 DEF rest, front, old

(* Moving one thread moves its abstract phase and no other. *)
LEMMA PhaseMoves ==
    ASSUME TypeOK, NEW t \in Threads, NEW at, pc' = [pc EXCEPT ![t] = at]
    PROVE  /\ AbstractPhase' = [AbstractPhase EXCEPT ![t] = PhaseOf(at)]
           /\ AbstractPhase[t] = PhaseOf(pc[t])
<1>1. \A u \in Threads : Phase(u) = PhaseOf(pc[u]) /\ Phase(u)' = PhaseOf(pc'[u])
  BY DEF Phase, PhaseOf, At
<1>2. pc' = [u \in Threads |-> IF u = t THEN at ELSE pc[u]]
  BY DEF TypeOK
<1>3. AbstractPhase' = [u \in Threads |-> PhaseOf(pc'[u])]
  BY <1>1 DEF AbstractPhase
<1>4. AbstractPhase = [u \in Threads |-> PhaseOf(pc[u])]
  BY <1>1 DEF AbstractPhase
<1> QED
  BY <1>2, <1>3, <1>4

(* A step that keeps the phase of the one thread it moves keeps them all. *)
LEMMA PhaseStays ==
    ASSUME TypeOK, NEW t \in Threads, NEW at, pc' = [pc EXCEPT ![t] = at],
           PhaseOf(at) = PhaseOf(pc[t])
    PROVE  AbstractPhase' = AbstractPhase
<1>1. AbstractPhase' = [AbstractPhase EXCEPT ![t] = AbstractPhase[t]]
  BY PhaseMoves
<1>2. AbstractPhase = [u \in Threads |-> AbstractPhase[u]]
  BY DEF AbstractPhase
<1> HIDE DEF AbstractPhase
<1> QED
  BY <1>1, <1>2

(* A sender's step that leaves the receivers' arguments alone leaves what  *)
(* they want and what they got alone.                                      *)
LEMMA ReceiversUntouched ==
    ASSUME TypeOK, NEW p \in Producers, NEW at, pc' = [pc EXCEPT ![p] = at],
           NEW o, op' = [op EXCEPT ![p] = o] \/ op' = op, out' = out
    PROVE  AbstractWant' = AbstractWant /\ AbstractGot' = AbstractGot
<1>1. \A c \in Consumers : c # p /\ c \in Threads /\ p \in Threads
  BY RingAssumption DEF Threads
<1>2. \A c \in Consumers : pc'[c] = pc[c] /\ op'[c] = op[c]
  BY <1>1 DEF TypeOK
<1>3. \A c \in Consumers : Amount(op'[c]) = Amount(op[c])
  BY <1>2
<1>4. AbstractWant' = AbstractWant
  BY <1>3 DEF AbstractWant, Amount
<1>5. AbstractGot' = AbstractGot
  BY <1>2 DEF AbstractGot, At
<1> QED
  BY <1>4, <1>5

-----------------------------------------------------------------------------
(* A sender's steps. *)

(* A call begins. *)
LEMMA CallEnqueueMaps ==
    ASSUME NoWrap, RInv, IInv', NEW p \in Producers, CallEnqueue(p)
    PROVE  Stored' /\ Copied' /\ Abstract!CallEnqueue(p)
<1> USE DEF CallEnqueue, At, Goto, recvVars
<1>0. TypeOK /\ Counts /\ Counts' /\ p \in Threads
  BY DEF RInv, IInv, Threads
<1>a. PICK o \in SendOps :
        /\ op' = [op EXCEPT ![p] = o]
        /\ \E s \in Offers(o) : offer' = [offer EXCEPT ![p] = s]
  OBVIOUS
<1>b. PICK s \in Offers(o) : offer' = [offer EXCEPT ![p] = s]
  BY <1>a
<1>c. PICK at : pc' = [pc EXCEPT ![p] = at] /\ at \in {"enq_lock", "enq_check"}
  OBVIOUS
<1>1. s \in Abstract!Offers
  <2>1. CASE o = "one"
    <3>1. s \in [1..1 -> Items]
      BY <2>1, AmountFact DEF Offers
    <3>2. s = <<s[1]>> /\ s[1] \in Items
      BY <3>1
    <3> QED
      BY <3>2 DEF Abstract!Offers
  <2>2. CASE o = "many"
    BY <2>2, AmountFact DEF Offers, Abstract!Offers
  <2> QED
    BY <2>1, <2>2, RingAssumption
<1>2. AbstractPhase[p] = "idle" /\ AbstractPhase' = [AbstractPhase EXCEPT ![p] = "called"]
  BY <1>0, <1>c, PhaseMoves DEF PhaseOf
<1>3. AbstractWant' = AbstractWant /\ AbstractGot' = AbstractGot
  BY <1>0, <1>a, <1>c, ReceiversUntouched
<1>4. Queued' = Queued
  BY DEF Queued
<1>5. Abstract!CallEnqueue(p)
  BY <1>1, <1>2, <1>3, <1>4, <1>b DEF Abstract!CallEnqueue, Abstract!Becomes
<1>6. Stored' /\ Copied'
  BY <1>0, <1>b, <1>c, RingAssumption DEF RInv, Stored, Copied, TypeOK, Threads
<1> QED
  BY <1>5, <1>6

(* Taking the mutex is invisible. *)
LEMMA LockEnqueueMaps ==
    ASSUME NoWrap, RInv, IInv', NEW p \in Producers, LockEnqueue(p)
    PROVE  Stored' /\ Copied' /\ UNCHANGED Abstract!fifoVars
<1> USE DEF LockEnqueue, At, Goto, recvVars
<1>0. TypeOK /\ p \in Threads
  BY DEF RInv, IInv, Threads
<1>1. AbstractPhase' = AbstractPhase
  BY <1>0, PhaseStays DEF PhaseOf
<1>2. AbstractWant' = AbstractWant /\ AbstractGot' = AbstractGot
  BY <1>0, ReceiversUntouched
<1>3. Queued' = Queued
  BY DEF Queued
<1>4. Stored' /\ Copied'
  BY <1>0, RingAssumption DEF RInv, Stored, Copied, TypeOK, Threads
<1> QED
  BY <1>1, <1>2, <1>3, <1>4 DEF Abstract!fifoVars

(* The check that fails is the instant a refused call takes effect. *)
LEMMA EnqueueFullMaps ==
    ASSUME NoWrap, RInv, IInv', NEW p \in Producers, EnqueueFull(p)
    PROVE  Stored' /\ Copied' /\ Abstract!Full(p)
<1> USE DEF EnqueueFull, At, Goto, recvVars, sendVars
<1>0. TypeOK /\ Counts /\ Counts' /\ p \in Threads /\ Sender(p)
  BY DEF RInv, IInv, Threads
<1>1. AbstractPhase[p] = "called" /\ AbstractPhase' = [AbstractPhase EXCEPT ![p] = "failed"]
  BY <1>0, PhaseMoves DEF PhaseOf
<1>2. AbstractWant' = AbstractWant /\ AbstractGot' = AbstractGot
  BY <1>0, ReceiversUntouched
<1>3. Queued' = Queued
  BY DEF Queued
<1>4. Len(Queued) = enqueue_count - dequeue_count
  BY <1>0, QueuedIsRing, RingIsSeq
<1>5. op[p] \in {"one", "many"} /\ Len(offer[p]) = Amount(op[p])
  BY <1>0 DEF TypeOK, Sender
<1>6. Len(Queued) + Len(offer[p]) > Capacity
  <2>1. /\ (enqueue_count - dequeue_count) % Wide = enqueue_count - dequeue_count
        /\ (enqueue_count + Batch - dequeue_count) % Wide
             = enqueue_count + Batch - dequeue_count
    BY <1>0, RingAssumption, ModSmall DEF NoWrap, Counts
  <2>2. enqueue_count \in Int /\ dequeue_count \in Int /\ LacksRoom(p)
    BY <1>0 DEF TypeOK
  <2> HIDE DEF EnqueueFull
  <2> QED
    BY <1>4, <1>5, <2>1, <2>2, AmountFact, RingAssumption DEF LacksRoom
<1>7. Stored' /\ Copied'
  BY SMTT(30), <1>0, RingAssumption DEF RInv, Stored, Copied, TypeOK, Threads
<1> QED
  BY <1>1, <1>2, <1>3, <1>6, <1>7 DEF Abstract!Full, Abstract!Becomes

(* The check that succeeds is invisible. *)
LEMMA EnqueueRoomMaps ==
    ASSUME NoWrap, RInv, IInv', NEW p \in Producers, EnqueueRoom(p)
    PROVE  Stored' /\ Copied' /\ UNCHANGED Abstract!fifoVars
<1> USE DEF EnqueueRoom, At, Goto, recvVars, sendVars
<1>0. TypeOK /\ p \in Threads /\ Sender(p)
  BY DEF RInv, IInv, Threads
<1>1. AbstractPhase' = AbstractPhase
  BY <1>0, PhaseStays DEF PhaseOf
<1>2. AbstractWant' = AbstractWant /\ AbstractGot' = AbstractGot
  BY <1>0, ReceiversUntouched
<1>3. Queued' = Queued
  BY DEF Queued
<1>4. moved[p] = 0
  BY <1>0 DEF Sender
<1>5. Stored'
  <2>1. \A q \in Producers : q # p => pc'[q] = pc[q]
    BY <1>0 DEF TypeOK, Threads
  <2>2. UNCHANGED <<node, offer, moved, enqueue_count>>
    OBVIOUS
  <2> HIDE DEF EnqueueRoom
  <2> QED
    BY <1>4, <2>1, <2>2 DEF RInv, Stored
<1>6. Copied'
  BY SMTT(30), <1>0, RingAssumption DEF RInv, Copied, TypeOK, Threads
<1> QED
  BY <1>1, <1>2, <1>3, <1>5, <1>6 DEF Abstract!fifoVars

(* A store goes behind everything published and everything stored before,  *)
(* less than a ring away: it overwrites none of it.                        *)
LEMMA StoreNodeMaps ==
    ASSUME NoWrap, RInv, IInv', NEW p \in Producers, StoreNode(p)
    PROVE  Stored' /\ Copied' /\ UNCHANGED Abstract!fifoVars
<1> USE DEF StoreNode, At, Goto, recvVars
<1>0. TypeOK /\ Counts /\ Counts' /\ p \in Threads /\ Sender(p) /\ pc[p] = "enq_store"
  BY DEF RInv, IInv, Threads
<1>a. PICK at : pc' = [pc EXCEPT ![p] = at] /\ at \in {"enq_store", "enq_publish"}
  OBVIOUS
<1>1. AbstractPhase' = AbstractPhase
  BY <1>0, <1>a, PhaseStays DEF PhaseOf
<1>2. AbstractWant' = AbstractWant /\ AbstractGot' = AbstractGot
  BY <1>0, <1>a, ReceiversUntouched
<1>3. /\ cnt[p] = enqueue_count + moved[p] /\ moved[p] \in Nat
      /\ moved[p] < Amount(op[p]) /\ Amount(op[p]) \in Nat
      /\ enqueue_count + Amount(op[p]) <= dequeue_count + Capacity
      /\ enqueue_count \in Nat /\ dequeue_count \in Nat /\ dequeue_count <= enqueue_count
  <2>1. op[p] \in {"none", "one", "many"}
    BY <1>0 DEF TypeOK
  <2> QED
    BY <1>0, <2>1, AmountFact, RingAssumption DEF Sender, TypeOK, Counts
<1>4. ASSUME NEW i \in Int, dequeue_count <= i, i < enqueue_count + moved[p]
      PROVE  node'[Slot(i)] = node[Slot(i)]
  <2>1. i < cnt[p] /\ cnt[p] - i < Capacity /\ cnt[p] \in Int /\ Capacity \in Nat \ {0}
    BY <1>3, <1>4, RingAssumption
  <2>2. Slot(i) # Slot(cnt[p])
    BY <2>1, ModDiffer DEF Slot
  <2>3. Slot(i) \in Slots
    BY <2>1, ModRange DEF Slot, Slots
  <2> QED
    BY <1>0, <2>2, <2>3 DEF TypeOK
<1>5. node'[Slot(cnt[p])] = offer[p][moved[p] + 1]
  <2>1. cnt[p] \in Int /\ Capacity \in Nat \ {0}
    BY <1>3, RingAssumption
  <2>2. Slot(cnt[p]) \in Slots
    BY <2>1, ModRange DEF Slot, Slots
  <2> QED
    BY <1>0, <2>2 DEF TypeOK
<1>6. moved'[p] = moved[p] + 1
  BY <1>0 DEF TypeOK
<1>7. UNCHANGED <<enqueue_count, dequeue_count, offer, op, out>>
  OBVIOUS
<1>8. \A q \in Producers : pc'[q] \in {"enq_store", "enq_publish"} => q = p
  <2>1. IInv
    BY DEF RInv
  <2>2. \A q \in Producers : q # p => pc'[q] = pc[q]
    BY <1>0, <1>a DEF TypeOK, Threads
  <2>3. \A q \in Producers : pc[q] \in {"enq_store", "enq_publish"} => q = p
    BY <1>0, <2>1, Alone DEF InEnqueue, SendPcs
  <2> QED
    BY <2>2, <2>3
<1>9. \A c \in Consumers : pc'[c] = pc[c]
  BY <1>0, <1>a, RingAssumption DEF TypeOK, Threads
<1> HIDE DEF StoreNode
<1>10. Queued' = Queued
  <2>1. Queued = Ring(enqueue_count, dequeue_count, node)
    BY <1>0, QueuedIsRing
  <2>2. Queued' = Ring(enqueue_count, dequeue_count, node')
    BY <1>0, <1>7, QueuedIsRing
  <2>3. ASSUME NEW i \in 1..(enqueue_count - dequeue_count)
        PROVE  node'[Slot(dequeue_count + i - 1)] = node[Slot(dequeue_count + i - 1)]
    BY <1>3, <1>4
  <2> QED
    BY <2>1, <2>2, <2>3 DEF Ring
<1>11. Stored'
  <2> SUFFICES ASSUME pc[p] \in {"enq_store", "enq_publish"}, NEW i \in 1..(moved[p] + 1)
               PROVE  node'[Slot(enqueue_count + i - 1)] = offer[p][i]
    BY <1>0, <1>6, <1>7, <1>8 DEF Stored
  <2>1. CASE i = moved[p] + 1
    <3>1. enqueue_count + i - 1 = cnt[p]
      BY <1>3, <2>1
    <3> QED
      BY <3>1, <1>5, <2>1
  <2>2. CASE i \in 1..moved[p]
    <3>1. node[Slot(enqueue_count + i - 1)] = offer[p][i]
      BY <1>0, <2>2 DEF RInv, Stored
    <3>2. node'[Slot(enqueue_count + i - 1)] = node[Slot(enqueue_count + i - 1)]
      BY <1>3, <1>4, <2>2
    <3> QED
      BY <3>1, <3>2
  <2> QED
    BY <1>3, <2>1, <2>2
<1>12. Copied'
  <2> SUFFICES ASSUME NEW c \in Consumers, pc[c] \in {"deq_copy", "deq_commit"},
                      NEW i \in 1..Len(out[c])
               PROVE  out[c][i] = node'[Slot(dequeue_count + i - 1)]
    BY <1>7, <1>9 DEF Copied
  <2>1. out[c][i] = node[Slot(dequeue_count + i - 1)]
    BY DEF RInv, Copied
  <2>2. Receiver(c) /\ op[c] \in {"none", "one", "many"} /\ out[c] \in Seq(Items)
    BY DEF RInv, IInv, TypeOK, Threads
  <2>3. Len(out[c]) <= Amount(op[c]) /\ dequeue_count + Amount(op[c]) <= enqueue_count
        /\ Amount(op[c]) \in Nat /\ Len(out[c]) \in Nat
    BY <2>2, AmountFact, RingAssumption DEF Receiver
  <2>4. i \in Int /\ dequeue_count <= dequeue_count + i - 1
        /\ dequeue_count + i - 1 < enqueue_count + moved[p] /\ dequeue_count + i - 1 \in Int
    BY <1>3, <2>3
  <2> QED
    BY <1>4, <2>1, <2>4
<1> QED
  BY <1>1, <1>2, <1>7, <1>10, <1>11, <1>12 DEF Abstract!fifoVars

(* Publishing appends the whole offer to the abstract queue. *)
LEMMA PublishEnqueueMaps ==
    ASSUME NoWrap, RInv, IInv', NEW p \in Producers, PublishEnqueue(p)
    PROVE  Stored' /\ Copied' /\ Abstract!Put(p)
<1> USE DEF PublishEnqueue, At, Goto, recvVars
<1>0. TypeOK /\ Counts /\ Counts' /\ p \in Threads /\ Sender(p) /\ pc[p] = "enq_publish"
  BY DEF RInv, IInv, Threads
<1>1. AbstractPhase[p] = "called" /\ AbstractPhase' = [AbstractPhase EXCEPT ![p] = "ok"]
  BY <1>0, PhaseMoves DEF PhaseOf
<1>2. AbstractWant' = AbstractWant /\ AbstractGot' = AbstractGot
  BY <1>0, ReceiversUntouched
<1>3. op[p] \in {"one", "many"}
  BY <1>0 DEF Sender, TypeOK
<1>4. /\ Amount(op[p]) \in 1..Batch /\ moved[p] = Amount(op[p])
      /\ enqueue_count \in Nat /\ dequeue_count \in Nat /\ dequeue_count <= enqueue_count
      /\ enqueue_count + Amount(op[p]) <= dequeue_count + Capacity
      /\ enqueue_count + Amount(op[p]) <= CountBound
      /\ cnt[p] = enqueue_count + moved[p]
  BY <1>0, <1>3, AmountFact, RingAssumption DEF Sender, Counts
<1>5. enqueue_count' = enqueue_count + Amount(op[p])
  <2>1. (enqueue_count + 1) % Wide = enqueue_count + 1
    <3>1. enqueue_count + 1 \in 0..(Wide - 1)
      BY <1>4, RingAssumption DEF NoWrap
    <3> QED
      BY <3>1, ModSmall, RingAssumption
  <2> QED
    BY <1>3, <1>4, <2>1, AmountFact
<1>6. UNCHANGED <<node, offer, op, out, dequeue_count, moved>>
  OBVIOUS
<1>7. \A q \in Producers : pc'[q] \notin {"enq_store", "enq_publish"}
  <2>1. IInv
    BY DEF RInv
  <2>2. pc'[p] = "ok" /\ \A q \in Producers : q # p => pc'[q] = pc[q]
    BY <1>0 DEF TypeOK, Threads
  <2>3. \A q \in Producers : pc[q] \in {"enq_store", "enq_publish"} => q = p
    BY <1>0, <2>1, Alone DEF InEnqueue, SendPcs
  <2> QED
    BY <2>2, <2>3
<1>8. \A c \in Consumers : pc'[c] = pc[c]
  BY <1>0, RingAssumption DEF TypeOK, Threads
<1> HIDE DEF PublishEnqueue
<1>9. Stored' /\ Copied'
  BY <1>6, <1>7, <1>8 DEF RInv, Stored, Copied
<1>10. Queued = Ring(enqueue_count, dequeue_count, node)
       /\ Queued' = Ring(enqueue_count + Amount(op[p]), dequeue_count, node)
       /\ enqueue_count - dequeue_count \in Nat
  BY <1>0, <1>5, <1>6, QueuedIsRing
<1>11. offer[p] \in Seq(Items) /\ Len(offer[p]) = Amount(op[p])
  BY <1>0 DEF TypeOK
<1>12. Queued \in Seq(Items)
  <2>1. \A i \in Int : dequeue_count <= i /\ i < enqueue_count => node[Slot(i)] \in Items
    BY DEF RInv, IInv, Filled
  <2>2. enqueue_count \in Int /\ dequeue_count \in Int
    BY <1>4
  <2>3. Ring(enqueue_count, dequeue_count, node) \in Seq(Items)
    BY ONLY <1>10, <2>1, <2>2, RingOfItems
  <2> QED BY <1>10, <2>3
<1>13. \A i \in 1..Len(offer[p]) : node[Slot(enqueue_count + i - 1)] = offer[p][i]
  BY <1>0, <1>4, <1>11 DEF RInv, Stored
<1>14. Queued' = Queued \o offer[p]
  <2>1. enqueue_count \in Int /\ dequeue_count \in Int
    BY <1>4
  <2>2. Ring(enqueue_count, dequeue_count, node) \in Seq(Items)
    BY <1>10, <1>12
  <2>3. enqueue_count - dequeue_count \in Nat /\ offer[p] \in Seq(Items)
    BY <1>10, <1>11
  <2>4. Ring(enqueue_count + Len(offer[p]), dequeue_count, node)
          = Ring(enqueue_count, dequeue_count, node) \o offer[p]
    BY SMTT(30), <2>1, <2>2, <2>3, <1>13, RingAppend
  <2> QED
    BY <2>4, <1>10, <1>11
<1>15. Len(Queued) + Len(offer[p]) <= Capacity
  <2>1. Len(Queued) = enqueue_count - dequeue_count
    BY <1>10, RingIsSeq
  <2> QED
    BY <1>4, <1>11, <2>1, RingAssumption
<1> QED
  BY <1>1, <1>2, <1>6, <1>9, <1>14, <1>15 DEF Abstract!Put, Abstract!Becomes

(* The call returns. *)
LEMMA ReturnEnqueueMaps ==
    ASSUME NoWrap, RInv, IInv', NEW p \in Producers, ReturnEnqueue(p)
    PROVE  Stored' /\ Copied' /\ Abstract!ReturnEnqueue(p)
<1> USE DEF ReturnEnqueue, At, Goto, recvVars
<1>0. TypeOK /\ p \in Threads
  BY DEF RInv, IInv, Threads
<1>1. (AbstractPhase[p] = "ok" \/ AbstractPhase[p] = "failed")
      /\ AbstractPhase' = [AbstractPhase EXCEPT ![p] = "idle"]
  BY <1>0, PhaseMoves DEF PhaseOf
<1>2. AbstractWant' = AbstractWant /\ AbstractGot' = AbstractGot
  BY <1>0, ReceiversUntouched
<1>3. Queued' = Queued
  BY DEF Queued
<1>4. Stored' /\ Copied'
  BY SMTT(30), <1>0, RingAssumption DEF RInv, Stored, Copied, TypeOK, Threads
<1> QED
  BY <1>1, <1>2, <1>3, <1>4 DEF Abstract!ReturnEnqueue, Abstract!Becomes

-----------------------------------------------------------------------------
(* A receiver's steps. *)

(* A receiver's step that does not finish a call hands nothing back. *)
LEMMA GotUntouched ==
    ASSUME TypeOK, NEW c \in Consumers, NEW at, pc' = [pc EXCEPT ![c] = at],
           at # "ok", pc[c] # "ok",
           \A d \in Consumers : d # c => out'[d] = out[d]
    PROVE  AbstractGot' = AbstractGot
<1>1. \A d \in Consumers : pc'[d] = IF d = c THEN at ELSE pc[d]
  BY DEF TypeOK, Threads
<1>2. \A d \in Consumers :
        (IF pc'[d] = "ok" THEN out'[d] ELSE <<>>) = (IF pc[d] = "ok" THEN out[d] ELSE <<>>)
  BY <1>1
<1> QED
  BY <1>2 DEF AbstractGot, At

(* A receiver's step leaves what the senders stored alone. *)
LEMMA StoredUntouched ==
    ASSUME RInv, NEW c \in Consumers, NEW at, pc' = [pc EXCEPT ![c] = at],
           UNCHANGED <<node, enqueue_count, offer, moved>>
    PROVE  Stored'
<1>1. \A p \in Producers : pc'[p] = pc[p]
  BY RingAssumption DEF RInv, IInv, TypeOK, Threads
<1> QED
  BY <1>1 DEF RInv, Stored

(* A call begins. *)
LEMMA CallDequeueMaps ==
    ASSUME NoWrap, RInv, IInv', NEW c \in Consumers, CallDequeue(c)
    PROVE  Stored' /\ Copied' /\ Abstract!CallDequeue(c)
<1> USE DEF CallDequeue, At, Goto, recvVars, sendVars
<1>0. TypeOK /\ c \in Threads
  BY DEF RInv, IInv, Threads
<1>a. PICK o \in RecvOps : op' = [op EXCEPT ![c] = o]
  OBVIOUS
<1>c. PICK at : pc' = [pc EXCEPT ![c] = at] /\ at \in {"deq_lock", "deq_check"}
  OBVIOUS
<1>1. AbstractPhase[c] = "idle" /\ AbstractPhase' = [AbstractPhase EXCEPT ![c] = "called"]
  BY <1>0, <1>c, PhaseMoves DEF PhaseOf
<1>2. AbstractGot' = AbstractGot
  BY <1>0, <1>c, GotUntouched
<1>3. AbstractWant' = [AbstractWant EXCEPT ![c] = Amount(o)] /\ Amount(o) \in {1, Batch}
  <2>1. \A d \in Consumers : op'[d] = IF d = c THEN o ELSE op[d]
    BY <1>0, <1>a DEF TypeOK, Threads
  <2>2. Amount(o) \in {1, Batch}
    BY AmountFact, RingAssumption
  <2>3. AbstractWant' = [d \in Consumers |-> IF d = c THEN Amount(o) ELSE Amount(op[d])]
    BY <2>1 DEF AbstractWant, Amount
  <2> QED
    BY <2>2, <2>3 DEF AbstractWant
<1>4. Queued' = Queued
  BY DEF Queued
<1>5. Stored'
  BY <1>c, StoredUntouched
<1>6. Copied'
  BY <1>0, <1>c DEF RInv, Copied, TypeOK, Threads
<1>7. UNCHANGED offer
  OBVIOUS
<1> HIDE DEF CallDequeue
<1> QED
  BY <1>1, <1>2, <1>3, <1>4, <1>5, <1>6, <1>7 DEF Abstract!CallDequeue, Abstract!Becomes

(* Taking the mutex is invisible. *)
LEMMA LockDequeueMaps ==
    ASSUME NoWrap, RInv, IInv', NEW c \in Consumers, LockDequeue(c)
    PROVE  Stored' /\ Copied' /\ UNCHANGED Abstract!fifoVars
<1> USE DEF LockDequeue, At, Goto, sendVars
<1>0. TypeOK /\ c \in Threads
  BY DEF RInv, IInv, Threads
<1>1. AbstractPhase' = AbstractPhase
  BY <1>0, PhaseStays DEF PhaseOf
<1>2. AbstractWant' = AbstractWant /\ AbstractGot' = AbstractGot
  BY <1>0, GotUntouched DEF AbstractWant, Amount
<1>3. Queued' = Queued
  BY DEF Queued
<1>4. Stored'
  BY StoredUntouched
<1>5. Copied'
  BY <1>0 DEF RInv, Copied, TypeOK, Threads
<1> QED
  BY <1>1, <1>2, <1>3, <1>4, <1>5 DEF Abstract!fifoVars

(* The check that fails is the instant a refused call takes effect. *)
LEMMA DequeueEmptyMaps ==
    ASSUME NoWrap, RInv, IInv', NEW c \in Consumers, DequeueEmpty(c)
    PROVE  Stored' /\ Copied' /\ Abstract!Refuse(c) /\ (~Tilera => Abstract!Empty(c))
<1> USE DEF DequeueEmpty, At, Goto, recvVars, sendVars
<1>0. TypeOK /\ Counts /\ Counts' /\ c \in Threads /\ Receiver(c)
  BY DEF RInv, IInv, Threads
<1>1. AbstractPhase[c] = "called" /\ AbstractPhase' = [AbstractPhase EXCEPT ![c] = "failed"]
  BY <1>0, PhaseMoves DEF PhaseOf
<1>2. AbstractWant' = AbstractWant /\ AbstractGot' = AbstractGot
  BY <1>0, GotUntouched DEF AbstractWant, Amount
<1>3. Queued' = Queued
  BY DEF Queued
<1>4. Len(Queued) = enqueue_count - dequeue_count
  BY <1>0, QueuedIsRing, RingIsSeq
<1>5. op[c] \in {"one", "many"} /\ AbstractWant[c] = Amount(op[c])
  BY <1>0 DEF TypeOK, Receiver, AbstractWant
<1>6. ASSUME ~Tilera PROVE AbstractWant[c] > Len(Queued)
  <2>1. (dequeue_count + Batch) % Wide = dequeue_count + Batch
    BY <1>0, RingAssumption, ModSmall DEF NoWrap, Counts
  <2>2. enqueue_count \in Int /\ dequeue_count \in Int /\ LacksItems(c)
        /\ dequeue_count <= enqueue_count
    BY <1>0 DEF TypeOK, Counts
  <2> HIDE DEF DequeueEmpty
  <2>3. CASE op[c] = "one"
    BY <1>4, <1>5, <2>2, <2>3, AmountFact DEF LacksItems
  <2>4. CASE op[c] = "many"
    BY <1>4, <1>5, <1>6, <2>1, <2>2, <2>4, AmountFact, RingAssumption DEF LacksItems
  <2> QED
    BY <1>5, <2>3, <2>4
<1>7. Stored'
  BY StoredUntouched
<1>8. Copied'
  BY <1>0 DEF RInv, Copied, TypeOK, Threads
<1>9. UNCHANGED offer
  OBVIOUS
<1> HIDE DEF DequeueEmpty
<1> QED
  BY <1>1, <1>2, <1>3, <1>6, <1>7, <1>8, <1>9
  DEF Abstract!Empty, Abstract!Refuse, Abstract!Becomes

(* The check that succeeds is invisible. *)
LEMMA DequeueAvailMaps ==
    ASSUME NoWrap, RInv, IInv', NEW c \in Consumers, DequeueAvail(c)
    PROVE  Stored' /\ Copied' /\ UNCHANGED Abstract!fifoVars
<1> USE DEF DequeueAvail, At, Goto, recvVars, sendVars
<1>0. TypeOK /\ c \in Threads /\ Receiver(c)
  BY DEF RInv, IInv, Threads
<1>1. AbstractPhase' = AbstractPhase
  BY <1>0, PhaseStays DEF PhaseOf
<1>2. AbstractWant' = AbstractWant /\ AbstractGot' = AbstractGot
  BY <1>0, GotUntouched DEF AbstractWant, Amount
<1>3. Queued' = Queued
  BY DEF Queued
<1>4. Stored'
  BY StoredUntouched
<1>5. Copied'
  <2>1. Len(out[c]) = 0
    BY <1>0 DEF Receiver
  <2>2. \A d \in Consumers : d # c => pc'[d] = pc[d]
    BY <1>0 DEF TypeOK, Threads
  <2>3. UNCHANGED <<node, out, dequeue_count>>
    OBVIOUS
  <2> HIDE DEF DequeueAvail
  <2> QED
    BY <2>1, <2>2, <2>3 DEF RInv, Copied
<1> QED
  BY <1>1, <1>2, <1>3, <1>4, <1>5 DEF Abstract!fifoVars

(* A copy extends what was taken by the next item of the queue. *)
LEMMA CopyNodeMaps ==
    ASSUME NoWrap, RInv, IInv', NEW c \in Consumers, CopyNode(c)
    PROVE  Stored' /\ Copied' /\ UNCHANGED Abstract!fifoVars
<1> USE DEF CopyNode, At, Goto, sendVars
<1>0. TypeOK /\ c \in Threads /\ Receiver(c) /\ pc[c] = "deq_copy" /\ Counts
  BY DEF RInv, IInv, Threads
<1>a. PICK at : pc' = [pc EXCEPT ![c] = at] /\ at \in {"deq_copy", "deq_commit"}
  OBVIOUS
<1>b. out' = [out EXCEPT ![c] = Append(out[c], node[Slot(cnt[c])])]
  OBVIOUS
<1>1. AbstractPhase' = AbstractPhase
  BY <1>0, <1>a, PhaseStays DEF PhaseOf
<1>c. \A d \in Consumers : d # c => out'[d] = out[d] /\ pc'[d] = pc[d]
  BY <1>0, <1>a, <1>b DEF TypeOK, Threads
<1>d. UNCHANGED <<node, op, enqueue_count, dequeue_count, offer, moved>>
  OBVIOUS
<1> HIDE DEF CopyNode
<1>2. AbstractWant' = AbstractWant /\ AbstractGot' = AbstractGot
  BY <1>0, <1>a, <1>c, <1>d, GotUntouched DEF AbstractWant, Amount
<1>3. Queued' = Queued
  BY <1>d DEF Queued
<1>4. Stored'
  BY <1>a, <1>d, StoredUntouched
<1>5. Copied'
  <2>1. out[c] \in Seq(Items) /\ out'[c] = Append(out[c], node[Slot(cnt[c])])
        /\ out'[c] \in Seq(Items)
    BY <1>0, <1>b DEF TypeOK, IInv
  <2>2. cnt[c] = dequeue_count + Len(out[c]) /\ dequeue_count \in Int
    BY <1>0 DEF Receiver, TypeOK
  <2>3. Len(out[c]) \in Nat /\ Len(out'[c]) = Len(out[c]) + 1
        /\ \A i \in 1..Len(out[c]) : out'[c][i] = out[c][i]
    BY <2>1
  <2>6. out'[c][Len(out[c]) + 1] = node[Slot(cnt[c])]
    BY <2>1
  <2>4. ASSUME NEW i \in 1..(Len(out[c]) + 1)
        PROVE  out'[c][i] = node[Slot(dequeue_count + i - 1)]
    <3>1. CASE i \in 1..Len(out[c])
      BY <1>0, <2>3, <3>1 DEF RInv, Copied
    <3>2. CASE i = Len(out[c]) + 1
      <4>1. dequeue_count + i - 1 = cnt[c]
        BY <2>2, <2>3, <3>2
      <4>2. out'[c][i] = node[Slot(cnt[c])]
        BY <2>6, <3>2
      <4> QED
        BY <4>1, <4>2, Zenon
    <3>3. i \in 1..Len(out[c]) \/ i = Len(out[c]) + 1
      BY <2>3
    <3> QED
      BY <3>1, <3>2, <3>3
  <2>5. \A d \in Consumers : pc[d] \in {"deq_copy", "deq_commit"} /\ d # c =>
          \A i \in 1..Len(out[d]) : out[d][i] = node[Slot(dequeue_count + i - 1)]
    BY DEF RInv, Copied
  <2> QED
    BY <1>c, <1>d, <2>3, <2>4, <2>5 DEF Copied
<1> QED
  BY <1>1, <1>2, <1>3, <1>4, <1>5, <1>d DEF Abstract!fifoVars

(* Committing takes the oldest items off the abstract queue, and they are  *)
(* what was copied out.                                                    *)
LEMMA CommitDequeueMaps ==
    ASSUME NoWrap, RInv, IInv', NEW c \in Consumers, CommitDequeue(c)
    PROVE  Stored' /\ Copied' /\ Abstract!Get(c)
<1> USE DEF CommitDequeue, At, Goto, sendVars
<1>0. TypeOK /\ Counts /\ Counts' /\ c \in Threads /\ Receiver(c) /\ pc[c] = "deq_commit"
  BY DEF RInv, IInv, Threads
<1>1. AbstractPhase[c] = "called" /\ AbstractPhase' = [AbstractPhase EXCEPT ![c] = "ok"]
  BY <1>0, PhaseMoves DEF PhaseOf
<1>2. op[c] \in {"one", "many"} /\ out[c] \in Seq(Items) /\ AbstractWant[c] = Amount(op[c])
  BY <1>0 DEF Receiver, TypeOK, AbstractWant
<1>3. /\ Amount(op[c]) \in 1..Batch /\ Len(out[c]) = Amount(op[c])
      /\ enqueue_count \in Nat /\ dequeue_count \in Nat
      /\ dequeue_count + Amount(op[c]) <= enqueue_count
      /\ cnt[c] = dequeue_count + Len(out[c])
  BY <1>0, <1>2, AmountFact, RingAssumption DEF Receiver, Counts
<1>4. dequeue_count' = dequeue_count + Amount(op[c])
  <2>1. dequeue_count + 1 \in 0..(Wide - 1)
    BY <1>0, <1>3, RingAssumption DEF NoWrap, Counts
  <2>2. (dequeue_count + 1) % Wide = dequeue_count + 1
    BY <2>1, ModSmall, RingAssumption
  <2> QED
    BY <1>2, <1>3, <2>2, AmountFact
<1>5. UNCHANGED <<node, offer, op, out, enqueue_count, moved>>
  OBVIOUS
<1>6. pc'[c] = "ok" /\ \A d \in Consumers : d # c => pc'[d] = pc[d]
  BY <1>0 DEF TypeOK, Threads
<1>7. \A d \in Consumers : d # c => pc[d] \notin {"deq_copy", "deq_commit", "ok"}
  <2>1. IInv
    BY DEF RInv
  <2> QED
    BY <1>0, <2>1, Alone DEF InDequeue, RecvPcs
<1>8. Stored'
  BY StoredUntouched
<1> HIDE DEF CommitDequeue
<1>9. Copied'
  BY <1>6, <1>7 DEF Copied
<1>10. AbstractWant' = AbstractWant
  BY <1>5 DEF AbstractWant, Amount
<1>11. AbstractGot' = [AbstractGot EXCEPT ![c] = out[c]]
  <2>1. \A d \in Consumers :
          (IF pc'[d] = "ok" THEN out'[d] ELSE <<>>)
            = (IF d = c THEN out[c] ELSE IF pc[d] = "ok" THEN out[d] ELSE <<>>)
    BY <1>5, <1>6
  <2> QED
    BY <2>1 DEF AbstractGot, At
<1> DEFINE k == Amount(op[c])
<1>12. Queued = Ring(enqueue_count, dequeue_count, node)
       /\ Queued' = Ring(enqueue_count, dequeue_count + k, node)
  BY <1>0, <1>4, <1>5, QueuedIsRing
<1>13. k \in Nat /\ enqueue_count \in Int /\ dequeue_count \in Int
       /\ k <= enqueue_count - dequeue_count /\ enqueue_count - dequeue_count \in Nat
       /\ dequeue_count + k - dequeue_count = k /\ Len(out[c]) = k
  BY <1>3
<1>17. AbstractWant[c] = k
  BY <1>2
<1> HIDE DEF k
<1>14. /\ Ring(enqueue_count, dequeue_count + k, node)
            = SubSeq(Queued, k + 1, Len(Queued))
       /\ Ring(dequeue_count + k, dequeue_count, node) = SubSeq(Queued, 1, k)
  <2>1. \A i \in Int : dequeue_count <= i /\ i < enqueue_count => node[Slot(i)] \in Items
    BY DEF RInv, IInv, Filled
  <2>2. /\ Ring(enqueue_count, dequeue_count + k, node)
            = SubSeq(Ring(enqueue_count, dequeue_count, node), k + 1,
                     Len(Ring(enqueue_count, dequeue_count, node)))
        /\ Ring(dequeue_count + k, dequeue_count, node)
            = SubSeq(Ring(enqueue_count, dequeue_count, node), 1, k)
    BY <1>13, <2>1, RingDrop
  <2> QED
    BY <1>12, <2>2, Zenon
<1>15. out[c] = Ring(dequeue_count + k, dequeue_count, node)
  <2>1. out[c] = [i \in 1..k |-> out[c][i]]
    BY <1>2, <1>13
  <2>2. \A i \in 1..k : out[c][i] = node[Slot(dequeue_count + i - 1)]
    BY <1>0, <1>13 DEF RInv, Copied
  <2>3. Ring(dequeue_count + k, dequeue_count, node)
          = [i \in 1..k |-> node[Slot(dequeue_count + i - 1)]]
    BY <1>13 DEF Ring
  <2> QED
    BY <2>1, <2>2, <2>3
<1>16. k <= Len(Queued)
  <2>1. Len(Queued) = enqueue_count - dequeue_count
    BY <1>12, <1>13, RingIsSeq
  <2> QED
    BY <1>13, <2>1
<1> QED
  BY <1>1, <1>5, <1>8, <1>9, <1>10, <1>11, <1>12, <1>14, <1>15, <1>16, <1>17
  DEF Abstract!Get, Abstract!Becomes

(* The call returns. *)
LEMMA ReturnDequeueMaps ==
    ASSUME NoWrap, RInv, IInv', NEW c \in Consumers, ReturnDequeue(c)
    PROVE  Stored' /\ Copied' /\ Abstract!ReturnDequeue(c)
<1> USE DEF ReturnDequeue, At, Goto, sendVars
<1>0. TypeOK /\ c \in Threads
  BY DEF RInv, IInv, Threads
<1>1. (AbstractPhase[c] = "ok" \/ AbstractPhase[c] = "failed")
      /\ AbstractPhase' = [AbstractPhase EXCEPT ![c] = "idle"]
  BY <1>0, PhaseMoves DEF PhaseOf
<1>2. /\ pc'[c] = "idle" /\ op'[c] = "none"
      /\ \A d \in Consumers : d # c =>
           pc'[d] = pc[d] /\ op'[d] = op[d] /\ out'[d] = out[d]
  BY <1>0 DEF TypeOK, Threads
<1>3. UNCHANGED <<node, offer, enqueue_count, dequeue_count, moved>>
  OBVIOUS
<1>4. Stored'
  BY StoredUntouched
<1> HIDE DEF ReturnDequeue
<1>5. Copied'
  BY <1>2, <1>3 DEF RInv, Copied
<1>6. Queued' = Queued
  BY <1>3 DEF Queued
<1>7. AbstractWant' = [AbstractWant EXCEPT ![c] = 0]
  <2>1. \A d \in Consumers : Amount(op'[d]) = IF d = c THEN 0 ELSE Amount(op[d])
    BY <1>2, AmountFact
  <2>2. AbstractWant' = [d \in Consumers |-> Amount(op'[d])]
    BY DEF AbstractWant, Amount
  <2> QED
    BY <2>1, <2>2 DEF AbstractWant
<1>8. AbstractGot' = [AbstractGot EXCEPT ![c] = <<>>]
  <2>1. \A d \in Consumers :
          (IF pc'[d] = "ok" THEN out'[d] ELSE <<>>)
            = (IF d = c THEN <<>> ELSE IF pc[d] = "ok" THEN out[d] ELSE <<>>)
    BY <1>2
  <2> QED
    BY <2>1 DEF AbstractGot, At
<1> QED
  BY <1>1, <1>3, <1>4, <1>5, <1>6, <1>7, <1>8 DEF Abstract!ReturnDequeue, Abstract!Becomes

-----------------------------------------------------------------------------
(* The initial ring is the empty queue. *)
LEMMA InitMaps ==
    ASSUME NoWrap, Init PROVE RInv /\ Abstract!Init
<1> USE DEF Init, At
<1>1. RInv
  BY InitIInv DEF RInv, Stored, Copied, Threads
<1>2. AbstractPhase = [t \in Threads |-> "idle"]
  BY DEF AbstractPhase, Phase
<1>3. AbstractWant = [c \in Consumers |-> 0]
  BY AmountFact DEF AbstractWant, Threads
<1>4. AbstractGot = [c \in Consumers |-> <<>>]
  BY DEF AbstractGot, Threads
<1>5. Queued = <<>>
  <2>1. (enqueue_count - dequeue_count) % Wide = 0
    BY RingAssumption
  <2> QED
    BY <2>1 DEF Queued
<1> QED
  BY <1>1, <1>2, <1>3, <1>4, <1>5 DEF Abstract!Init, Threads

(* Every step of the ring is a step of the queue or invisible to it, but   *)
(* for a refused dequeue of the Tile build.                                *)
LEMMA StepMaps ==
    ASSUME NoWrap, RInv, [Next]_vars
    PROVE  /\ RInv'
           /\ [Abstract!LosslessNext]_(Abstract!fifoVars)
           /\ ~Tilera => [Abstract!Next]_(Abstract!fifoVars)
<1>0. IInv'
  BY NextIInv DEF RInv
<1>1. CASE UNCHANGED vars
  <2> USE <1>1 DEF vars
  <2>1. Stored' /\ Copied'
    BY DEF RInv, Stored, Copied
  <2>2. Queued' = Queued
    BY DEF Queued
  <2>3. AbstractPhase' = AbstractPhase
    BY DEF AbstractPhase, Phase, At
  <2>4. AbstractWant' = AbstractWant /\ AbstractGot' = AbstractGot
    BY DEF AbstractWant, Amount, AbstractGot, At
  <2> QED
    BY <1>0, <2>1, <2>2, <2>3, <2>4 DEF RInv, Abstract!fifoVars
<1>2. ASSUME NEW p \in Producers, Send(p)
      PROVE  Stored' /\ Copied' /\ [Abstract!Next]_(Abstract!fifoVars)
  <2>1. CASE CallEnqueue(p)
    BY <1>0, <2>1, CallEnqueueMaps DEF Abstract!Next
  <2>2. CASE LockEnqueue(p)
    BY <1>0, <2>2, LockEnqueueMaps
  <2>3. CASE EnqueueFull(p)
    BY <1>0, <2>3, EnqueueFullMaps DEF Abstract!Next
  <2>4. CASE EnqueueRoom(p)
    BY <1>0, <2>4, EnqueueRoomMaps
  <2>5. CASE StoreNode(p)
    BY <1>0, <2>5, StoreNodeMaps
  <2>6. CASE PublishEnqueue(p)
    BY <1>0, <2>6, PublishEnqueueMaps DEF Abstract!Next
  <2>7. CASE ReturnEnqueue(p)
    BY <1>0, <2>7, ReturnEnqueueMaps DEF Abstract!Next
  <2> QED
    BY <1>2, <2>1, <2>2, <2>3, <2>4, <2>5, <2>6, <2>7 DEF Send
<1>3. ASSUME NEW c \in Consumers, Receive(c)
      PROVE  /\ Stored' /\ Copied'
             /\ [Abstract!LosslessNext]_(Abstract!fifoVars)
             /\ ~Tilera => [Abstract!Next]_(Abstract!fifoVars)
  <2> USE DEF Abstract!LosslessNext
  <2>1. CASE CallDequeue(c)
    BY <1>0, <2>1, CallDequeueMaps DEF Abstract!Next
  <2>2. CASE LockDequeue(c)
    BY <1>0, <2>2, LockDequeueMaps
  <2>3. CASE DequeueEmpty(c)
    BY <1>0, <2>3, DequeueEmptyMaps DEF Abstract!Next
  <2>4. CASE DequeueAvail(c)
    BY <1>0, <2>4, DequeueAvailMaps
  <2>5. CASE CopyNode(c)
    BY <1>0, <2>5, CopyNodeMaps
  <2>6. CASE CommitDequeue(c)
    BY <1>0, <2>6, CommitDequeueMaps DEF Abstract!Next
  <2>7. CASE ReturnDequeue(c)
    BY <1>0, <2>7, ReturnDequeueMaps DEF Abstract!Next
  <2> QED
    BY <1>3, <2>1, <2>2, <2>3, <2>4, <2>5, <2>6, <2>7 DEF Receive
<1> QED
  BY <1>0, <1>1, <1>2, <1>3 DEF Next, RInv, Abstract!LosslessNext

(* Every execution of INTEL_QUEUE's functions below the 32-bit limit is    *)
(* one of the bounded FIFO: a call takes effect at once, between its       *)
(* invocation and its return; nothing is lost, duplicated, reordered or    *)
(* torn; and -1 means full or short.                                       *)
THEOREM RingImplementsFifo ==
    NoWrap /\ ~Tilera => (Spec => ImplementsFifo)
<1> SUFFICES ASSUME NoWrap, ~Tilera PROVE Spec => ImplementsFifo
  OBVIOUS
<1>1. Init => RInv /\ Abstract!Init
  BY InitMaps
<1>2. RInv /\ [Next]_vars => RInv' /\ [Abstract!Next]_(Abstract!fifoVars)
  BY StepMaps
<1> QED
  BY <1>1, <1>2, PTL DEF Spec, ImplementsFifo, Abstract!Spec

(* On both builds, TMC_QUEUE included, every execution below the 32-bit    *)
(* limit is one of a FIFO whose dequeues may be refused at will: nothing   *)
(* is lost, duplicated, reordered or torn, the queue never takes more than *)
(* it holds, and a refused call changes nothing.                           *)
THEOREM RingLosesNothing ==
    NoWrap => (Spec => LosesNothing)
<1> SUFFICES ASSUME NoWrap PROVE Spec => LosesNothing
  OBVIOUS
<1>1. Init => RInv /\ Abstract!Init
  BY InitMaps
<1>2. RInv /\ [Next]_vars => RInv' /\ [Abstract!LosslessNext]_(Abstract!fifoVars)
  BY StepMaps
<1> QED
  BY <1>1, <1>2, PTL DEF Spec, LosesNothing, Abstract!LosslessSpec
=============================================================================
