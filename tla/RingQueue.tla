------------------------------ MODULE RingQueue ------------------------------
(***************************************************************************)
(* The ring buffer behind every queue and pool of the pipeline:            *)
(* INTEL_QUEUE (queue_intel.h) and TMC_QUEUE (queue_tilegx.h), one step    *)
(* per shared-memory access that another thread can observe.               *)
(*                                                                         *)
(* Senders serialise on enqueue_mutex and receivers on dequeue_mutex;      *)
(* nothing serialises a sender with a receiver, which meet only through    *)
(* enqueue_count and dequeue_count.  On the Tile build the flags           *)
(* TMC_QUEUE_SINGLE_SENDER and TMC_QUEUE_SINGLE_RECEIVER remove a mutex.   *)
(* Stores become visible in program order: the Intel build is -O0 on x86,  *)
(* the Tile build has __insn_mf() before the count is published.           *)
(*                                                                         *)
(* The fields length, total, item_size and the condition variables are     *)
(* left out: nothing reads them.                                           *)
(***************************************************************************)
EXTENDS Integers, Sequences

CONSTANTS
    Producers, Consumers,  \* threads that call the enqueue / dequeue functions
    Items,                 \* the pointers the queue carries
    Junk,                  \* what malloc leaves in a slot
    NoThread,              \* a free mutex
    Capacity,              \* 1 << LOG2_ENTRIES
    Batch,                 \* COUNT, the size of a *_multiple call
    Wide,                  \* 2^64, the modulus of the shared counts
    Narrow,                \* 2^32, the modulus of the batch functions' locals
    CountBound,            \* bound of the model on enqueue_count
    SendOps, RecvOps,      \* which functions this queue's users call
    EnqLocked, DeqLocked,  \* FALSE where the Tile flags drop the mutex
    Tilera                 \* TMC_QUEUE's dequeue_multiple or INTEL_QUEUE's

Threads == Producers \cup Consumers

ASSUME RingAssumption ==
    /\ Capacity \in Nat \ {0} /\ Batch \in 1..Capacity
    /\ Wide \in Nat \ {0} /\ Narrow \in 1..Wide /\ CountBound \in Nat
    /\ Producers \cap Consumers = {} /\ NoThread \notin Threads
    /\ SendOps \subseteq {"one", "many"} /\ RecvOps \subseteq {"one", "many"}
    /\ {EnqLocked, DeqLocked, Tilera} \subseteq BOOLEAN
    /\ EnqLocked \/ \A p, q \in Producers : p = q
    /\ DeqLocked \/ \A c, d \in Consumers : c = d

VARIABLES
    enqueue_count, dequeue_count,  \* uint64_t, owned by senders / receivers
    node,                          \* the ring
    enqueue_mutex, dequeue_mutex,  \* holder or NoThread
    pc,                            \* where each thread is in the function
    op,                            \* "one", "many", or "none" outside a call
    offer,                         \* data argument of a sender's call
    moved,                         \* how many of them the sender has stored
    cnt,                           \* the local enqueue_count / dequeue_count
    out                            \* what a receiver has copied out so far

vars == <<enqueue_count, dequeue_count, node, enqueue_mutex, dequeue_mutex,
          pc, op, offer, moved, cnt, out>>
sendVars == <<enqueue_count, enqueue_mutex, offer, moved>>
recvVars == <<dequeue_count, dequeue_mutex, out>>

Slots == 0..(Capacity - 1)
Slot(n) == n % Capacity
Amount(o) == CASE o = "one" -> 1 [] o = "many" -> Batch [] OTHER -> 0
Offers(o) == [1..Amount(o) -> Items]

(* The counts stay in their width, a thread is where its function can be,  *)
(* and a receiver never hands back the contents of a slot that no sender   *)
(* has filled: out holds Items only, though the ring starts as Junk.       *)
TypeOK ==
    /\ enqueue_count \in 0..(Wide - 1) /\ dequeue_count \in 0..(Wide - 1)
    /\ node \in [Slots -> Items \cup {Junk}]
    /\ enqueue_mutex \in Producers \cup {NoThread}
    /\ dequeue_mutex \in Consumers \cup {NoThread}
    /\ pc \in [Threads -> {"idle", "enq_lock", "enq_check", "enq_store",
                           "enq_publish", "deq_lock", "deq_check", "deq_copy",
                           "deq_commit", "ok", "fail"}]
    /\ op \in [Threads -> {"none", "one", "many"}]
    /\ offer \in [Producers -> Seq(Items)]
    /\ \A p \in Producers : Len(offer[p]) = Amount(op[p])
    /\ moved \in [Producers -> 0..Batch]
    /\ cnt \in [Threads -> 0..(Wide - 1)]
    /\ out \in [Consumers -> Seq(Items)]

Init ==
    /\ enqueue_count = 0 /\ dequeue_count = 0
    /\ node = [s \in Slots |-> Junk]
    /\ enqueue_mutex = NoThread /\ dequeue_mutex = NoThread
    /\ pc = [t \in Threads |-> "idle"]
    /\ op = [t \in Threads |-> "none"]
    /\ offer = [p \in Producers |-> <<>>]
    /\ moved = [p \in Producers |-> 0]
    /\ cnt = [t \in Threads |-> 0]
    /\ out = [c \in Consumers |-> <<>>]

At(t, here) == pc[t] = here
Goto(t, there) == pc' = [pc EXCEPT ![t] = there]

-----------------------------------------------------------------------------
(* NAME_enqueue and NAME_enqueue_multiple *)

CallEnqueue(p) ==
    /\ At(p, "idle")
    /\ Goto(p, IF EnqLocked THEN "enq_lock" ELSE "enq_check")
    /\ \E o \in SendOps :
         /\ op' = [op EXCEPT ![p] = o]
         /\ \E s \in Offers(o) : offer' = [offer EXCEPT ![p] = s]
    /\ UNCHANGED <<enqueue_count, enqueue_mutex, moved, node, cnt, recvVars>>

LockEnqueueWithoutWaiting(p) ==
    /\ At(p, "enq_lock")
    /\ enqueue_mutex' = p
    /\ Goto(p, "enq_check")
    /\ UNCHANGED <<enqueue_count, offer, moved, node, op, cnt, recvVars>>

LockEnqueue(p) ==
    /\ At(p, "enq_lock") /\ enqueue_mutex = NoThread
    /\ enqueue_mutex' = p
    /\ Goto(p, "enq_check")
    /\ UNCHANGED <<enqueue_count, offer, moved, node, op, cnt, recvVars>>

(* The test the two functions make before they store anything. *)
LacksRoom(p) ==
    IF op[p] = "one"
    THEN (enqueue_count - dequeue_count) % Wide >= Capacity
    ELSE (enqueue_count + Batch - dequeue_count) % Wide > Capacity

EnqueueFull(p) ==
    /\ At(p, "enq_check") /\ LacksRoom(p)
    /\ Goto(p, "fail")
    /\ UNCHANGED <<sendVars, node, op, cnt, recvVars>>

(* unsigned int enqueue_count = queue->enqueue_count, in the batch function *)
LocalCount(t, shared) == IF op[t] = "many" THEN shared % Narrow ELSE shared

EnqueueRoom(p) ==
    /\ At(p, "enq_check") /\ ~LacksRoom(p)
    /\ enqueue_count + Amount(op[p]) <= CountBound
    /\ cnt' = [cnt EXCEPT ![p] = LocalCount(p, enqueue_count)]
    /\ Goto(p, "enq_store")
    /\ UNCHANGED <<sendVars, node, op, recvVars>>

StoreNode(p) ==
    /\ At(p, "enq_store")
    /\ node' = [node EXCEPT ![Slot(cnt[p])] = offer[p][moved[p] + 1]]
    /\ moved' = [moved EXCEPT ![p] = @ + 1]
    /\ cnt' = [cnt EXCEPT ![p] = LocalCount(p, (@ + 1) % Wide)]
    /\ Goto(p, IF moved[p] + 1 < Amount(op[p]) THEN "enq_store" ELSE "enq_publish")
    /\ UNCHANGED <<enqueue_count, enqueue_mutex, offer, op, recvVars>>

(* ++queue->enqueue_count, or the assignment of the batch function's local *)
PublishEnqueue(p) ==
    /\ At(p, "enq_publish")
    /\ enqueue_count' = IF op[p] = "one" THEN (enqueue_count + 1) % Wide ELSE cnt[p]
    /\ Goto(p, "ok")
    /\ UNCHANGED <<enqueue_mutex, offer, moved, node, op, cnt, recvVars>>

ReturnEnqueue(p) ==
    /\ At(p, "ok") \/ At(p, "fail")
    /\ enqueue_mutex' = IF EnqLocked THEN NoThread ELSE enqueue_mutex
    /\ Goto(p, "idle")
    /\ op' = [op EXCEPT ![p] = "none"]
    /\ offer' = [offer EXCEPT ![p] = <<>>]
    /\ moved' = [moved EXCEPT ![p] = 0]
    /\ cnt' = [cnt EXCEPT ![p] = 0]
    /\ UNCHANGED <<enqueue_count, node, recvVars>>

-----------------------------------------------------------------------------
(* NAME_dequeue and NAME_dequeue_multiple *)

CallDequeue(c) ==
    /\ At(c, "idle")
    /\ Goto(c, IF DeqLocked THEN "deq_lock" ELSE "deq_check")
    /\ \E o \in RecvOps : op' = [op EXCEPT ![c] = o]
    /\ UNCHANGED <<sendVars, node, cnt, recvVars>>

LockDequeue(c) ==
    /\ At(c, "deq_lock") /\ dequeue_mutex = NoThread
    /\ dequeue_mutex' = c
    /\ Goto(c, "deq_check")
    /\ UNCHANGED <<sendVars, node, op, cnt, dequeue_count, out>>

LacksItemsOffByOne(c) ==
    IF op[c] = "one" THEN enqueue_count = dequeue_count
    ELSE (dequeue_count + Batch - 1) % Wide > enqueue_count

(* TMC_QUEUE refuses a batch that would take everything; INTEL_QUEUE does not. *)
LacksItems(c) ==
    IF op[c] = "one" THEN enqueue_count = dequeue_count
    ELSE IF Tilera THEN enqueue_count <= (dequeue_count + Batch) % Wide
    ELSE (dequeue_count + Batch) % Wide > enqueue_count

DequeueEmpty(c) ==
    /\ At(c, "deq_check") /\ LacksItems(c)
    /\ Goto(c, "fail")
    /\ UNCHANGED <<sendVars, node, op, cnt, recvVars>>

DequeueAvail(c) ==
    /\ At(c, "deq_check") /\ ~LacksItems(c)
    /\ cnt' = [cnt EXCEPT ![c] = LocalCount(c, dequeue_count)]
    /\ Goto(c, "deq_copy")
    /\ UNCHANGED <<sendVars, node, op, recvVars>>

CopyNode(c) ==
    /\ At(c, "deq_copy")
    /\ out' = [out EXCEPT ![c] = Append(@, node[Slot(cnt[c])])]
    /\ cnt' = [cnt EXCEPT ![c] = LocalCount(c, (@ + 1) % Wide)]
    /\ Goto(c, IF Len(out[c]) + 1 < Amount(op[c]) THEN "deq_copy" ELSE "deq_commit")
    /\ UNCHANGED <<sendVars, node, op, dequeue_count, dequeue_mutex>>

(* ++queue->dequeue_count, or the assignment of the batch function's local *)
CommitDequeue(c) ==
    /\ At(c, "deq_commit")
    /\ dequeue_count' = IF op[c] = "one" THEN (dequeue_count + 1) % Wide ELSE cnt[c]
    /\ Goto(c, "ok")
    /\ UNCHANGED <<sendVars, node, op, cnt, dequeue_mutex, out>>

ReturnDequeue(c) ==
    /\ At(c, "ok") \/ At(c, "fail")
    /\ dequeue_mutex' = IF DeqLocked THEN NoThread ELSE dequeue_mutex
    /\ Goto(c, "idle")
    /\ op' = [op EXCEPT ![c] = "none"]
    /\ cnt' = [cnt EXCEPT ![c] = 0]
    /\ out' = [out EXCEPT ![c] = <<>>]
    /\ UNCHANGED <<sendVars, node, dequeue_count>>

-----------------------------------------------------------------------------
Send(p) ==
    \/ CallEnqueue(p) \/ LockEnqueue(p) \/ EnqueueFull(p) \/ EnqueueRoom(p)
    \/ StoreNode(p) \/ PublishEnqueue(p) \/ ReturnEnqueue(p)

Receive(c) ==
    \/ CallDequeue(c) \/ LockDequeue(c) \/ DequeueEmpty(c) \/ DequeueAvail(c)
    \/ CopyNode(c) \/ CommitDequeue(c) \/ ReturnDequeue(c)

Next ==
    \/ \E p \in Producers : Send(p)
    \/ \E c \in Consumers : Receive(c)

Spec == Init /\ [][Next]_vars

-----------------------------------------------------------------------------
(* Two threads at their access to node[], one of them writing, are never   *)
(* at the same slot: neither two senders (enqueue_mutex, or a single       *)
(* sender) nor a sender and a receiver, which no mutex separates.          *)
NoSlotRace ==
    \A p \in Producers, t \in Threads :
      (At(p, "enq_store") /\ (At(t, "enq_store") \/ At(t, "deq_copy")) /\ p # t)
        => Slot(cnt[p]) # Slot(cnt[t])

(* The receiver's count never overtakes the sender's, and never falls      *)
(* behind it by more than the ring holds, even while both sides are        *)
(* halfway through a batch that they checked against an older count.       *)
CountersOrdered ==
    /\ dequeue_count <= enqueue_count
    /\ enqueue_count <= dequeue_count + Capacity

(* What the ring stands for: the items published and not yet released. *)
Queued ==
    [i \in 1..((enqueue_count - dequeue_count) % Wide) |->
        node[Slot(dequeue_count + i - 1)]]

Phase(t) ==
    CASE At(t, "idle") -> "idle"
      [] At(t, "ok") -> "ok"
      [] At(t, "fail") -> "failed"
      [] OTHER -> "called"

AbstractPhase == [t \in Threads |-> Phase(t)]
AbstractWant == [c \in Consumers |-> Amount(op[c])]
AbstractGot == [c \in Consumers |-> IF At(c, "ok") THEN out[c] ELSE <<>>]

Abstract == INSTANCE Fifo WITH
    content <- Queued, phase <- AbstractPhase, want <- AbstractWant,
    got <- AbstractGot

(* Every call of the four functions takes effect atomically on a FIFO, at  *)
(* the instant it publishes or releases its items: nothing is lost,        *)
(* duplicated, reordered or torn, a batch enters and leaves as a whole,    *)
(* and -1 is returned only for a full or a short queue ("return -1 if the  *)
(* queue is full or empty, respectively", queue_tilegx.h:54).  It holds of *)
(* INTEL_QUEUE; the batch dequeue of TMC_QUEUE breaks its last clause.     *)
ImplementsFifo == Abstract!Spec

(* The same without the last clause for the receivers: however often a     *)
(* dequeue is refused, what was enqueued is handed out once, in order and  *)
(* in whole batches, and a refused call leaves the queue as it was.        *)
LosesNothing == Abstract!LosslessSpec
=============================================================================
