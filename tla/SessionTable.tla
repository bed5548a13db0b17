---------------------------- MODULE SessionTable ----------------------------
(***************************************************************************)
(* The session table: packet_manager_loop and hash_add_item (one thread    *)
(* per manager), the cleaner thread process_all_session that walks every   *)
(* bucket of every manager, and the per-manager pool both give sessions    *)
(* back to.  Each step is what a thread does between two points where      *)
(* another thread can interfere; inside a bucket's lock only the session   *)
(* pool is shared.                                                         *)
(*                                                                         *)
(* A bucket's list and a pool are sets (RingQueue shows the pool is FIFO;  *)
(* no property depends on the order).  The cycle counter appears as the    *)
(* age of a session, its distance from last_time, saturating just above    *)
(* destory_time.                                                           *)
(***************************************************************************)
EXTENDS Integers, Sequences, FiniteSets

CONSTANTS
    NumManagers, NumBuckets,   \* manager_nums, ht->num_buckets
    Sessions, Home,            \* the struct blist's, and whose pool they start in
    Keys, ManagerOf, BucketOf, \* 5-tuples, hash_index and MAKE_HASH of each
    Lengths, BufferSize,       \* payload lengths, manager_buffer_size
    DestroyTime,               \* destory_time * 1000UL * mhz, in ticks
    Flows,                     \* how many flow items (and packets) circulate
    StartDeep,                 \* the values of pipe_depth > 4 at start-up
    NoThread, NoSession, NoFlow

Managers == 1..NumManagers
Buckets == 1..NumBuckets
Cells == Managers \X Buckets
Cleaner == 0
Threads == Managers \cup {Cleaner}
FlowItems == [key : Keys, payload_len : Lengths]

ASSUME TableAssumption ==
    /\ NumManagers \in Nat \ {0} /\ NumBuckets \in Nat \ {0}
    /\ Home \in [Sessions -> Managers]
    /\ ManagerOf \in [Keys -> Managers] /\ BucketOf \in [Keys -> Buckets]
    /\ BufferSize \in Nat /\ Lengths \subseteq Nat
    /\ DestroyTime \in Nat /\ Flows \in Nat /\ StartDeep \subseteq BOOLEAN
    /\ NoThread \notin Threads /\ NoSession \notin Sessions /\ NoFlow \notin FlowItems

VARIABLES
    session_pool,   \* per manager: the free sessions
    list, count,    \* per bucket: its sessions and bucket->count
    lock,           \* per bucket: the holder of bucket->lock
    item,           \* per session: what make_new_session filled in
    queue,          \* per manager: flows the parsers sent
    flow,           \* per manager: the flow in hand
    hand,           \* per thread: a session that is in neither list nor pool
    at,             \* per thread: the bucket it works on
    pc,             \* per thread: where it is
    doomed,         \* the cleaner: sessions of its bucket older than current_time allows
    free_packets, free_flows,  \* what has been returned to the pools upstream
    deep            \* global_config->pipe_depth > 4, reloaded at run time

vars == <<session_pool, list, count, lock, item, queue, flow, hand, at, pc,
          doomed, free_packets, free_flows, deep>>

Blank == [key |-> NoFlow, cur_len |-> 0, age |-> 0, pool |-> 0]
Live(s) == item[s] # Blank

(* Everything is where it can be.  An append never reaches the end of the  *)
(* buffer; past it gets only a first payload, which make_new_session       *)
(* copies whatever its length.                                             *)
TypeOK ==
    /\ session_pool \in [Managers -> SUBSET Sessions]
    /\ list \in [Cells -> SUBSET Sessions] /\ count \in [Cells -> Nat]
    /\ lock \in [Cells -> Threads \cup {NoThread}]
    /\ item \in [Sessions ->
         [key : Keys, cur_len : 0..(BufferSize - 1) \cup Lengths, age : 0..(DestroyTime + 1), pool : Managers]
           \cup {Blank}]
    /\ queue \in [Managers -> Seq(FlowItems)]
    /\ flow \in [Managers -> FlowItems \cup {NoFlow}]
    /\ hand \in [Threads -> Sessions \cup {NoSession}]
    /\ at \in [Threads -> Cells]
    /\ pc \in [Threads -> {"wait", "lock", "find", "give", "count", "packet", "flow",
                           "link", "unlock", "absent", "rest", "scan"}]
    /\ doomed \in SUBSET Sessions
    /\ free_packets \in 0..Flows /\ free_flows \in 0..Flows /\ deep \in BOOLEAN

(* init_manager_group creates the cleaner only if the pipe is deep by then. *)
Init ==
    /\ session_pool = [m \in Managers |-> {s \in Sessions : Home[s] = m}]
    /\ list = [b \in Cells |-> {}] /\ count = [b \in Cells |-> 0]
    /\ lock = [b \in Cells |-> NoThread]
    /\ item = [s \in Sessions |-> Blank]
    /\ queue = [m \in Managers |-> <<>>]
    /\ flow = [m \in Managers |-> NoFlow]
    /\ hand = [t \in Threads |-> NoSession]
    /\ at = [t \in Threads |-> <<1, 1>>]
    /\ deep \in StartDeep
    /\ pc = [t \in Threads |->
               IF t # Cleaner THEN "wait" ELSE IF deep THEN "rest" ELSE "absent"]
    /\ doomed = {}
    /\ free_packets = Flows /\ free_flows = Flows

Step(t, from, to) == pc[t] = from /\ pc' = [pc EXCEPT ![t] = to]
Free(b) == lock[b] = NoThread
Acquire(t, b) == Free(b) /\ lock' = [lock EXCEPT ![b] = t]
Release(b) == lock' = [lock EXCEPT ![b] = NoThread]

-----------------------------------------------------------------------------
(* The surroundings of the table. *)

(* A parser hands a flow, with the packet it describes, to the manager its *)
(* hash_index selects.                                                     *)
Arrive(k, n) ==
    /\ free_packets > 0 /\ free_flows > 0
    /\ free_packets' = free_packets - 1 /\ free_flows' = free_flows - 1
    /\ queue' = [queue EXCEPT ![ManagerOf[k]] =
                   Append(@, [key |-> k, payload_len |-> n])]
    /\ UNCHANGED <<session_pool, list, count, lock, item, flow, hand, at, pc, doomed, deep>>

(* GET_CYCLE_COUNT moves on. *)
Tick ==
    /\ item' = [s \in Sessions |->
         IF Live(s) /\ item[s].age <= DestroyTime
         THEN [item[s] EXCEPT !.age = @ + 1] ELSE item[s]]
    /\ item' # item
    /\ UNCHANGED <<session_pool, list, count, lock, queue, flow, hand, at, pc, doomed,
                   free_packets, free_flows, deep>>

(* read_config_simple takes a new PIPE_DEPTH from the configuration file. *)
Reload ==
    /\ deep' = ~deep
    /\ UNCHANGED <<session_pool, list, count, lock, item, queue, flow, hand, at, pc,
                   doomed, free_packets, free_flows>>

-----------------------------------------------------------------------------
(* packet_manager_loop and hash_add_item *)

TakeFlow(m) ==
    /\ queue[m] # <<>>
    /\ Step(m, "wait", IF deep THEN "lock" ELSE "packet")
    /\ flow' = [flow EXCEPT ![m] = Head(queue[m])]
    /\ queue' = [queue EXCEPT ![m] = Tail(@)]
    /\ at' = [at EXCEPT ![m] = <<m, BucketOf[Head(queue[m]).key]>>]
    /\ UNCHANGED <<session_pool, list, count, lock, item, hand, doomed,
                   free_packets, free_flows, deep>>

LockBucketWithoutWaiting(m) ==
    /\ Step(m, "lock", "find")
    /\ lock' = [lock EXCEPT ![at[m]] = m]
    /\ UNCHANGED <<session_pool, list, count, item, queue, flow, hand, at, doomed,
                   free_packets, free_flows, deep>>

LockBucket(m) ==
    /\ Step(m, "lock", "find")
    /\ Acquire(m, at[m])
    /\ UNCHANGED <<session_pool, list, count, item, queue, flow, hand, at, doomed,
                   free_packets, free_flows, deep>>

FoundUnlessExpired(m) ==
    {s \in list[at[m]] : item[s].key = flow[m].key /\ item[s].age <= DestroyTime}

(* find_list with compare_session *)
Found(m) == {s \in list[at[m]] : item[s].key = flow[m].key}

(* Not found: spin, with the bucket locked, until the pool yields a        *)
(* session.  The length of the payload is not compared with the buffer's.  *)
NewSession(m) ==
    /\ Step(m, "find", "packet")
    /\ Found(m) = {}
    /\ \E s \in session_pool[m] :
         /\ session_pool' = [session_pool EXCEPT ![m] = @ \ {s}]
         /\ hand' = [hand EXCEPT ![m] = s]
         /\ item' = [item EXCEPT ![s] =
              [key |-> flow[m].key, cur_len |-> flow[m].payload_len, age |-> 0, pool |-> m]]
    /\ UNCHANGED <<list, count, lock, queue, flow, at, doomed, free_packets, free_flows, deep>>

FitsForgettingPayload(s, m) == item[s].cur_len < BufferSize

Fits(s, m) == item[s].cur_len + flow[m].payload_len < BufferSize

AppendPayload(m) ==
    /\ Step(m, "find", "packet")
    /\ \E s \in Found(m) :
         /\ Fits(s, m)
         /\ item' = [item EXCEPT ![s].cur_len = @ + flow[m].payload_len, ![s].age = 0]
    /\ UNCHANGED <<session_pool, list, count, lock, queue, flow, hand, at, doomed,
                   free_packets, free_flows, deep>>

(* The buffer is full: the CRC is taken and the session leaves the table. *)
CloseSession(m) ==
    /\ Step(m, "find", "give")
    /\ \E s \in Found(m) :
         /\ ~Fits(s, m)
         /\ list' = [list EXCEPT ![at[m]] = @ \ {s}]
         /\ hand' = [hand EXCEPT ![m] = s]
    /\ UNCHANGED <<session_pool, count, lock, item, queue, flow, at, doomed,
                   free_packets, free_flows, deep>>

RecyclePacket(m) ==
    /\ Step(m, "packet", "flow")
    /\ free_packets' = free_packets + 1
    /\ UNCHANGED <<session_pool, list, count, lock, item, queue, flow, hand, at, doomed,
                   free_flows, deep>>

RecycleFlow(m) ==
    /\ Step(m, "flow", IF hand[m] # NoSession THEN "link"
                       ELSE IF lock[at[m]] = m THEN "unlock" ELSE "wait")
    /\ free_flows' = free_flows + 1
    /\ flow' = [flow EXCEPT ![m] = NoFlow]
    /\ UNCHANGED <<session_pool, list, count, lock, item, queue, hand, at, doomed,
                   free_packets, deep>>

LinkSession(m) ==
    /\ Step(m, "link", "unlock")
    /\ list' = [list EXCEPT ![at[m]] = @ \cup {hand[m]}]
    /\ count' = [count EXCEPT ![at[m]] = @ + 1]
    /\ hand' = [hand EXCEPT ![m] = NoSession]
    /\ UNCHANGED <<session_pool, lock, item, queue, flow, at, doomed,
                   free_packets, free_flows, deep>>

UnlockBucket(m) ==
    /\ Step(m, "unlock", "wait")
    /\ Release(at[m])
    /\ UNCHANGED <<session_pool, list, count, item, queue, flow, hand, at, doomed,
                   free_packets, free_flows, deep>>

-----------------------------------------------------------------------------
(* Shared by the two places that delete: mwsr_mpool_enqueue(item.pool), then *)
(* --bucket->count.  A pooled session's fields are dead and are blanked.     *)

GiveBack(t) ==
    /\ Step(t, "give", "count")
    /\ session_pool' = [session_pool EXCEPT ![item[hand[t]].pool] = @ \cup {hand[t]}]
    /\ item' = [item EXCEPT ![hand[t]] = Blank]
    /\ hand' = [hand EXCEPT ![t] = NoSession]
    /\ UNCHANGED <<list, count, lock, queue, flow, at, doomed, free_packets, free_flows, deep>>

DropCountAndForgetFlow(t) ==
    /\ Step(t, "count", IF t = Cleaner THEN "scan" ELSE "unlock")
    /\ count' = [count EXCEPT ![at[t]] = @ - 1]
    /\ UNCHANGED <<session_pool, list, lock, item, queue, flow, hand, at, doomed,
                   free_packets, free_flows, deep>>

DropCount(t) ==
    /\ Step(t, "count", IF t = Cleaner THEN "scan" ELSE "packet")
    /\ count' = [count EXCEPT ![at[t]] = @ - 1]
    /\ UNCHANGED <<session_pool, list, lock, item, queue, flow, hand, at, doomed,
                   free_packets, free_flows, deep>>

-----------------------------------------------------------------------------
(* process_all_session, hash_travel_delete and delete_session *)

LastCell == <<NumManagers, NumBuckets>>
After(b) == IF b[2] < NumBuckets THEN <<b[1], b[2] + 1>> ELSE <<b[1] + 1, 1>>

(* The interval between two passes is over. *)
StartPass ==
    /\ Step(Cleaner, "rest", "lock")
    /\ at' = [at EXCEPT ![Cleaner] = <<1, 1>>]
    /\ UNCHANGED <<session_pool, list, count, lock, item, queue, flow, hand, doomed,
                   free_packets, free_flows, deep>>

(* current_time is sampled once, after the lock is taken. *)
CleanerLock ==
    /\ Step(Cleaner, "lock", "scan")
    /\ Acquire(Cleaner, at[Cleaner])
    /\ doomed' = {s \in list[at[Cleaner]] : item[s].age > DestroyTime}
    /\ UNCHANGED <<session_pool, list, count, item, queue, flow, hand, at,
                   free_packets, free_flows, deep>>

DeleteWithoutUnlinking ==
    /\ Step(Cleaner, "scan", "give")
    /\ \E s \in doomed :
         /\ doomed' = doomed \ {s}
         /\ hand' = [hand EXCEPT ![Cleaner] = s]
    /\ UNCHANGED <<session_pool, list, count, lock, item, queue, flow, at,
                   free_packets, free_flows, deep>>

DeleteSession ==
    /\ Step(Cleaner, "scan", "give")
    /\ \E s \in doomed :
         /\ list' = [list EXCEPT ![at[Cleaner]] = @ \ {s}]
         /\ doomed' = doomed \ {s}
         /\ hand' = [hand EXCEPT ![Cleaner] = s]
    /\ UNCHANGED <<session_pool, count, lock, item, queue, flow, at,
                   free_packets, free_flows, deep>>

CleanerUnlockStopsEarly ==
    /\ doomed = {}
    /\ Step(Cleaner, "scan", IF After(at[Cleaner]) = LastCell THEN "rest" ELSE "lock")
    /\ Release(at[Cleaner])
    /\ at' = [at EXCEPT ![Cleaner] = IF @ = LastCell THEN @ ELSE After(@)]
    /\ UNCHANGED <<session_pool, list, count, item, queue, flow, hand, doomed,
                   free_packets, free_flows, deep>>

CleanerUnlockNot ==
    /\ doomed = {}
    /\ Step(Cleaner, "scan", IF at[Cleaner] = LastCell THEN "rest" ELSE "lock")
    /\ at' = [at EXCEPT ![Cleaner] = IF @ = LastCell THEN @ ELSE After(@)]
    /\ UNCHANGED <<session_pool, list, count, lock, item, queue, flow, hand, doomed,
                   free_packets, free_flows, deep>>

CleanerUnlock ==
    /\ doomed = {}
    /\ Step(Cleaner, "scan", IF at[Cleaner] = LastCell THEN "rest" ELSE "lock")
    /\ Release(at[Cleaner])
    /\ at' = [at EXCEPT ![Cleaner] = IF @ = LastCell THEN @ ELSE After(@)]
    /\ UNCHANGED <<session_pool, list, count, item, queue, flow, hand, doomed,
                   free_packets, free_flows, deep>>

-----------------------------------------------------------------------------
ManagerStep(m) ==
    \/ TakeFlow(m) \/ NewSession(m) \/ AppendPayload(m) \/ CloseSession(m)
    \/ GiveBack(m) \/ DropCount(m) \/ RecyclePacket(m) \/ RecycleFlow(m)
    \/ LinkSession(m) \/ UnlockBucket(m)

CleanerStep ==
    StartPass \/ DeleteSession \/ GiveBack(Cleaner) \/ DropCount(Cleaner) \/ CleanerUnlock

Next ==
    \/ \E k \in Keys, n \in Lengths : Arrive(k, n)
    \/ Tick
    \/ Reload
    \/ \E m \in Managers : LockBucket(m) \/ ManagerStep(m)
    \/ CleanerLock \/ CleanerStep

Spec == Init /\ [][Next]_vars

(* Threads are scheduled and time passes; a thread waiting for a mutex that *)
(* is released again and again gets it eventually.                          *)
FairSpec ==
    /\ Spec
    /\ WF_vars(Tick)
    /\ \A m \in Managers : WF_vars(ManagerStep(m)) /\ SF_vars(LockBucket(m))
    /\ WF_vars(CleanerStep) /\ SF_vars(CleanerLock)

-----------------------------------------------------------------------------
(* A session is in exactly one place (the pool it came from, one bucket, or *)
(* one thread's hand), so no pool can overflow and no session is lost or   *)
(* handed out twice; and bucket->count is the length of the list whenever  *)
(* the lock is free, so it never wraps below 0.                            *)
SessionsConserved ==
    /\ \A s \in Sessions :
         Cardinality({m \in Managers : s \in session_pool[m]})
           + Cardinality({b \in Cells : s \in list[b]})
           + Cardinality({t \in Threads : hand[t] = s}) = 1
    /\ \A b \in Cells : Free(b) => count[b] = Cardinality(list[b])

(* A 5-tuple has one session, in the manager and bucket that its hashes    *)
(* select: what follows of the flow finds it, also while the cleaner works *)
(* on the same bucket.                                                     *)
OneSessionPerKey ==
    \A b \in Cells : \A s \in list[b] :
      /\ b = <<ManagerOf[item[s].key], BucketOf[item[s].key]>>
      /\ item[s].pool = b[1] /\ Home[s] = b[1]
      /\ \A u \in list[b] : item[u].key = item[s].key => u = s

(* Between the moment current_time is read and the deletion nobody touches *)
(* the session: what the cleaner deletes has been idle for destory_time.   *)
OnlyIdleDeleted ==
    \A s \in doomed : s \in list[at[Cleaner]] /\ item[s].age > DestroyTime

(* The flows that are on their way: <<m, i>> is the i-th in the queue of    *)
(* manager m, <<m, 0>> the one in its hand.                                 *)
Queued(q) == UNION {{m} \X DOMAIN q[m] : m \in Managers}
Held(f) == {<<m, 0>> : m \in {l \in Managers : f[l] # NoFlow}}
Underway == Queued(queue) \cup Held(flow)

(* Every flow and every packet a parser hands over is free, queued or in a *)
(* manager's hand.                                                         *)
FlowsConserved ==
    /\ free_flows + Cardinality(Underway) = Flows
    /\ free_packets = free_flows + Cardinality({m \in Managers : pc[m] = "flow"})

(* A session that is older than destory_time goes back to its pool or is   *)
(* used again.                                                             *)
IdleSessionsDestroyed ==
    \A s \in Sessions :
      (Live(s) /\ item[s].age > DestroyTime) ~> (~Live(s) \/ item[s].age = 0)

(* A manager that has taken a flow gives it back: neither the bucket lock, *)
(* the cleaner nor the session pool holds it up for ever.                  *)
FlowsHandled == \A m \in Managers : (flow[m] # NoFlow) ~> (flow[m] = NoFlow)
=============================================================================
