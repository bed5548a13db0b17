----------------------------- MODULE BucketList -----------------------------
(***************************************************************************)
(* The lists behind SessionTable's buckets: the circular doubly linked     *)
(* lists of list.h with the pointers that find_list and delete_session     *)
(* keep in them, one manager's hash table, and the manager and the cleaner *)
(* that work on it.                                                        *)
(*                                                                         *)
(* A session unlinked by the cleaner can be taken from the pool by the     *)
(* manager and linked into another bucket while the cleaner is still on    *)
(* its way through the first one.                                          *)
(***************************************************************************)
EXTENDS Integers, Sequences, FiniteSets

CONSTANTS
    NumBuckets,       \* ht->num_buckets; a bucket stands for its list head
    Nodes,            \* the struct blist's of the manager's pool
    Keys, BucketOf,   \* 5-tuples and where they hash to
    NULL, NoKey, NoThread

Buckets == 1..NumBuckets
Cells == Buckets \cup Nodes
Manager == "manager"
Cleaner == "cleaner"
Threads == {Manager, Cleaner}

ASSUME BucketAssumption ==
    /\ NumBuckets \in Nat \ {0} /\ IsFiniteSet(Nodes) /\ BucketOf \in [Keys -> Buckets]
    /\ NULL \notin Cells /\ Nodes \cap Buckets = {} /\ NoKey \notin Keys /\ NoThread \notin Threads

VARIABLES
    next, prev,      \* per list head: the two pointers
    key,             \* per node: what make_new_session wrote
    idle,            \* nodes untouched for longer than destory_time
    session_pool,    \* the free nodes
    count, lock,     \* per bucket
    pc, at,          \* per thread: where it is, and in which bucket
    p,               \* per thread: the cursor of its loop
    n,               \* the cleaner: list_for_each_safe's second cursor
    flow,            \* the key of the manager's flow
    doomed,          \* the cleaner: nodes idle at current_time
    start, seen      \* history: the bucket when the cleaner locked it, what it has visited

lists == <<next, prev, key, session_pool>>
cleaning == <<n, doomed, start, seen>>
vars == <<next, prev, key, idle, session_pool, count, lock, pc, at, p, n, flow, doomed,
          start, seen>>

(* A walk along nx to the head h, one node further. *)
Onward(nx, h, w) ==
    IF w.to \in {h, NULL} THEN w ELSE [to |-> nx[w.to], nodes |-> Append(w.nodes, w.to)]

(* The nodes from x up to the head h, along nx (at most all of them). *)
Route(nx, x, h) ==
    LET walk[k \in 0..Cardinality(Nodes)] ==
          IF k = 0 THEN [to |-> x, nodes |-> <<>>] ELSE Onward(nx, h, walk[k - 1])
    IN  walk[Cardinality(Nodes)].nodes

From(x, h) == Route(next, x, h)
Chain(b) == From(next[b], b)
In(b) == LET c == Chain(b) IN {c[i] : i \in DOMAIN c}
Linked == UNION {In(b) : b \in Buckets}

TypeOK ==
    /\ next \in [Cells -> Cells \cup {NULL}] /\ prev \in [Cells -> Cells \cup {NULL}]
    /\ key \in [Nodes -> Keys \cup {NoKey}] /\ flow \in Keys \cup {NoKey}
    /\ idle \subseteq Nodes /\ session_pool \subseteq Nodes /\ doomed \subseteq Nodes
    /\ count \in [Buckets -> 0..Cardinality(Nodes)]
    /\ lock \in [Buckets -> Threads \cup {NoThread}]
    /\ pc \in [Threads -> {"wait", "lock", "find", "take", "found", "link", "linked", "give", "count",
                           "unlock", "visit", "advance"}]
    /\ at \in [Threads -> Buckets] /\ p \in [Threads -> Cells] /\ n \in Cells
    /\ start \in Seq(Nodes) /\ seen \in Seq(Nodes)

(* hash_create and init_signle_manager; what the nodes contain before      *)
(* their first use is never read.                                          *)
Init ==
    /\ next = [x \in Cells |-> IF x \in Buckets THEN x ELSE NULL] /\ prev = next
    /\ key = [x \in Nodes |-> NoKey] /\ flow = NoKey
    /\ idle = {} /\ session_pool = Nodes /\ doomed = {}
    /\ count = [b \in Buckets |-> 0] /\ lock = [b \in Buckets |-> NoThread]
    /\ pc = [t \in Threads |-> "wait"] /\ at = [t \in Threads |-> 1]
    /\ p = [t \in Threads |-> 1] /\ n = 1
    /\ start = <<>> /\ seen = <<>>

Step(t, from, to) == pc[t] = from /\ pc' = [pc EXCEPT ![t] = to]

-----------------------------------------------------------------------------
(* list.h *)

(* INIT_LIST_HEAD(x), then __list_add(x, head->prev, head), write by write. *)
list_add_tail(x, head) ==
    LET before == prev[head] IN
    /\ prev' = [prev EXCEPT ![head] = x, ![x] = before]
    /\ next' = [next EXCEPT ![x] = head, ![before] = x]

ListDelForgettingPrev(x) ==
    /\ next' = [next EXCEPT ![prev[x]] = next[x], ![x] = NULL]
    /\ prev' = [prev EXCEPT ![x] = NULL]

(* __list_del, then both pointers of the entry are cleared. *)
list_del(x) ==
    /\ prev' = [prev EXCEPT ![next[x]] = prev[x], ![x] = NULL]
    /\ next' = [next EXCEPT ![prev[x]] = next[x], ![x] = NULL]

-----------------------------------------------------------------------------
(* The manager: hash_add_item *)

TakeFlow(k) ==
    /\ Step(Manager, "wait", "lock")
    /\ flow' = k
    /\ at' = [at EXCEPT ![Manager] = BucketOf[k]]
    /\ UNCHANGED <<lists, idle, count, lock, p, cleaning>>

LockBucket ==
    /\ Step(Manager, "lock", "find")
    /\ lock[at[Manager]] = NoThread
    /\ lock' = [lock EXCEPT ![at[Manager]] = Manager]
    /\ p' = [p EXCEPT ![Manager] = next[at[Manager]]]
    /\ UNCHANGED <<lists, idle, count, at, flow, cleaning>>

FindMissesLast ==
    LET x == p[Manager] IN
    /\ pc[Manager] = "find"
    /\ pc' = [pc EXCEPT ![Manager] =
                IF x = at[Manager] \/ next[x] = at[Manager] THEN "take"
                ELSE IF key[x] = flow THEN "found" ELSE "find"]
    /\ p' = IF pc'[Manager] = "find" THEN [p EXCEPT ![Manager] = next[x]] ELSE p
    /\ UNCHANGED <<lists, idle, count, lock, at, flow, cleaning>>

(* A round of find_list's list_for_each. *)
FindStep ==
    LET x == p[Manager] IN
    /\ pc[Manager] = "find"
    /\ pc' = [pc EXCEPT ![Manager] =
                IF x = at[Manager] THEN "take" ELSE IF key[x] = flow THEN "found" ELSE "find"]
    /\ p' = IF pc'[Manager] = "find" THEN [p EXCEPT ![Manager] = next[x]] ELSE p
    /\ UNCHANGED <<lists, idle, count, lock, at, flow, cleaning>>

(* Not found: a node comes from the pool and make_new_session fills it. *)
TakeNode ==
    /\ Step(Manager, "take", "link")
    /\ \E x \in session_pool :
         /\ session_pool' = session_pool \ {x}
         /\ key' = [key EXCEPT ![x] = flow]
         /\ p' = [p EXCEPT ![Manager] = x]
    /\ UNCHANGED <<next, prev, idle, count, lock, at, flow, cleaning>>

LinkNode ==
    /\ Step(Manager, "link", "linked")
    /\ list_add_tail(p[Manager], at[Manager])
    /\ UNCHANGED <<key, session_pool, idle, count, lock, at, p, flow, cleaning>>

RaiseCount ==
    /\ Step(Manager, "linked", "unlock")
    /\ count' = [count EXCEPT ![at[Manager]] = @ + 1]
    /\ UNCHANGED <<lists, idle, lock, at, p, flow, cleaning>>

(* Found, and the payload fits: last_time is renewed. *)
AppendPayload ==
    /\ Step(Manager, "found", "unlock")
    /\ idle' = idle \ {p[Manager]}
    /\ UNCHANGED <<lists, count, lock, at, p, flow, cleaning>>

(* Found, and the buffer is full. *)
CloseSession ==
    /\ Step(Manager, "found", "give")
    /\ list_del(p[Manager])
    /\ UNCHANGED <<key, session_pool, idle, count, lock, at, p, flow, cleaning>>

(* The locals are dead from here on, and set back. *)
UnlockBucket ==
    /\ Step(Manager, "unlock", "wait")
    /\ lock' = [lock EXCEPT ![at[Manager]] = NoThread]
    /\ flow' = NoKey
    /\ at' = [at EXCEPT ![Manager] = 1] /\ p' = [p EXCEPT ![Manager] = 1]
    /\ UNCHANGED <<lists, idle, count, cleaning>>

-----------------------------------------------------------------------------
(* What both do after list_del: mwsr_mpool_enqueue, then --bucket->count. *)

GiveBack(t) ==
    /\ Step(t, "give", "count")
    /\ session_pool' = session_pool \cup {p[t]}
    /\ key' = [key EXCEPT ![p[t]] = NoKey]
    /\ idle' = idle \ {p[t]}
    /\ UNCHANGED <<next, prev, count, lock, at, p, flow, cleaning>>

DropCountOfManagerOnly(t) ==
    /\ Step(t, "count", IF t = Manager THEN "unlock" ELSE "advance")
    /\ count' = IF t = Manager THEN [count EXCEPT ![at[t]] = @ - 1] ELSE count
    /\ UNCHANGED <<lists, idle, lock, at, p, flow, cleaning>>

DropCount(t) ==
    /\ Step(t, "count", IF t = Manager THEN "unlock" ELSE "advance")
    /\ count' = [count EXCEPT ![at[t]] = @ - 1]
    /\ UNCHANGED <<lists, idle, lock, at, p, flow, cleaning>>

-----------------------------------------------------------------------------
(* The cleaner: hash_travel_delete and delete_session *)

StartPass ==
    /\ Step(Cleaner, "wait", "lock")
    /\ UNCHANGED <<lists, idle, count, lock, at, p, flow, cleaning>>

CleanerLockWithoutWaiting ==
    LET b == at[Cleaner] IN
    /\ Step(Cleaner, "lock", "visit")
    /\ doomed' = idle \cap In(b)
    /\ p' = [p EXCEPT ![Cleaner] = next[b]] /\ n' = next[next[b]]
    /\ start' = Chain(b) /\ seen' = <<>>
    /\ UNCHANGED <<lists, idle, count, lock, at, flow>>

(* The lock, current_time, and the loop's first pair of cursors. *)
CleanerLock ==
    LET b == at[Cleaner] IN
    /\ Step(Cleaner, "lock", "visit")
    /\ lock[b] = NoThread
    /\ lock' = [lock EXCEPT ![b] = Cleaner]
    /\ doomed' = idle \cap In(b)
    /\ p' = [p EXCEPT ![Cleaner] = next[b]] /\ n' = next[next[b]]
    /\ start' = Chain(b) /\ seen' = <<>>
    /\ UNCHANGED <<lists, idle, count, at, flow>>

DeleteNode ==
    LET x == p[Cleaner] IN
    /\ x \in doomed
    /\ Step(Cleaner, "visit", "give")
    /\ list_del(x)
    /\ seen' = Append(seen, x)
    /\ UNCHANGED <<key, session_pool, idle, count, lock, at, p, n, flow, doomed, start>>

KeepNode ==
    LET x == p[Cleaner] IN
    /\ x # at[Cleaner] /\ x \notin doomed
    /\ Step(Cleaner, "visit", "advance")
    /\ seen' = Append(seen, x)
    /\ UNCHANGED <<lists, idle, count, lock, at, p, n, flow, doomed, start>>

(* pos = n, n = pos->next *)
Advance ==
    /\ Step(Cleaner, "advance", "visit")
    /\ p' = [p EXCEPT ![Cleaner] = n]
    /\ n' = next[n]
    /\ UNCHANGED <<lists, idle, count, lock, at, flow, doomed, start, seen>>

CleanerUnlockGoesRound ==
    LET b == at[Cleaner] IN
    /\ p[Cleaner] = b
    /\ Step(Cleaner, "visit", "lock")
    /\ lock' = [lock EXCEPT ![b] = NoThread]
    /\ at' = [at EXCEPT ![Cleaner] = IF b = NumBuckets THEN 1 ELSE b + 1]
    /\ p' = [p EXCEPT ![Cleaner] = 1] /\ n' = 1
    /\ doomed' = {} /\ start' = <<>> /\ seen' = <<>>
    /\ UNCHANGED <<lists, idle, count, flow>>

CleanerUnlock ==
    LET b == at[Cleaner] IN
    /\ p[Cleaner] = b
    /\ Step(Cleaner, "visit", IF b = NumBuckets THEN "wait" ELSE "lock")
    /\ lock' = [lock EXCEPT ![b] = NoThread]
    /\ at' = [at EXCEPT ![Cleaner] = IF b = NumBuckets THEN 1 ELSE b + 1]
    /\ p' = [p EXCEPT ![Cleaner] = 1] /\ n' = 1
    /\ doomed' = {} /\ start' = <<>> /\ seen' = <<>>
    /\ UNCHANGED <<lists, idle, count, flow>>

-----------------------------------------------------------------------------
(* Time passes for a linked node. *)
Expire(x) ==
    /\ x \in Linked \ idle
    /\ idle' = idle \cup {x}
    /\ UNCHANGED <<lists, count, lock, pc, at, p, flow, cleaning>>

ManagerStep ==
    \/ FindStep \/ TakeNode \/ LinkNode \/ RaiseCount \/ AppendPayload \/ CloseSession
    \/ GiveBack(Manager) \/ DropCount(Manager) \/ UnlockBucket

CleanerStep ==
    \/ StartPass \/ DeleteNode \/ KeepNode \/ GiveBack(Cleaner) \/ DropCount(Cleaner)
    \/ Advance \/ CleanerUnlock

Next ==
    \/ \E k \in Keys : TakeFlow(k)
    \/ LockBucket \/ ManagerStep
    \/ CleanerLock \/ CleanerStep
    \/ \E x \in Nodes : Expire(x)

(* Both threads run; a mutex that is released again and again is obtained. *)
Spec ==
    /\ Init /\ [][Next]_vars
    /\ WF_vars(ManagerStep) /\ SF_vars(LockBucket)
    /\ WF_vars(CleanerStep) /\ SF_vars(CleanerLock)

-----------------------------------------------------------------------------
(* Properties *)

(* The pointers form one circle per bucket: next and prev undo each other  *)
(* all the way round, every circle passes its head, no node is on two, and *)
(* what is in the pool is on none.                                         *)
CirclesIntact ==
    /\ TypeOK
    /\ \A b \in Buckets : \A x \in In(b) \cup {b} :
         next[x] # NULL /\ prev[next[x]] = x /\ prev[x] # NULL /\ next[prev[x]] = x
    /\ \A b, c \in Buckets : b # c => In(b) \cap In(c) = {}
    /\ session_pool \cap Linked = {}

(* The cleaner goes through exactly the nodes its bucket had when it took  *)
(* the lock, each once and in order, although it frees nodes as it goes    *)
(* and the manager may link them elsewhere at once; when it leaves the     *)
(* bucket, just the idle ones are gone and the others are in order.        *)
WalkExact ==
    /\ pc[Cleaner] \in {"visit", "advance", "give", "count"} =>
         seen \o From(IF pc[Cleaner] = "visit" THEN p[Cleaner] ELSE n, at[Cleaner]) = start
    /\ (pc[Cleaner] = "visit" /\ p[Cleaner] = at[Cleaner]) =>
         LET left == Chain(at[Cleaner]) IN
         /\ {left[i] : i \in DOMAIN left} = {start[i] : i \in DOMAIN start} \ doomed
         /\ \A i, j \in DOMAIN left : \A k, l \in DOMAIN start :
              left[i] = start[k] /\ left[j] = start[l] /\ i < j => k < l

(* hash_count adds up bucket->count without taking a lock: each count it   *)
(* reads is that of the list if nobody holds the bucket, and otherwise one *)
(* off at most.                                                            *)
CountWithinOne ==
    \A b \in Buckets :
      LET off == count[b] - Cardinality(In(b)) IN
      off \in -1..1 /\ (lock[b] = NoThread => off = 0)

(* A pass of the cleaner ends: no cursor is caught on a foreign circle. *)
PassEnds == pc[Cleaner] # "wait" ~> pc[Cleaner] = "wait"

(* The nodes of s with their keys. *)
Tagged(s, ky) == [i \in DOMAIN s |-> <<s[i], ky[s[i]]>>]
Sessions == [b \in Buckets |-> Tagged(Chain(b), key)]

Ordered == INSTANCE OrderedBuckets WITH chain <- Sessions

(* Pointers, cursors and threads together implement ordered buckets with   *)
(* one session per key.                                                    *)
ImplementsOrderedBuckets == Ordered!Spec
=============================================================================
