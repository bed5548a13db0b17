------------------------- MODULE SessionTableProofs -------------------------
(***************************************************************************)
(* Proofs about SessionTable, for any number of managers, buckets,         *)
(* sessions, keys and flows.                                               *)
(*                                                                         *)
(* The argument is the lock: whoever is between taking and releasing a     *)
(* bucket's lock works on that bucket (Locks), so lists, counts and the    *)
(* fields of linked sessions only change under the eyes of one thread, and *)
(* a session that is in nobody's list or pool is in the hand of exactly    *)
(* one thread (Hands, Placed).                                             *)
(***************************************************************************)
EXTENDS SessionTable, FiniteSetTheorems, TLAPS

Working == {"lock", "find", "give", "count", "packet", "flow"}
MustHold == {"find", "give", "count", "link", "unlock", "scan"}
MayHold == MustHold \cup {"packet", "flow"}
ManagerPcs == Working \cup {"wait", "link", "unlock"}
CleanerPcs == {"absent", "rest", "lock", "scan", "give", "count"}

CellOf(k) == <<ManagerOf[k], BucketOf[k]>>

Pcs == pc[Cleaner] \in CleanerPcs /\ \A m \in Managers : pc[m] \in ManagerPcs

(* Who holds a lock works on that bucket, inside the critical section. *)
Locks ==
    /\ \A b \in Cells, t \in Threads : lock[b] = t => at[t] = b /\ pc[t] \in MayHold
    /\ \A t \in Threads : pc[t] \in MustHold => lock[at[t]] = t

(* A session in hand: its holder has the lock, and nobody else can see it. *)
Hands ==
    \A t \in Threads :
      /\ pc[t] \in {"give", "link"} => hand[t] # NoSession
      /\ hand[t] # NoSession =>
           /\ lock[at[t]] = t /\ pc[t] \in {"give", "packet", "flow", "link"}
           /\ item[hand[t]].pool = Home[hand[t]] /\ Live(hand[t])
           /\ \A b \in Cells : hand[t] \notin list[b]
           /\ \A u \in Threads : hand[u] = hand[t] => u = t

(* The session a manager is about to link is the only one of its key. *)
Fresh ==
    \A m \in Managers :
      (hand[m] # NoSession /\ pc[m] # "give") =>
        /\ CellOf(item[hand[m]].key) = at[m] /\ ManagerOf[item[hand[m]].key] = m /\ Home[hand[m]] = m
        /\ \A u \in list[at[m]] : item[u].key # item[hand[m]].key

(* A manager's flows hash to it, and it works on the bucket of its flow. *)
Work ==
    \A m \in Managers :
      /\ pc[m] \in Working <=> flow[m] # NoFlow
      /\ flow[m] # NoFlow => at[m] = CellOf(flow[m].key) /\ ManagerOf[flow[m].key] = m
      /\ \A i \in DOMAIN queue[m] : ManagerOf[queue[m][i].key] = m

Pools == \A m \in Managers : \A s \in session_pool[m] : Home[s] = m /\ item[s] = Blank

Placed ==
    \A s \in Sessions :
      \/ s \in session_pool[Home[s]]
      \/ \E b \in Cells : s \in list[b]
      \/ \E t \in Threads : hand[t] = s

(* A bucket that has lost a session and not yet its count. *)
Ahead(b) == lock[b] \in Threads /\ pc[lock[b]] \in {"give", "count"}

Counts ==
    \A b \in Cells :
      /\ IsFiniteSet(list[b])
      /\ count[b] = Cardinality(list[b]) + (IF Ahead(b) THEN 1 ELSE 0)

Doomed == doomed # {} => pc[Cleaner] \in {"scan", "give", "count"}

(* What cur_len may be: short of the end, or a first payload. *)
CurLens == 0..(BufferSize - 1) \cup Lengths

Used == [key : Keys, cur_len : CurLens, age : 0..(DestroyTime + 1), pool : Managers]

(* TypeOK but for the bounds of free_packets and free_flows, which follow  *)
(* from FlowsConserved.                                                    *)
Types ==
    /\ session_pool \in [Managers -> SUBSET Sessions]
    /\ list \in [Cells -> SUBSET Sessions] /\ count \in [Cells -> Nat]
    /\ lock \in [Cells -> Threads \cup {NoThread}]
    /\ item \in [Sessions -> Used \cup {Blank}]
    /\ queue \in [Managers -> Seq(FlowItems)]
    /\ flow \in [Managers -> FlowItems \cup {NoFlow}]
    /\ hand \in [Threads -> Sessions \cup {NoSession}]
    /\ at \in [Threads -> Cells]
    /\ pc \in [Threads -> {"wait", "lock", "find", "give", "count", "packet", "flow",
                           "link", "unlock", "absent", "rest", "scan"}]
    /\ doomed \in SUBSET Sessions
    /\ free_packets \in Int /\ free_flows \in Int /\ deep \in BOOLEAN

IInv ==
    /\ Types /\ Pcs /\ Locks /\ Hands /\ Fresh /\ Work /\ Pools /\ Placed
    /\ Counts /\ Doomed /\ OneSessionPerKey /\ OnlyIdleDeleted

-----------------------------------------------------------------------------
(* What the constants give. *)
LEMMA Basics ==
    /\ Managers \subseteq Threads /\ Cleaner \in Threads /\ Cleaner \notin Managers
    /\ \A t \in Threads : t # Cleaner => t \in Managers
    /\ NoThread \notin Threads /\ NoSession \notin Sessions /\ NoFlow \notin FlowItems
    /\ \A k \in Keys : CellOf(k) \in Cells /\ CellOf(k)[1] = ManagerOf[k] /\ ManagerOf[k] \in Managers
    /\ \A b \in Cells : b[1] \in Managers
    /\ \A s \in Sessions : Home[s] \in Managers
    /\ \A f \in FlowItems : f.key \in Keys /\ f.payload_len \in Lengths
  <1>1. /\ Managers \subseteq Threads /\ Cleaner \in Threads /\ Cleaner \notin Managers
        /\ \A t \in Threads : t # Cleaner => t \in Managers
    BY DEF Managers, Threads, Cleaner
  <1>2. \A k \in Keys : CellOf(k) \in Cells /\ CellOf(k)[1] = ManagerOf[k] /\ ManagerOf[k] \in Managers
    BY TableAssumption DEF CellOf, Cells
  <1>3. \A b \in Cells : b[1] \in Managers
    BY DEF Cells
  <1>4. \A f \in FlowItems : f.key \in Keys /\ f.payload_len \in Lengths
    BY TableAssumption DEF FlowItems
  <1> QED BY <1>1, <1>2, <1>3, <1>4, TableAssumption

(* A session in use and a blank one differ. *)
LEMMA UsedItem ==
    /\ Blank \notin Used /\ Blank.pool \notin Managers
    /\ \A i \in Used : i.key \in Keys /\ i.cur_len \in CurLens
                        /\ i.age \in 0..(DestroyTime + 1) /\ i.pool \in Managers
    /\ \A k \in Keys, l \in CurLens, a \in 0..(DestroyTime + 1), m \in Managers :
         [key |-> k, cur_len |-> l, age |-> a, pool |-> m] \in Used
  BY TableAssumption DEF Used, Blank, Managers

(* A linked session is in use, is in no pool and on no other list, and the *)
(* thread that holds the lock of its bucket is the only one there.         *)
LEMMA Listed ==
    ASSUME IInv
    PROVE  /\ \A b \in Cells : \A s \in list[b] : s \in Sessions /\ item[s] \in Used
           /\ \A b \in Cells : \A s \in list[b] : \A m \in Managers : s \notin session_pool[m]
           /\ \A b, c \in Cells : \A s \in list[b] : s \in list[c] => b = c
           /\ \A t \in Threads : hand[t] # NoSession => item[hand[t]] \in Used
  <1> USE DEF IInv
  <1>1. \A b \in Cells : \A s \in list[b] : s \in Sessions /\ item[s] \in Used
    BY Basics, UsedItem DEF Types, OneSessionPerKey
  <1>2. \A b \in Cells : \A s \in list[b] : \A m \in Managers : s \notin session_pool[m]
    BY <1>1, UsedItem DEF Types, Pools
  <1>3. \A b, c \in Cells : \A s \in list[b] : s \in list[c] => b = c
    BY DEF OneSessionPerKey
  <1>4. \A t \in Threads : hand[t] # NoSession => item[hand[t]] \in Used
    BY DEF Types, Hands, Live
  <1> QED BY <1>1, <1>2, <1>3, <1>4

(* A parser hands over a flow. *)
LEMMA ArriveStep ==
    ASSUME IInv, NEW k \in Keys, NEW n \in Lengths, Arrive(k, n)
    PROVE  IInv'
  <1> USE DEF IInv, Arrive
  <1>1. Types'
    <2>1. [key |-> k, payload_len |-> n] \in FlowItems
      BY DEF FlowItems
    <2>2. queue' \in [Managers -> Seq(FlowItems)]
      BY <2>1, Basics DEF Types
    <2> QED BY <2>2 DEF Types
  <1>2. Pcs' BY DEF Pcs
  <1>3. Locks' BY DEF Locks
  <1>4. Hands' BY DEF Hands, Live
  <1>5. Fresh' BY DEF Fresh
  <1>6. Work'
    BY Basics, UsedItem DEF Work, Working, Types
  <1>7. Pools' BY DEF Pools
  <1>8. Placed' BY DEF Placed
  <1>9. Counts' BY DEF Counts, Ahead
  <1>10. Doomed' BY DEF Doomed
  <1>11. OneSessionPerKey' BY DEF OneSessionPerKey
  <1>12. OnlyIdleDeleted' BY DEF OnlyIdleDeleted
  <1> QED BY <1>1, <1>2, <1>3, <1>4, <1>5, <1>6, <1>7, <1>8, <1>9, <1>10, <1>11, <1>12

(* Time passes. *)
LEMMA TickStep ==
    ASSUME IInv, Tick
    PROVE  IInv'
  <1> USE DEF IInv, Tick
  <1>0. ASSUME NEW s \in Sessions
        PROVE  /\ item[s] = Blank => item'[s] = Blank
               /\ item[s] \in Used => /\ item'[s] \in Used /\ item'[s].key = item[s].key
                                      /\ item'[s].pool = item[s].pool /\ item'[s].age >= item[s].age
    <2>1. CASE item[s] = Blank
      BY <2>1, UsedItem DEF Live
    <2>2. CASE item[s] \in Used
      BY <2>2, TableAssumption DEF Live, Used
    <2> QED BY <2>1, <2>2 DEF Types
  <1>1. Types'
    BY <1>0 DEF Types
  <1>2. Pcs' BY DEF Pcs
  <1>3. Locks' BY DEF Locks
  <1>4. Hands'
    BY <1>0, Listed, UsedItem, Basics DEF Hands, Types, Live
  <1>5. Fresh'
    BY <1>0, Listed, Basics DEF Fresh, Types
  <1>6. Work' BY DEF Work
  <1>7. Pools'
    BY <1>0 DEF Pools, Types
  <1>8. Placed' BY DEF Placed
  <1>9. Counts' BY DEF Counts, Ahead
  <1>10. Doomed' BY DEF Doomed
  <1>11. OneSessionPerKey'
    BY <1>0, Listed DEF OneSessionPerKey
  <1>12. OnlyIdleDeleted'
    <2> SUFFICES ASSUME NEW s \in doomed
                 PROVE  s \in list[at[Cleaner]] /\ item'[s].age > DestroyTime
      BY DEF OnlyIdleDeleted
    <2>1. s \in list[at[Cleaner]] /\ item[s].age > DestroyTime /\ s \in Sessions /\ item[s] \in Used
      BY Listed, Basics DEF OnlyIdleDeleted, Types
    <2> QED BY <2>1, <1>0, UsedItem, TableAssumption
  <1> QED BY <1>1, <1>2, <1>3, <1>4, <1>5, <1>6, <1>7, <1>8, <1>9, <1>10, <1>11, <1>12

(* pipe_depth changes. *)
LEMMA ReloadStep ==
    ASSUME IInv, Reload
    PROVE  IInv'
  <1> USE DEF IInv, Reload
  <1>1. Types'
    BY Basics, UsedItem DEF Types
  <1>2. Pcs' BY DEF Pcs
  <1>3. Locks' BY DEF Locks
  <1>4. Hands' BY DEF Hands, Live
  <1>5. Fresh' BY DEF Fresh
  <1>6. Work' BY DEF Work
  <1>7. Pools' BY DEF Pools
  <1>8. Placed' BY DEF Placed
  <1>9. Counts' BY DEF Counts, Ahead
  <1>10. Doomed' BY DEF Doomed
  <1>11. OneSessionPerKey' BY DEF OneSessionPerKey
  <1>12. OnlyIdleDeleted' BY DEF OnlyIdleDeleted
  <1> QED BY <1>1, <1>2, <1>3, <1>4, <1>5, <1>6, <1>7, <1>8, <1>9, <1>10, <1>11, <1>12

(* A manager takes a flow. *)
LEMMA TakeFlowStep ==
    ASSUME IInv, NEW m \in Managers, TakeFlow(m)
    PROVE  IInv'
  <1> USE DEF IInv, TakeFlow, Step
  <1> DEFINE f == Head(queue[m])
  <1>0. /\ f \in FlowItems /\ Tail(queue[m]) \in Seq(FlowItems) /\ queue[m] \in Seq(FlowItems)
        /\ ManagerOf[f.key] = m /\ CellOf(f.key) \in Cells
        /\ <<m, BucketOf[f.key]>> = CellOf(f.key)
        /\ hand[m] = NoSession /\ flow[m] = NoFlow /\ f # NoFlow
    <2>1. queue[m] \in Seq(FlowItems) /\ queue[m] # <<>> /\ f = queue[m][1] /\ 1 \in DOMAIN queue[m]
      BY DEF Types
    <2>2. f \in FlowItems /\ Tail(queue[m]) \in Seq(FlowItems)
      BY <2>1
    <2>3. ManagerOf[f.key] = m
      BY <2>1 DEF Work
    <2>4. hand[m] = NoSession /\ flow[m] = NoFlow
      BY Basics DEF Hands, Work, Working
    <2> QED BY <2>1, <2>2, <2>3, <2>4, Basics DEF CellOf
  <1>1. Types'
    BY <1>0, Basics DEF Types
  <1>2. Pcs'
    BY Basics, UsedItem DEF Pcs, ManagerPcs, CleanerPcs, Working, Types
  <1>3. Locks'
    BY Basics, UsedItem DEF Locks, MustHold, MayHold, Types
  <1>4. Hands'
    BY Basics, UsedItem DEF Hands, Live, Types
  <1>5. Fresh'
    BY <1>0, Basics DEF Fresh, Types
  <1>6. Work'
    <2> SUFFICES ASSUME NEW l \in Managers
                 PROVE  /\ pc'[l] \in Working <=> flow'[l] # NoFlow
                        /\ flow'[l] # NoFlow => /\ at'[l] = CellOf(flow'[l].key)
                                                /\ ManagerOf[flow'[l].key] = l
                        /\ \A i \in DOMAIN queue'[l] : ManagerOf[queue'[l][i].key] = l
      BY DEF Work
    <2>1. \A i \in DOMAIN Tail(queue[m]) : ManagerOf[Tail(queue[m])[i].key] = m
      BY <1>0 DEF Work
    <2>2. CASE l = m
      <3>1. pc'[m] \in Working /\ flow'[m] = f /\ queue'[m] = Tail(queue[m])
            /\ at'[m] = <<m, BucketOf[f.key]>>
        BY Basics DEF Types, Working
      <3> QED BY <1>0, <2>1, <2>2, <3>1
    <2>3. CASE l # m
      BY <2>3, Basics DEF Work, Types
    <2> QED BY <2>2, <2>3
  <1>7. Pools' BY DEF Pools
  <1>8. Placed' BY DEF Placed
  <1>9. Counts'
    BY Basics, UsedItem DEF Counts, Ahead, Types
  <1>10. Doomed'
    BY Basics, UsedItem DEF Doomed, Types
  <1>11. OneSessionPerKey' BY DEF OneSessionPerKey
  <1>12. OnlyIdleDeleted'
    BY Basics, UsedItem DEF OnlyIdleDeleted, Types
  <1> QED BY <1>1, <1>2, <1>3, <1>4, <1>5, <1>6, <1>7, <1>8, <1>9, <1>10, <1>11, <1>12

(* A manager takes the lock of its bucket. *)
LEMMA LockBucketStep ==
    ASSUME IInv, NEW m \in Managers, LockBucket(m)
    PROVE  IInv'
  <1> USE DEF IInv, LockBucket, Step
  <1>1. Types'
    BY Basics, UsedItem DEF Types, Acquire, Release, Free
  <1>2. Pcs'
    BY Basics, UsedItem DEF Pcs, ManagerPcs, CleanerPcs, Working, Types
  <1>3. Locks'
    BY Basics, UsedItem DEF Locks, MustHold, MayHold, Acquire, Release, Free, Types
  <1>4. Hands'
    BY Basics, UsedItem DEF Hands, Live, Acquire, Release, Free, Types
  <1>5. Fresh'
    BY Basics, UsedItem DEF Fresh, Types
  <1>6. Work'
    BY Basics, UsedItem DEF Work, Working, Types
  <1>7. Pools' BY DEF Pools
  <1>8. Placed' BY DEF Placed
  <1>9. Counts'
    BY Basics, UsedItem DEF Counts, Ahead, Acquire, Release, Free, Types
  <1>10. Doomed'
    BY Basics, UsedItem DEF Doomed, Types
  <1>11. OneSessionPerKey' BY DEF OneSessionPerKey
  <1>12. OnlyIdleDeleted' BY DEF OnlyIdleDeleted
  <1> QED BY <1>1, <1>2, <1>3, <1>4, <1>5, <1>6, <1>7, <1>8, <1>9, <1>10, <1>11, <1>12

(* A manager takes a session from its pool. *)
LEMMA NewSessionStep ==
    ASSUME IInv, NEW m \in Managers, NewSession(m)
    PROVE  IInv'
  <1> USE DEF IInv, NewSession, Step
  <1>0. PICK s \in session_pool[m] :
          /\ session_pool' = [session_pool EXCEPT ![m] = @ \ {s}]
          /\ hand' = [hand EXCEPT ![m] = s]
          /\ item' = [item EXCEPT ![s] = [key |-> flow[m].key, cur_len |-> flow[m].payload_len,
                                         age |-> 0, pool |-> m]]
    OBVIOUS
  <1>a. /\ s \in Sessions /\ Home[s] = m /\ item[s] = Blank /\ s # NoSession
        /\ \A b \in Cells : s \notin list[b]
        /\ \A u \in Threads : hand[u] # s
    BY Listed, UsedItem, Basics DEF Types, Pools
  <1>b. /\ item'[s] \in Used /\ item'[s].key = flow[m].key /\ item'[s].pool = m
        /\ \A u \in Sessions : u # s => item'[u] = item[u]
    <2>1. flow[m] \in FlowItems
      BY DEF Types, Work, Working
    <2>2. 0 \in 0..(DestroyTime + 1)
      BY TableAssumption
    <2>3. /\ item'[s] = [key |-> flow[m].key, cur_len |-> flow[m].payload_len, age |-> 0, pool |-> m]
          /\ \A u \in Sessions : u # s => item'[u] = item[u]
      BY <1>0, <1>a DEF Types
    <2>4. item'[s] \in Used
      <3>1. flow[m].key \in Keys /\ flow[m].payload_len \in CurLens
        BY <2>1, Basics DEF CurLens
      <3> QED BY <2>2, <2>3, <3>1, UsedItem
    <2> QED BY <2>3, <2>4
  <1>c. /\ hand[m] = NoSession /\ lock[at[m]] = m /\ at[m] = CellOf(flow[m].key)
        /\ ManagerOf[flow[m].key] = m
    BY Basics DEF Hands, Locks, MustHold, Work, Working
  <1>1. Types'
    BY <1>0, <1>a, <1>b, Basics DEF Types
  <1>2. Pcs'
    BY Basics, UsedItem DEF Pcs, ManagerPcs, CleanerPcs, Working, Types
  <1>3. Locks'
    BY Basics, UsedItem DEF Locks, MustHold, MayHold, Types
  <1>4. Hands'
    BY <1>0, <1>a, <1>b, <1>c, Basics, UsedItem DEF Hands, Types, Live
  <1>5. Fresh'
    BY <1>0, <1>a, <1>b, <1>c, Basics, Listed DEF Fresh, Types, Found
  <1>6. Work'
    BY Basics, UsedItem DEF Work, Working, Types
  <1>7. Pools'
    BY <1>0, <1>a, <1>b, Basics DEF Pools, Types
  <1>8. Placed'
    <2>0. m \in Threads /\ hand'[m] = s
      BY <1>0, Basics DEF Types
    <2> SUFFICES ASSUME NEW u \in Sessions, u # s
                 PROVE  \/ u \in session_pool'[Home[u]]
                        \/ \E b \in Cells : u \in list[b]
                        \/ \E t \in Threads : hand'[t] = u
      BY <2>0 DEF Placed
    <2>1. u \in session_pool[Home[u]] => u \in session_pool'[Home[u]]
      BY <1>0, Basics DEF Types
    <2>2. \A t \in Threads : hand[t] = u => hand'[t] = u
      BY <1>0, <1>c, Basics DEF Types
    <2> QED BY <2>1, <2>2 DEF Placed
  <1>9. Counts'
    BY Basics, UsedItem DEF Counts, Ahead, Types
  <1>10. Doomed'
    BY Basics, UsedItem DEF Doomed, Types
  <1>11. OneSessionPerKey'
    BY <1>a, <1>b, Listed DEF OneSessionPerKey
  <1>12. OnlyIdleDeleted'
    BY <1>a, <1>b, Basics DEF OnlyIdleDeleted, Types
  <1> QED BY <1>1, <1>2, <1>3, <1>4, <1>5, <1>6, <1>7, <1>8, <1>9, <1>10, <1>11, <1>12

(* A manager appends to a session it found. *)
LEMMA AppendPayloadStep ==
    ASSUME IInv, NEW m \in Managers, AppendPayload(m)
    PROVE  IInv'
  <1> USE DEF IInv, AppendPayload, Step
  <1>0. PICK s \in Found(m) :
          /\ Fits(s, m)
          /\ item' = [item EXCEPT ![s].cur_len = @ + flow[m].payload_len, ![s].age = 0]
    OBVIOUS
  <1>a. s \in list[at[m]] /\ s \in Sessions /\ item[s] \in Used /\ lock[at[m]] = m /\ at[m] \in Cells
    BY Listed, Basics DEF Found, Types, Locks, MustHold
  <1>b. /\ item'[s] \in Used /\ item'[s].key = item[s].key /\ item'[s].pool = item[s].pool
        /\ \A u \in Sessions : u # s => item'[u] = item[u]
    <2>1. flow[m] \in FlowItems
      BY DEF Types, Work, Working
    <2>2. /\ item[s].cur_len + flow[m].payload_len \in CurLens /\ 0 \in 0..(DestroyTime + 1)
      <3>1. /\ item[s].cur_len \in CurLens /\ flow[m].payload_len \in Lengths
            /\ item[s].cur_len + flow[m].payload_len < BufferSize
        BY <2>1, <1>0, <1>a, Basics, UsedItem DEF Fits
      <3>2. BufferSize \in Nat /\ Lengths \subseteq Nat /\ DestroyTime \in Nat
        BY TableAssumption
      <3>3. item[s].cur_len \in Nat /\ flow[m].payload_len \in Nat
        BY <3>1, <3>2 DEF CurLens
      <3> QED BY <3>1, <3>2, <3>3 DEF CurLens
    <2>3. item'[s] = [key |-> item[s].key, cur_len |-> item[s].cur_len + flow[m].payload_len,
                      age |-> 0, pool |-> item[s].pool]
      BY <1>0, <1>a DEF Types, Used
    <2> QED BY <1>0, <1>a, <2>2, <2>3, UsedItem DEF Types
  <1>c. \A u \in Sessions :
          /\ item'[u].key = item[u].key /\ item'[u].pool = item[u].pool
          /\ (item[u] = Blank) <=> (item'[u] = Blank)
    BY <1>a, <1>b, UsedItem
  <1>1. Types'
    BY <1>0, <1>a, <1>b, Basics DEF Types
  <1>2. Pcs'
    BY Basics, UsedItem DEF Pcs, ManagerPcs, CleanerPcs, Working, Types
  <1>3. Locks'
    BY Basics, UsedItem DEF Locks, MustHold, MayHold, Types
  <1>4. Hands'
    <2> SUFFICES ASSUME NEW t \in Threads, hand[t] # NoSession
                 PROVE  item'[hand[t]].pool = Home[hand[t]] /\ item'[hand[t]] # Blank
      <3>1. hand' = hand /\ lock' = lock /\ at' = at /\ list' = list /\ pc' = [pc EXCEPT ![m] = "packet"]
        OBVIOUS
      <3> HIDE DEF AppendPayload
      <3> QED BY <1>a, <3>1, Basics DEF Hands, Types, Live
    <2>1. hand[t] \in Sessions /\ item[hand[t]].pool = Home[hand[t]] /\ item[hand[t]] # Blank
      BY DEF Types, Hands, Live
    <2> HIDE DEF AppendPayload
    <2> QED BY <1>c, <2>1
  <1>5. Fresh'
    BY SMTT(30), <1>a, <1>b, Basics, Listed DEF Fresh, Types, Hands
  <1>6. Work'
    BY Basics, UsedItem DEF Work, Working, Types
  <1>7. Pools'
    BY <1>a, <1>b, Listed DEF Pools, Types
  <1>8. Placed' BY DEF Placed
  <1>9. Counts'
    BY Basics, UsedItem DEF Counts, Ahead, Types
  <1>10. Doomed'
    BY Basics, UsedItem DEF Doomed, Types
  <1>11. OneSessionPerKey'
    <2>0. list' = list
      OBVIOUS
    <2> HIDE DEF AppendPayload
    <2>1. \A b \in Cells : \A u \in list[b] :
            item'[u].key = item[u].key /\ item'[u].pool = item[u].pool
      BY <1>c, Listed
    <2> QED BY <2>0, <2>1 DEF OneSessionPerKey
  <1>12. OnlyIdleDeleted'
    <2>1. s \notin doomed
      BY <1>a, Listed, Basics DEF OnlyIdleDeleted, Doomed, Locks, MustHold, Types
    <2> QED BY <1>b, <2>1 DEF OnlyIdleDeleted, Types
  <1> QED BY <1>1, <1>2, <1>3, <1>4, <1>5, <1>6, <1>7, <1>8, <1>9, <1>10, <1>11, <1>12

(* A manager unlinks a full session. *)
LEMMA CloseSessionStep ==
    ASSUME IInv, NEW m \in Managers, CloseSession(m)
    PROVE  IInv'
  <1> USE DEF IInv, CloseSession, Step
  <1>0. PICK s \in Found(m) :
          /\ list' = [list EXCEPT ![at[m]] = @ \ {s}]
          /\ hand' = [hand EXCEPT ![m] = s]
    OBVIOUS
  <1>a. /\ s \in list[at[m]] /\ s \in Sessions /\ item[s] \in Used /\ s # NoSession
        /\ lock[at[m]] = m /\ at[m] \in Cells /\ hand[m] = NoSession
        /\ item[s].pool = Home[s] /\ \A u \in Threads : hand[u] # s
    <2>1. /\ s \in list[at[m]] /\ lock[at[m]] = m /\ at[m] \in Cells /\ hand[m] = NoSession
      BY <1>0, Basics DEF Found, Types, Locks, MustHold, Hands
    <2>2. s \in Sessions /\ item[s] \in Used /\ s # NoSession
      BY <2>1, Listed, Basics
    <2>3. item[s].pool = Home[s]
      BY <2>1 DEF OneSessionPerKey
    <2>4. \A u \in Threads : hand[u] # s
      BY <2>1, <2>2 DEF Hands
    <2> QED BY <2>1, <2>2, <2>3, <2>4
  <1>b. /\ list'[at[m]] = list[at[m]] \ {s}
        /\ \A b \in Cells : b # at[m] => list'[b] = list[b]
        /\ \A b \in Cells : list'[b] \subseteq list[b] /\ s \notin list'[b]
    BY <1>0, <1>a, Listed DEF Types
  <1>1. Types'
    BY <1>0, <1>a, Basics DEF Types
  <1>2. Pcs'
    BY Basics, UsedItem DEF Pcs, ManagerPcs, CleanerPcs, Working, Types
  <1>3. Locks'
    BY Basics, UsedItem DEF Locks, MustHold, MayHold, Types
  <1>4. Hands'
    BY <1>0, <1>a, <1>b, Basics, UsedItem DEF Hands, Types, Live
  <1>5. Fresh'
    BY <1>0, <1>a, <1>b, Basics DEF Fresh, Types
  <1>6. Work'
    BY Basics, UsedItem DEF Work, Working, Types
  <1>7. Pools' BY DEF Pools
  <1>8. Placed'
    <2>0. m \in Threads /\ hand'[m] = s
      BY <1>0, Basics DEF Types
    <2> SUFFICES ASSUME NEW u \in Sessions, u # s
                 PROVE  \/ u \in session_pool[Home[u]]
                        \/ \E b \in Cells : u \in list'[b]
                        \/ \E t \in Threads : hand'[t] = u
      BY <2>0 DEF Placed
    <2>1. \A b \in Cells : u \in list[b] => u \in list'[b]
      BY <1>b
    <2>2. \A t \in Threads : hand[t] = u => hand'[t] = u
      BY <1>0, <1>a, Basics DEF Types
    <2> QED BY <2>1, <2>2 DEF Placed
  <1>9. Counts'
    <2> SUFFICES ASSUME NEW b \in Cells
                 PROVE  /\ IsFiniteSet(list'[b])
                        /\ count[b] = Cardinality(list'[b]) + (IF Ahead(b)' THEN 1 ELSE 0)
      BY DEF Counts
    <2>1. CASE b = at[m]
      <3>1. ~Ahead(b) /\ Ahead(b)'
        BY <1>a, <2>1, Basics DEF Ahead, Types
      <3>2. /\ IsFiniteSet(list[b] \ {s}) /\ Cardinality(list[b]) \in Nat
            /\ Cardinality(list[b] \ {s}) = Cardinality(list[b]) - 1
        BY <1>a, <2>1, FS_RemoveElement, FS_CardinalityType DEF Counts
      <3>3. count[b] = Cardinality(list[b])
        BY <3>1, <3>2 DEF Counts
      <3>4. list'[b] = list[b] \ {s}
        BY <1>b, <2>1
      <3> HIDE DEF CloseSession, IInv
      <3> QED BY <3>1, <3>2, <3>3, <3>4
    <2>2. CASE b # at[m]
      <3>1. Ahead(b)' <=> Ahead(b)
        BY <2>2, Basics DEF Ahead, Types, Locks
      <3> QED BY <1>b, <2>2, <3>1 DEF Counts
    <2> QED BY <2>1, <2>2
  <1>10. Doomed'
    BY Basics, UsedItem DEF Doomed, Types
  <1>11. OneSessionPerKey'
    BY <1>b DEF OneSessionPerKey
  <1>12. OnlyIdleDeleted'
    <2>1. s \notin doomed
      BY <1>a, Listed, Basics DEF OnlyIdleDeleted, Doomed, Locks, MustHold, Types
    <2> QED BY <1>b, <2>1, Basics DEF OnlyIdleDeleted, Types
  <1> QED BY <1>1, <1>2, <1>3, <1>4, <1>5, <1>6, <1>7, <1>8, <1>9, <1>10, <1>11, <1>12

(* A manager returns the packet. *)
LEMMA RecyclePacketStep ==
    ASSUME IInv, NEW m \in Managers, RecyclePacket(m)
    PROVE  IInv'
  <1> USE DEF IInv, RecyclePacket, Step
  <1>1. Types'
    BY Basics, UsedItem DEF Types
  <1>2. Pcs'
    BY Basics, UsedItem DEF Pcs, ManagerPcs, CleanerPcs, Working, Types
  <1>3. Locks'
    BY Basics, UsedItem DEF Locks, MustHold, MayHold, Types
  <1>4. Hands'
    BY Basics, UsedItem DEF Hands, Live, Types
  <1>5. Fresh'
    BY Basics, UsedItem DEF Fresh, Types
  <1>6. Work'
    BY Basics, UsedItem DEF Work, Working, Types
  <1>7. Pools' BY DEF Pools
  <1>8. Placed' BY DEF Placed
  <1>9. Counts'
    BY Basics, UsedItem DEF Counts, Ahead, Types
  <1>10. Doomed'
    BY Basics, UsedItem DEF Doomed, Types
  <1>11. OneSessionPerKey' BY DEF OneSessionPerKey
  <1>12. OnlyIdleDeleted' BY DEF OnlyIdleDeleted
  <1> QED BY <1>1, <1>2, <1>3, <1>4, <1>5, <1>6, <1>7, <1>8, <1>9, <1>10, <1>11, <1>12

(* A manager returns the flow. *)
LEMMA RecycleFlowStep ==
    ASSUME IInv, NEW m \in Managers, RecycleFlow(m)
    PROVE  IInv'
  <1> USE DEF IInv, RecycleFlow, Step
  <1>1. Types'
    BY Basics, UsedItem DEF Types
  <1>2. Pcs'
    BY Basics, UsedItem DEF Pcs, ManagerPcs, CleanerPcs, Working, Types
  <1>3. Locks'
    BY Basics DEF Locks, MustHold, MayHold, Hands, Types
  <1>4. Hands'
    BY Basics, UsedItem DEF Hands, Live, Types
  <1>5. Fresh'
    BY Basics, UsedItem DEF Fresh, Types
  <1>6. Work'
    BY Basics, UsedItem DEF Work, Working, Types
  <1>7. Pools' BY DEF Pools
  <1>8. Placed' BY DEF Placed
  <1>9. Counts'
    BY Basics, UsedItem DEF Counts, Ahead, Types
  <1>10. Doomed'
    BY Basics, UsedItem DEF Doomed, Types
  <1>11. OneSessionPerKey' BY DEF OneSessionPerKey
  <1>12. OnlyIdleDeleted' BY DEF OnlyIdleDeleted
  <1> QED BY <1>1, <1>2, <1>3, <1>4, <1>5, <1>6, <1>7, <1>8, <1>9, <1>10, <1>11, <1>12

(* A manager links its new session. *)
LEMMA LinkSessionStep ==
    ASSUME IInv, NEW m \in Managers, LinkSession(m)
    PROVE  IInv'
  <1> USE DEF IInv, LinkSession, Step
  <1> DEFINE s == hand[m]
  <1>a. /\ s \in Sessions /\ s # NoSession /\ lock[at[m]] = m /\ at[m] \in Cells
        /\ item[s] \in Used /\ \A b \in Cells : s \notin list[b]
    BY Listed, Basics DEF Types, Locks, MustHold, Hands
  <1>b. /\ list'[at[m]] = list[at[m]] \cup {s}
        /\ \A b \in Cells : b # at[m] => list'[b] = list[b]
    BY <1>a DEF Types
  <1>1. Types'
    BY <1>a, Basics DEF Types
  <1>2. Pcs'
    BY Basics, UsedItem DEF Pcs, ManagerPcs, CleanerPcs, Working, Types
  <1>3. Locks'
    BY Basics, UsedItem DEF Locks, MustHold, MayHold, Types
  <1>4. Hands'
    BY <1>a, <1>b, Basics DEF Hands, Types, Live
  <1>5. Fresh'
    <2> SUFFICES ASSUME NEW l \in Managers, l # m, hand[l] # NoSession, pc[l] # "give"
                 PROVE  /\ CellOf(item[hand[l]].key) = at[l] /\ ManagerOf[item[hand[l]].key] = l
                        /\ Home[hand[l]] = l
                        /\ \A u \in list'[at[l]] : item[u].key # item[hand[l]].key
      BY Basics DEF Fresh, Types
    <2>1. at[l] # at[m] /\ at[l] \in Cells
      BY <1>a, Basics DEF Hands, Types
    <2> QED BY <1>b, <2>1 DEF Fresh
  <1>6. Work'
    BY Basics, UsedItem DEF Work, Working, Types
  <1>7. Pools' BY DEF Pools
  <1>8. Placed'
    <2> SUFFICES ASSUME NEW u \in Sessions
                 PROVE  \/ u \in session_pool[Home[u]]
                        \/ \E b \in Cells : u \in list'[b]
                        \/ \E t \in Threads : hand'[t] = u
      BY DEF Placed
    <2>1. \A b \in Cells : u \in list[b] => u \in list'[b]
      BY <1>b
    <2>2. \A t \in Threads : hand[t] = u => hand'[t] = u \/ u \in list'[at[m]]
      BY <1>a, <1>b, Basics DEF Types
    <2> QED BY <1>a, <2>1, <2>2 DEF Placed
  <1>9. Counts'
    <2> SUFFICES ASSUME NEW b \in Cells
                 PROVE  /\ IsFiniteSet(list'[b])
                        /\ count'[b] = Cardinality(list'[b]) + (IF Ahead(b)' THEN 1 ELSE 0)
      BY DEF Counts
    <2>1. CASE b = at[m]
      <3>1. ~Ahead(b) /\ ~Ahead(b)'
        BY <1>a, <2>1, Basics DEF Ahead, Types
      <3>2. /\ IsFiniteSet(list[b] \cup {s}) /\ Cardinality(list[b]) \in Nat
            /\ Cardinality(list[b] \cup {s}) = Cardinality(list[b]) + 1
        BY <1>a, <2>1, FS_AddElement, FS_CardinalityType DEF Counts
      <3>3. count[b] = Cardinality(list[b]) /\ count'[b] = count[b] + 1
        BY <2>1, <3>1, <3>2 DEF Counts, Types
      <3>4. list'[b] = list[b] \cup {s}
        BY <1>b, <2>1
      <3> HIDE DEF LinkSession, IInv
      <3> QED BY <3>1, <3>2, <3>3, <3>4
    <2>2. CASE b # at[m]
      <3>1. Ahead(b)' <=> Ahead(b)
        BY <2>2, Basics DEF Ahead, Types, Locks
      <3> QED BY <1>a, <1>b, <2>2, <3>1 DEF Counts, Types
    <2> QED BY <2>1, <2>2
  <1>10. Doomed'
    BY Basics, UsedItem DEF Doomed, Types
  <1>11. OneSessionPerKey'
    <2>1. /\ at[m] = CellOf(item[s].key) /\ ManagerOf[item[s].key] = m
          /\ item[s].pool = Home[s] /\ Home[s] = m
          /\ \A u \in list[at[m]] : item[u].key # item[s].key
      BY <1>a, Basics DEF Fresh, Hands
    <2>2. at[m][1] = m
      BY <1>a, <2>1, Basics, UsedItem
    <2> SUFFICES ASSUME NEW b \in Cells, NEW v \in list'[b]
                 PROVE  /\ b = CellOf(item[v].key) /\ item[v].pool = b[1] /\ Home[v] = b[1]
                        /\ \A u \in list'[b] : item[u].key = item[v].key => u = v
      BY DEF OneSessionPerKey, CellOf
    <2>3. CASE b = at[m]
      <3>1. list'[b] = list[b] \cup {s} /\ item' = item
        BY <1>b, <2>3
      <3>2. \A u \in list[b] : /\ b = CellOf(item[u].key) /\ item[u].pool = b[1] /\ Home[u] = b[1]
                               /\ \A w \in list[b] : item[w].key = item[u].key => w = u
        BY <2>3 DEF OneSessionPerKey, CellOf
      <3> HIDE DEF IInv, LinkSession
      <3>3. CASE v = s
        BY <2>1, <2>2, <2>3, <3>1, <3>3
      <3>4. CASE v \in list[b]
        BY <2>1, <2>3, <3>1, <3>2, <3>4
      <3> QED BY <3>1, <3>3, <3>4
    <2>4. CASE b # at[m]
      BY <1>b, <2>4 DEF OneSessionPerKey, CellOf
    <2> QED BY <2>3, <2>4
  <1>12. OnlyIdleDeleted'
    BY <1>a, <1>b, Basics DEF OnlyIdleDeleted, Types
  <1> QED BY <1>1, <1>2, <1>3, <1>4, <1>5, <1>6, <1>7, <1>8, <1>9, <1>10, <1>11, <1>12

(* A manager releases the lock. *)
LEMMA UnlockBucketStep ==
    ASSUME IInv, NEW m \in Managers, UnlockBucket(m)
    PROVE  IInv'
  <1> USE DEF IInv, UnlockBucket, Step
  <1>a. lock[at[m]] = m /\ at[m] \in Cells /\ hand[m] = NoSession
    BY Basics DEF Locks, MustHold, Hands, Types
  <1>1. Types'
    BY Basics, UsedItem DEF Types, Acquire, Release, Free
  <1>2. Pcs'
    BY Basics, UsedItem DEF Pcs, ManagerPcs, CleanerPcs, Working, Types
  <1>3. Locks'
    BY Basics, UsedItem DEF Locks, MustHold, MayHold, Acquire, Release, Free, Types
  <1>4. Hands'
    BY <1>a, Basics DEF Hands, Live, Types, Release
  <1>5. Fresh'
    BY Basics, UsedItem DEF Fresh, Types
  <1>6. Work'
    BY Basics, UsedItem DEF Work, Working, Types
  <1>7. Pools' BY DEF Pools
  <1>8. Placed' BY DEF Placed
  <1>9. Counts'
    <2> SUFFICES ASSUME NEW b \in Cells
                 PROVE  Ahead(b)' <=> Ahead(b)
      BY DEF Counts
    <2>1. CASE b = at[m]
      BY <1>a, <2>1, Basics DEF Ahead, Types, Release
    <2>2. CASE b # at[m]
      BY <1>a, <2>2, Basics DEF Ahead, Types, Locks, Release
    <2> QED BY <2>1, <2>2
  <1>10. Doomed'
    BY Basics, UsedItem DEF Doomed, Types
  <1>11. OneSessionPerKey' BY DEF OneSessionPerKey
  <1>12. OnlyIdleDeleted' BY DEF OnlyIdleDeleted
  <1> QED BY <1>1, <1>2, <1>3, <1>4, <1>5, <1>6, <1>7, <1>8, <1>9, <1>10, <1>11, <1>12

(* A session goes back to its pool. *)
LEMMA GiveBackStep ==
    ASSUME IInv, NEW t \in Threads, GiveBack(t)
    PROVE  IInv'
  <1> USE DEF IInv, GiveBack, Step
  <1> DEFINE s == hand[t]
  <1>a. /\ s \in Sessions /\ s # NoSession /\ item[s] \in Used /\ item[s].pool = Home[s]
        /\ Home[s] \in Managers
        /\ \A b \in Cells : s \notin list[b]
        /\ \A u \in Threads : hand[u] = s => u = t
        /\ \A m \in Managers : s \notin session_pool[m]
    BY Listed, UsedItem, Basics DEF Types, Hands, Pools
  <1>b. /\ item'[s] = Blank /\ \A u \in Sessions : u # s => item'[u] = item[u]
        /\ session_pool' = [session_pool EXCEPT ![Home[s]] = @ \cup {s}]
    BY <1>a DEF Types
  <1>1. Types'
    BY <1>a, <1>b DEF Types
  <1>2. Pcs'
    BY Basics, UsedItem DEF Pcs, ManagerPcs, CleanerPcs, Working, Types
  <1>3. Locks'
    BY Basics, UsedItem DEF Locks, MustHold, MayHold, Types
  <1>4. Hands'
    BY <1>a, <1>b, Basics DEF Hands, Live, Types
  <1>5. Fresh'
    BY <1>a, <1>b, Basics DEF Fresh, Types
  <1>6. Work'
    BY Basics, UsedItem DEF Work, Working, Types
  <1>7. Pools'
    BY <1>a, <1>b DEF Pools, Types
  <1>8. Placed'
    <2> SUFFICES ASSUME NEW u \in Sessions
                 PROVE  \/ u \in session_pool'[Home[u]]
                        \/ \E b \in Cells : u \in list[b]
                        \/ \E v \in Threads : hand'[v] = u
      BY DEF Placed
    <2>1. u \in session_pool[Home[u]] => u \in session_pool'[Home[u]]
      BY <1>a, <1>b, Basics DEF Types
    <2>2. \A v \in Threads : hand[v] = u => hand'[v] = u \/ u \in session_pool'[Home[u]]
      BY <1>a, <1>b, Basics DEF Types
    <2> QED BY <2>1, <2>2 DEF Placed
  <1>9. Counts'
    BY Basics, UsedItem DEF Counts, Ahead, Types
  <1>10. Doomed'
    BY Basics, UsedItem DEF Doomed, Types
  <1>11. OneSessionPerKey'
    BY <1>a, <1>b, Listed DEF OneSessionPerKey
  <1>12. OnlyIdleDeleted'
    BY <1>a, <1>b, Basics DEF OnlyIdleDeleted, Types
  <1> QED BY <1>1, <1>2, <1>3, <1>4, <1>5, <1>6, <1>7, <1>8, <1>9, <1>10, <1>11, <1>12

(* The count follows the list. *)
LEMMA DropCountStep ==
    ASSUME IInv, NEW t \in Threads, DropCount(t)
    PROVE  IInv'
  <1> USE DEF IInv, DropCount, Step
  <1>a. /\ lock[at[t]] = t /\ at[t] \in Cells /\ Ahead(at[t])
        /\ Cardinality(list[at[t]]) \in Nat /\ count[at[t]] = Cardinality(list[at[t]]) + 1
    BY FS_CardinalityType DEF Locks, MustHold, Types, Ahead, Counts
  <1>1. Types'
    BY <1>a DEF Types
  <1>2. Pcs'
    BY Basics, UsedItem DEF Pcs, ManagerPcs, CleanerPcs, Working, Types
  <1>3. Locks'
    BY Basics, UsedItem DEF Locks, MustHold, MayHold, Types
  <1>4. Hands'
    BY Basics, UsedItem DEF Hands, Live, Types
  <1>5. Fresh'
    BY Basics, UsedItem DEF Fresh, Types
  <1>6. Work'
    BY Basics, UsedItem DEF Work, Working, Types
  <1>7. Pools' BY DEF Pools
  <1>8. Placed' BY DEF Placed
  <1>9. Counts'
    <2> SUFFICES ASSUME NEW b \in Cells
                 PROVE  count'[b] = Cardinality(list[b]) + (IF Ahead(b)' THEN 1 ELSE 0)
      BY DEF Counts
    <2>1. CASE b = at[t]
      <3>1. ~Ahead(b)'
        BY <1>a, <2>1 DEF Ahead, Types
      <3> QED BY <1>a, <2>1, <3>1 DEF Types
    <2>2. CASE b # at[t]
      <3>1. Ahead(b)' <=> Ahead(b)
        BY <2>2 DEF Ahead, Types, Locks
      <3> QED BY <1>a, <2>2, <3>1 DEF Counts, Types
    <2> QED BY <2>1, <2>2
  <1>10. Doomed'
    BY Basics, UsedItem DEF Doomed, Types
  <1>11. OneSessionPerKey' BY DEF OneSessionPerKey
  <1>12. OnlyIdleDeleted' BY DEF OnlyIdleDeleted
  <1> QED BY <1>1, <1>2, <1>3, <1>4, <1>5, <1>6, <1>7, <1>8, <1>9, <1>10, <1>11, <1>12

(* The cleaner starts at the first bucket. *)
LEMMA StartPassStep ==
    ASSUME IInv, StartPass
    PROVE  IInv'
  <1> USE DEF IInv, StartPass, Step
  <1>1. Types'
    <2>1. <<1, 1>> \in Cells
      BY TableAssumption DEF Cells, Managers, Buckets
    <2> QED BY <2>1, Basics DEF Types
  <1>2. Pcs'
    BY Basics, UsedItem DEF Pcs, ManagerPcs, CleanerPcs, Working, Types
  <1>3. Locks'
    BY Basics, UsedItem DEF Locks, MustHold, MayHold, Types
  <1>4. Hands'
    BY Basics, UsedItem DEF Hands, Live, Types
  <1>5. Fresh'
    BY Basics, UsedItem DEF Fresh, Types
  <1>6. Work'
    BY Basics, UsedItem DEF Work, Working, Types
  <1>7. Pools' BY DEF Pools
  <1>8. Placed' BY DEF Placed
  <1>9. Counts'
    BY Basics, UsedItem DEF Counts, Ahead, Types
  <1>10. Doomed'
    BY Basics, UsedItem DEF Doomed, Types
  <1>11. OneSessionPerKey' BY DEF OneSessionPerKey
  <1>12. OnlyIdleDeleted'
    BY DEF OnlyIdleDeleted, Doomed
  <1> QED BY <1>1, <1>2, <1>3, <1>4, <1>5, <1>6, <1>7, <1>8, <1>9, <1>10, <1>11, <1>12

(* The cleaner takes a lock. *)
LEMMA CleanerLockStep ==
    ASSUME IInv, CleanerLock
    PROVE  IInv'
  <1> USE DEF IInv, CleanerLock, Step
  <1>1. Types'
    BY Basics, UsedItem DEF Types, Acquire, Release, Free
  <1>2. Pcs'
    BY Basics, UsedItem DEF Pcs, ManagerPcs, CleanerPcs, Working, Types
  <1>3. Locks'
    BY Basics, UsedItem DEF Locks, MustHold, MayHold, Acquire, Release, Free, Types
  <1>4. Hands'
    BY Basics, UsedItem DEF Hands, Live, Acquire, Release, Free, Types
  <1>5. Fresh'
    BY Basics, UsedItem DEF Fresh, Types
  <1>6. Work'
    BY Basics, UsedItem DEF Work, Working, Types
  <1>7. Pools' BY DEF Pools
  <1>8. Placed' BY DEF Placed
  <1>9. Counts'
    BY Basics, UsedItem DEF Counts, Ahead, Acquire, Release, Free, Types
  <1>10. Doomed'
    BY Basics, UsedItem DEF Doomed, Types
  <1>11. OneSessionPerKey' BY DEF OneSessionPerKey
  <1>12. OnlyIdleDeleted'
    BY Basics, UsedItem DEF OnlyIdleDeleted, Types
  <1> QED BY <1>1, <1>2, <1>3, <1>4, <1>5, <1>6, <1>7, <1>8, <1>9, <1>10, <1>11, <1>12

(* The cleaner unlinks an idle session. *)
LEMMA DeleteSessionStep ==
    ASSUME IInv, DeleteSession
    PROVE  IInv'
  <1> USE DEF IInv, DeleteSession, Step
  <1>0. PICK s \in doomed :
          /\ list' = [list EXCEPT ![at[Cleaner]] = @ \ {s}]
          /\ doomed' = doomed \ {s}
          /\ hand' = [hand EXCEPT ![Cleaner] = s]
    OBVIOUS
  <1>a. /\ s \in list[at[Cleaner]] /\ s \in Sessions /\ item[s] \in Used /\ s # NoSession
        /\ lock[at[Cleaner]] = Cleaner /\ at[Cleaner] \in Cells /\ hand[Cleaner] = NoSession
        /\ item[s].pool = Home[s] /\ \A u \in Threads : hand[u] # s
    <2>1. /\ s \in list[at[Cleaner]] /\ lock[at[Cleaner]] = Cleaner /\ at[Cleaner] \in Cells
          /\ hand[Cleaner] = NoSession
      BY <1>0, Basics DEF OnlyIdleDeleted, Types, Locks, MustHold, Hands
    <2>2. s \in Sessions /\ item[s] \in Used /\ s # NoSession
      BY <2>1, Listed, Basics
    <2>3. item[s].pool = Home[s]
      BY <2>1 DEF OneSessionPerKey
    <2>4. \A u \in Threads : hand[u] # s
      BY <2>1, <2>2 DEF Hands
    <2> QED BY <2>1, <2>2, <2>3, <2>4
  <1>b. /\ list'[at[Cleaner]] = list[at[Cleaner]] \ {s}
        /\ \A b \in Cells : b # at[Cleaner] => list'[b] = list[b]
        /\ \A b \in Cells : list'[b] \subseteq list[b] /\ s \notin list'[b]
    BY <1>0, <1>a, Listed DEF Types
  <1>1. Types'
    BY <1>0, <1>a, Basics DEF Types
  <1>2. Pcs'
    BY Basics, UsedItem DEF Pcs, ManagerPcs, CleanerPcs, Working, Types
  <1>3. Locks'
    BY Basics, UsedItem DEF Locks, MustHold, MayHold, Types
  <1>4. Hands'
    BY <1>0, <1>a, <1>b, Basics, UsedItem DEF Hands, Types, Live
  <1>5. Fresh'
    BY <1>0, <1>a, <1>b, Basics DEF Fresh, Types
  <1>6. Work'
    BY Basics, UsedItem DEF Work, Working, Types
  <1>7. Pools' BY DEF Pools
  <1>8. Placed'
    <2>0. Cleaner \in Threads /\ hand'[Cleaner] = s
      BY <1>0, Basics DEF Types
    <2> SUFFICES ASSUME NEW u \in Sessions, u # s
                 PROVE  \/ u \in session_pool[Home[u]]
                        \/ \E b \in Cells : u \in list'[b]
                        \/ \E t \in Threads : hand'[t] = u
      BY <2>0 DEF Placed
    <2>1. \A b \in Cells : u \in list[b] => u \in list'[b]
      BY <1>b
    <2>2. \A t \in Threads : hand[t] = u => hand'[t] = u
      BY <1>0, <1>a, Basics DEF Types
    <2> QED BY <2>1, <2>2 DEF Placed
  <1>9. Counts'
    <2> SUFFICES ASSUME NEW b \in Cells
                 PROVE  /\ IsFiniteSet(list'[b])
                        /\ count[b] = Cardinality(list'[b]) + (IF Ahead(b)' THEN 1 ELSE 0)
      BY DEF Counts
    <2>1. CASE b = at[Cleaner]
      <3>1. ~Ahead(b) /\ Ahead(b)'
        BY <1>a, <2>1, Basics DEF Ahead, Types
      <3>2. /\ IsFiniteSet(list[b] \ {s}) /\ Cardinality(list[b]) \in Nat
            /\ Cardinality(list[b] \ {s}) = Cardinality(list[b]) - 1
        BY <1>a, <2>1, FS_RemoveElement, FS_CardinalityType DEF Counts
      <3>3. count[b] = Cardinality(list[b])
        BY <3>1, <3>2 DEF Counts
      <3>4. list'[b] = list[b] \ {s}
        BY <1>b, <2>1
      <3> HIDE DEF DeleteSession, IInv
      <3> QED BY <3>1, <3>2, <3>3, <3>4
    <2>2. CASE b # at[Cleaner]
      <3>1. Ahead(b)' <=> Ahead(b)
        BY <2>2, Basics DEF Ahead, Types, Locks
      <3> QED BY <1>b, <2>2, <3>1 DEF Counts
    <2> QED BY <2>1, <2>2
  <1>10. Doomed'
    BY Basics, UsedItem DEF Doomed, Types
  <1>11. OneSessionPerKey'
    BY <1>b DEF OneSessionPerKey
  <1>12. OnlyIdleDeleted'
    BY <1>0, <1>a, <1>b DEF OnlyIdleDeleted, Types
  <1> QED BY <1>1, <1>2, <1>3, <1>4, <1>5, <1>6, <1>7, <1>8, <1>9, <1>10, <1>11, <1>12

(* The cleaner releases the lock and moves on. *)
LEMMA CleanerUnlockStep ==
    ASSUME IInv, CleanerUnlock
    PROVE  IInv'
  <1> USE DEF IInv, CleanerUnlock, Step
  <1>a. lock[at[Cleaner]] = Cleaner /\ at[Cleaner] \in Cells /\ hand[Cleaner] = NoSession
    BY Basics DEF Locks, MustHold, Hands, Types
  <1>1. Types'
    <2>1. at[Cleaner] # LastCell => After(at[Cleaner]) \in Cells
      BY <1>a, TableAssumption DEF LastCell, After, Cells, Managers, Buckets
    <2> QED BY <1>a, <2>1, Basics DEF Types, Release
  <1>2. Pcs'
    BY Basics, UsedItem DEF Pcs, ManagerPcs, CleanerPcs, Working, Types
  <1>3. Locks'
    BY Basics, UsedItem DEF Locks, MustHold, MayHold, Acquire, Release, Free, Types
  <1>4. Hands'
    BY <1>a, Basics DEF Hands, Live, Types, Release
  <1>5. Fresh'
    BY Basics, UsedItem DEF Fresh, Types
  <1>6. Work'
    BY Basics, UsedItem DEF Work, Working, Types
  <1>7. Pools' BY DEF Pools
  <1>8. Placed' BY DEF Placed
  <1>9. Counts'
    <2> SUFFICES ASSUME NEW b \in Cells
                 PROVE  Ahead(b)' <=> Ahead(b)
      BY DEF Counts
    <2>1. CASE b = at[Cleaner]
      BY <1>a, <2>1, Basics DEF Ahead, Types, Release
    <2>2. CASE b # at[Cleaner]
      BY <1>a, <2>2, Basics DEF Ahead, Types, Locks, Release
    <2> QED BY <2>1, <2>2
  <1>10. Doomed'
    BY Basics, UsedItem DEF Doomed, Types
  <1>11. OneSessionPerKey' BY DEF OneSessionPerKey
  <1>12. OnlyIdleDeleted'
    BY Basics, UsedItem DEF OnlyIdleDeleted, Types
  <1> QED BY <1>1, <1>2, <1>3, <1>4, <1>5, <1>6, <1>7, <1>8, <1>9, <1>10, <1>11, <1>12

(* All sessions are in the pools, and no bucket holds one. *)
LEMMA InitHolds == Init => IInv
  <1> SUFFICES ASSUME Init PROVE IInv
    OBVIOUS
  <1> USE DEF Init
  <1>1. Types
    <2>1. <<1, 1>> \in Cells
      BY TableAssumption DEF Cells, Managers, Buckets
    <2> QED BY <2>1, TableAssumption DEF Types
  <1>2. Pcs BY Basics DEF Pcs, ManagerPcs, CleanerPcs, Working
  <1>3. Locks BY Basics DEF Locks, MustHold
  <1>4. Hands BY DEF Hands
  <1>5. Fresh BY Basics DEF Fresh
  <1>6. Work BY Basics DEF Work, Working
  <1>7. Pools BY DEF Pools
  <1>8. Placed BY Basics DEF Placed
  <1>9. Counts BY Basics, FS_EmptySet DEF Counts, Ahead
  <1>10. Doomed /\ OneSessionPerKey /\ OnlyIdleDeleted
    BY DEF Doomed, OneSessionPerKey, OnlyIdleDeleted
  <1> QED BY <1>1, <1>2, <1>3, <1>4, <1>5, <1>6, <1>7, <1>8, <1>9, <1>10 DEF IInv

(* Every step preserves the inductive invariant. *)
LEMMA StepPreserves ==
    ASSUME IInv, [Next]_vars
    PROVE  IInv'
  <1>1. CASE UNCHANGED vars
    <2> USE <1>1 DEF IInv, vars
    <2>1. Types' /\ Pcs' /\ Locks' /\ Work'
      BY DEF Types, Pcs, Locks, Work
    <2>2. Hands' /\ Fresh'
      BY DEF Hands, Live, Fresh
    <2>3. Pools' /\ Placed' /\ Counts'
      BY DEF Pools, Placed, Counts, Ahead
    <2>4. Doomed' /\ OneSessionPerKey' /\ OnlyIdleDeleted'
      BY DEF Doomed, OneSessionPerKey, OnlyIdleDeleted
    <2> QED BY <2>1, <2>2, <2>3, <2>4
  <1>2. ASSUME NEW k \in Keys, NEW n \in Lengths, Arrive(k, n) PROVE IInv'
    BY <1>2, ArriveStep
  <1>3. CASE Tick BY <1>3, TickStep
  <1>4. CASE Reload BY <1>4, ReloadStep
  <1>5. ASSUME NEW m \in Managers, LockBucket(m) \/ ManagerStep(m) PROVE IInv'
    BY <1>5, Basics, LockBucketStep, TakeFlowStep, NewSessionStep, AppendPayloadStep,
       CloseSessionStep, GiveBackStep, DropCountStep, RecyclePacketStep, RecycleFlowStep,
       LinkSessionStep, UnlockBucketStep DEF ManagerStep
  <1>6. CASE CleanerLock \/ CleanerStep
    BY <1>6, Basics, CleanerLockStep, StartPassStep, DeleteSessionStep, GiveBackStep,
       DropCountStep, CleanerUnlockStep DEF CleanerStep
  <1> QED BY <1>1, <1>2, <1>3, <1>4, <1>5, <1>6 DEF Next

(* The inductive invariant holds in every state. *)
LEMMA Invariance == Spec => []IInv
  BY InitHolds, StepPreserves, PTL DEF Spec

-----------------------------------------------------------------------------
(* A session is in exactly one place, and bucket->count is the length of   *)
(* the list whenever the lock is free (hash_add_item, delete_session).     *)
LEMMA OnePlace == IInv => SessionsConserved
  <1> SUFFICES ASSUME IInv PROVE SessionsConserved
    OBVIOUS
  <1>1. ASSUME NEW s \in Sessions
        PROVE  Cardinality({m \in Managers : s \in session_pool[m]})
                 + Cardinality({b \in Cells : s \in list[b]})
                 + Cardinality({t \in Threads : hand[t] = s}) = 1
    <2> DEFINE P == {m \in Managers : s \in session_pool[m]}
               L == {b \in Cells : s \in list[b]}
               H == {t \in Threads : hand[t] = s}
    <2>0. s # NoSession /\ Home[s] \in Managers
      BY Basics
    <2>1. ASSUME s \in session_pool[Home[s]]
          PROVE  Cardinality(P) + Cardinality(L) + Cardinality(H) = 1
      <3>1. P = {Home[s]}
        BY <2>0, <2>1 DEF IInv, Pools
      <3>2. L = {} /\ H = {}
        BY <2>0, <2>1, Listed, UsedItem DEF IInv, Pools
      <3> HIDE DEF P, L, H
      <3>3. Cardinality(P) = 1
        BY <3>1, FS_Singleton
      <3>4. Cardinality(L) = 0 /\ Cardinality(H) = 0
        BY <3>2, FS_EmptySet
      <3> QED BY <3>3, <3>4
    <2>2. ASSUME NEW b \in Cells, s \in list[b]
          PROVE  Cardinality(P) + Cardinality(L) + Cardinality(H) = 1
      <3>1. L = {b}
        BY <2>2, Listed
      <3>2. P = {} /\ H = {}
        BY <2>0, <2>2, Listed DEF IInv, Hands
      <3> HIDE DEF P, L, H
      <3> QED BY <3>1, <3>2, FS_EmptySet, FS_Singleton
    <2>3. ASSUME NEW t \in Threads, hand[t] = s
          PROVE  Cardinality(P) + Cardinality(L) + Cardinality(H) = 1
      <3>1. H = {t}
        BY <2>0, <2>3 DEF IInv, Hands
      <3>2. L = {}
        BY <2>0, <2>3 DEF IInv, Hands
      <3>3. P = {}
        BY <2>0, <2>3, Listed, UsedItem DEF IInv, Pools
      <3> HIDE DEF P, L, H
      <3> QED BY <3>1, <3>2, <3>3, FS_EmptySet, FS_Singleton
    <2> QED BY <2>1, <2>2, <2>3 DEF IInv, Placed
  <1>2. ASSUME NEW b \in Cells, Free(b)
        PROVE  count[b] = Cardinality(list[b])
    <2>1. ~Ahead(b) /\ IsFiniteSet(list[b])
      BY <1>2, Basics DEF Free, Ahead, IInv, Counts
    <2> QED BY <2>1, FS_CardinalityType DEF IInv, Counts
  <1> QED BY <1>1, <1>2 DEF SessionsConserved

(* No session is lost, duplicated or counted wrongly, for any number of    *)
(* managers, buckets and sessions.                                         *)
THEOREM SessionsAreConserved == Spec => []SessionsConserved
  BY Invariance, OnePlace, PTL

(* A 5-tuple has one session, in the bucket its hashes select, while       *)
(* managers and cleaner work on the table at the same time.                *)
THEOREM KeysAreUnique == Spec => []OneSessionPerKey
  <1>1. IInv => OneSessionPerKey BY DEF IInv
  <1> QED BY <1>1, Invariance, PTL

(* What the cleaner has marked stays linked and idle until it is deleted.  *)
THEOREM IdleStayIdle == Spec => []OnlyIdleDeleted
  <1>1. IInv => OnlyIdleDeleted BY DEF IInv
  <1> QED BY <1>1, Invariance, PTL

-----------------------------------------------------------------------------
(* Flows and packets.  On(q, f) is Underway for given queues and hands. *)
On(q, f) == Queued(q) \cup Held(f)

Flowing(p) == {m \in Managers : p[m] = "flow"}

(* An entry that is on its way is at a place in a queue or in a hand. *)
LEMMA InOn ==
    ASSUME NEW q, NEW f, NEW e
    PROVE  e \in On(q, f) <=>
             \E m \in Managers : \/ \E i \in DOMAIN q[m] : e = <<m, i>>
                                 \/ f[m] # NoFlow /\ e = <<m, 0>>
  <1>1. e \in Queued(q) <=> \E m \in Managers : e \in {m} \X DOMAIN q[m]
    BY DEF Queued
  <1>2. ASSUME NEW m \in Managers
        PROVE  e \in {m} \X DOMAIN q[m] <=> \E i \in DOMAIN q[m] : e = <<m, i>>
    OBVIOUS
  <1>3. e \in Held(f) <=> \E m \in Managers : f[m] # NoFlow /\ e = <<m, 0>>
    BY DEF Held
  <1> QED BY <1>1, <1>2, <1>3 DEF On

FInv ==
    /\ IsFiniteSet(Underway) /\ FlowsConserved
    /\ free_flows \in Nat

(* No flow is on its way at the start. *)
LEMMA FlowsInit == Init => FInv
  <1> SUFFICES ASSUME Init PROVE FInv
    OBVIOUS
  <1>1. Underway = {}
    BY DEF Init, Underway, Queued, Held
  <1>2. {m \in Managers : pc[m] = "flow"} = {}
    BY DEF Init, Managers, Threads, Cleaner
  <1>3. Flows \in Nat /\ free_flows = Flows /\ free_packets = Flows
    BY TableAssumption DEF Init
  <1> QED BY <1>1, <1>2, <1>3, FS_EmptySet DEF FInv, FlowsConserved

(* How each kind of step changes the two sets. *)
LEMMA FlowsStep ==
    ASSUME IInv, IInv', FInv, [Next]_vars
    PROVE  FInv'
  <1> DEFINE U == On(queue, flow)  V == On(queue', flow')
             F == Flowing(pc)      G == Flowing(pc')
  <1>0. /\ U = Underway /\ V = Underway'
        /\ F = {m \in Managers : pc[m] = "flow"} /\ G = {m \in Managers : pc'[m] = "flow"}
    BY DEF Underway, On, Flowing
  <1>1. /\ IsFiniteSet(U) /\ Cardinality(U) \in Nat /\ free_flows \in Nat
        /\ IsFiniteSet(F) /\ Cardinality(F) \in Nat /\ Flows \in Nat
        /\ free_flows + Cardinality(U) = Flows
        /\ free_packets = free_flows + Cardinality(F)
    <2>1. IsFiniteSet(Managers)
      BY FS_Interval, TableAssumption DEF Managers
    <2>2. IsFiniteSet(F)
      BY <2>1, FS_Subset DEF Flowing
    <2> QED BY <1>0, <2>2, FS_CardinalityType, TableAssumption DEF FInv, FlowsConserved
  <1>2. SUFFICES /\ IsFiniteSet(V) /\ free_flows' \in Nat
                 /\ free_flows' + Cardinality(V) = Flows
                 /\ free_packets' = free_flows' + Cardinality(G)
    BY <1>0 DEF FInv, FlowsConserved
  <1>3. ASSUME NEW k \in Keys, NEW n \in Lengths, Arrive(k, n)
        PROVE  /\ IsFiniteSet(V) /\ free_flows' \in Nat
               /\ free_flows' + Cardinality(V) = Flows
               /\ free_packets' = free_flows' + Cardinality(G)
    <2> DEFINE l == ManagerOf[k]  e == <<l, Len(queue[l]) + 1>>
    <2>1. /\ l \in Managers /\ queue[l] \in Seq(FlowItems) /\ flow' = flow
          /\ queue'[l] = Append(queue[l], [key |-> k, payload_len |-> n])
          /\ \A m \in Managers : m # l => queue'[m] = queue[m]
      BY <1>3, Basics DEF Arrive, IInv, Types
    <2>2. DOMAIN queue'[l] = DOMAIN queue[l] \cup {Len(queue[l]) + 1}
          /\ Len(queue[l]) + 1 \notin DOMAIN queue[l] /\ Len(queue[l]) + 1 # 0
      BY <2>1
    <2>3. V = U \cup {e}
      <3>1. ASSUME NEW x PROVE x \in V <=> (x \in U \/ x = e)
        BY <2>1, <2>2, InOn
      <3> QED BY <3>1
    <2>4. e \notin U
      BY <2>2, InOn
    <2>5. G = F /\ free_flows' = free_flows - 1 /\ free_packets' = free_packets - 1 /\ free_flows > 0
      BY <1>3 DEF Arrive, Flowing
    <2> HIDE DEF U, V, F, G
    <2>6. IsFiniteSet(V) /\ Cardinality(V) = Cardinality(U) + 1
      BY <1>1, <2>3, <2>4, FS_AddElement
    <2> QED BY <1>1, <2>5, <2>6
  <1>4. ASSUME NEW m \in Managers, TakeFlow(m)
        PROVE  /\ IsFiniteSet(V) /\ free_flows' \in Nat
               /\ free_flows' + Cardinality(V) = Flows
               /\ free_packets' = free_flows' + Cardinality(G)
    <2> DEFINE e == <<m, Len(queue[m])>>  h == <<m, 0>>
    <2>1. /\ queue[m] \in Seq(FlowItems) /\ queue[m] # <<>>
          /\ flow[m] = NoFlow /\ flow'[m] # NoFlow /\ queue'[m] = Tail(queue[m])
          /\ \A l \in Managers : l # m => queue'[l] = queue[l] /\ flow'[l] = flow[l]
      <3>1. /\ queue[m] \in Seq(FlowItems) /\ queue[m] # <<>> /\ queue'[m] = Tail(queue[m])
            /\ flow'[m] = Head(queue[m])
            /\ \A l \in Managers : l # m => queue'[l] = queue[l] /\ flow'[l] = flow[l]
        BY <1>4 DEF TakeFlow, IInv, Types
      <3>2. flow[m] = NoFlow
        BY <1>4 DEF TakeFlow, Step, IInv, Work, Working
      <3> QED BY <3>1, <3>2, Basics
    <2>2. /\ DOMAIN queue'[m] = DOMAIN queue[m] \ {Len(queue[m])}
          /\ Len(queue[m]) \in DOMAIN queue[m] /\ Len(queue[m]) # 0 /\ 0 \notin DOMAIN queue[m]
      BY <2>1
    <2>3. V = (U \ {e}) \cup {h}
      <3>1. ASSUME NEW x PROVE x \in V <=> ((x \in U /\ x # e) \/ x = h)
        <4> DEFINE In(l, q, f) == (\E i \in DOMAIN q[l] : x = <<l, i>>) \/ (f[l] # NoFlow /\ x = <<l, 0>>)
        <4>1. x \in U <=> \E l \in Managers : In(l, queue, flow)
          BY InOn
        <4>2. x \in V <=> \E l \in Managers : In(l, queue', flow')
          BY InOn
        <4>3. ASSUME NEW l \in Managers, l # m
              PROVE  In(l, queue', flow') <=> In(l, queue, flow) /\ x # e /\ x # h
          BY <2>1, <4>3
        <4>4. In(m, queue', flow') <=> (In(m, queue, flow) /\ x # e) \/ x = h
          BY <2>1, <2>2
        <4>5. ASSUME NEW l \in Managers, l # m
              PROVE  In(l, queue, flow) => x # e /\ x # h
          BY <4>5
        <4> HIDE DEF In, U, V
        <4> QED BY <4>1, <4>2, <4>3, <4>4, <4>5
      <3> QED BY <3>1
    <2>4. e \in U /\ h \notin U
      BY <2>1, <2>2, InOn
    <2>5. G = F /\ free_flows' = free_flows /\ free_packets' = free_packets
      BY <1>4, Basics DEF TakeFlow, Step, Flowing, IInv, Types
    <2> HIDE DEF U, V, F, G
    <2>6. IsFiniteSet(U \ {e}) /\ Cardinality(U \ {e}) = Cardinality(U) - 1 /\ h \notin U \ {e}
      BY <1>1, <2>4, FS_RemoveElement
    <2>7. IsFiniteSet(V) /\ Cardinality(V) = Cardinality(U \ {e}) + 1
      BY <2>3, <2>6, FS_AddElement
    <2> QED BY <1>1, <2>5, <2>6, <2>7
  <1>5. ASSUME NEW m \in Managers, RecyclePacket(m)
        PROVE  /\ IsFiniteSet(V) /\ free_flows' \in Nat
               /\ free_flows' + Cardinality(V) = Flows
               /\ free_packets' = free_flows' + Cardinality(G)
    <2>1. V = U /\ free_flows' = free_flows /\ free_packets' = free_packets + 1
      BY <1>5 DEF RecyclePacket, On
    <2>2. G = F \cup {m} /\ m \notin F
      BY <1>5, Basics DEF RecyclePacket, Step, Flowing, IInv, Types
    <2> HIDE DEF U, V, F, G
    <2>3. Cardinality(G) = Cardinality(F) + 1
      BY <1>1, <2>2, FS_AddElement
    <2> QED BY <1>1, <2>1, <2>3
  <1>6. ASSUME NEW m \in Managers, RecycleFlow(m)
        PROVE  /\ IsFiniteSet(V) /\ free_flows' \in Nat
               /\ free_flows' + Cardinality(V) = Flows
               /\ free_packets' = free_flows' + Cardinality(G)
    <2> DEFINE h == <<m, 0>>
    <2>1. /\ queue' = queue /\ flow[m] # NoFlow /\ flow'[m] = NoFlow
          /\ \A l \in Managers : l # m => flow'[l] = flow[l]
          /\ 0 \notin DOMAIN queue[m]
      BY <1>6 DEF RecycleFlow, Step, IInv, Types, Work, Working
    <2>2. V = U \ {h}
      <3>1. ASSUME NEW x PROVE x \in V <=> (x \in U /\ x # h)
        BY <2>1, InOn
      <3> QED BY <3>1
    <2>3. h \in U
      BY <2>1, InOn
    <2>4. free_flows' = free_flows + 1 /\ free_packets' = free_packets
      BY <1>6 DEF RecycleFlow
    <2>5. G = F \ {m} /\ m \in F
      BY <1>6, Basics DEF RecycleFlow, Step, Flowing, IInv, Types
    <2> HIDE DEF U, V, F, G
    <2>6. IsFiniteSet(V) /\ Cardinality(V) = Cardinality(U) - 1 /\ Cardinality(G) = Cardinality(F) - 1
      BY <1>1, <2>2, <2>3, <2>5, FS_RemoveElement
    <2> QED BY <1>1, <2>4, <2>6
  <1>7. ASSUME UNCHANGED <<queue, flow, free_flows, free_packets>>,
               \A m \in Managers : (pc'[m] = "flow") <=> (pc[m] = "flow")
        PROVE  /\ IsFiniteSet(V) /\ free_flows' \in Nat
               /\ free_flows' + Cardinality(V) = Flows
               /\ free_packets' = free_flows' + Cardinality(G)
    BY <1>1, <1>7 DEF Flowing
  <1>8. ASSUME NEW m \in Managers,
               LockBucket(m) \/ NewSession(m) \/ AppendPayload(m) \/ CloseSession(m)
                 \/ GiveBack(m) \/ DropCount(m) \/ LinkSession(m) \/ UnlockBucket(m)
        PROVE  /\ UNCHANGED <<queue, flow, free_flows, free_packets>>
               /\ \A l \in Managers : (pc'[l] = "flow") <=> (pc[l] = "flow")
    BY SMTT(30), <1>8, Basics DEF IInv, Types, Step, LockBucket, NewSession, AppendPayload, CloseSession,
         GiveBack, DropCount, LinkSession, UnlockBucket
  <1>9. ASSUME Tick \/ Reload \/ CleanerLock \/ CleanerStep \/ UNCHANGED vars
        PROVE  /\ UNCHANGED <<queue, flow, free_flows, free_packets>>
               /\ \A l \in Managers : (pc'[l] = "flow") <=> (pc[l] = "flow")
    BY <1>9, Basics DEF IInv, Types, Step, Tick, Reload, CleanerLock, CleanerStep, StartPass,
         DeleteSession, GiveBack, DropCount, CleanerUnlock, vars
  <1> HIDE DEF U, V, F, G
  <1> QED BY <1>3, <1>4, <1>5, <1>6, <1>7, <1>8, <1>9 DEF Next, ManagerStep

(* Both invariants always hold. *)
LEMMA FlowInvariance == Spec => [](IInv /\ FInv)
  <1>1. Init => IInv /\ FInv
    BY InitHolds, FlowsInit
  <1>2. IInv /\ FInv /\ [Next]_vars => (IInv /\ FInv)'
    BY StepPreserves, FlowsStep
  <1> QED BY <1>1, <1>2, PTL DEF Spec

(* Every flow and every packet a parser hands over is free, queued or in a *)
(* manager's hand (packet_manager_loop recycles both exactly once).        *)
THEOREM FlowsAreConserved == Spec => []FlowsConserved
  <1>1. IInv /\ FInv => FlowsConserved BY DEF FInv
  <1> QED BY <1>1, FlowInvariance, PTL

(* Types: an append never reaches the end of the buffer, whatever payloads  *)
(* came before and however long the first one was (the test hash_add_item   *)
(* makes; make_new_session makes none, so that first payload may pass it);  *)
(* the cleaner's cursor stays inside the table, and no more packets or      *)
(* flows come back than were handed out.                                    *)
THEOREM TypeCorrect == Spec => []TypeOK
  <1>1. ASSUME IInv, FInv PROVE TypeOK
    <2> DEFINE F == {m \in Managers : pc[m] = "flow"}
               f == [m \in F |-> <<m, 0>>]
    <2>1. \A m \in F : <<m, 0>> \in Underway
      <3>1. \A m \in F : m \in Managers /\ flow[m] # NoFlow
        BY <1>1 DEF IInv, Work, Working
      <3>2. Underway = On(queue, flow)
        BY DEF Underway, On
      <3> QED BY <3>1, <3>2, InOn
    <2>2. f \in Injection(F, Underway)
      BY <2>1 DEF Injection, IsInjective
    <2>3. IsFiniteSet(F) /\ Cardinality(F) <= Cardinality(Underway)
      BY <1>1, <2>2, FS_Injection DEF FInv
    <2>4. Cardinality(F) \in Nat /\ Cardinality(Underway) \in Nat
      BY <1>1, <2>3, FS_CardinalityType DEF FInv
    <2>5. /\ free_flows + Cardinality(Underway) = Flows /\ free_flows \in Nat
          /\ free_packets = free_flows + Cardinality(F) /\ Flows \in Nat
      BY <1>1, TableAssumption DEF FInv, FlowsConserved
    <2> HIDE DEF F
    <2>6. free_packets \in 0..Flows /\ free_flows \in 0..Flows
      BY <2>3, <2>4, <2>5
    <2> QED BY <1>1, <2>6 DEF IInv, Types, TypeOK, Used, CurLens
  <1> QED BY <1>1, FlowInvariance, PTL
=============================================================================
