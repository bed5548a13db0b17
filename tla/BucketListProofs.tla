-------------------------- MODULE BucketListProofs --------------------------
(***************************************************************************)
(* For any number of buckets, nodes and keys: the pointers of list.h form  *)
(* one circle per bucket, the cleaner visits exactly the nodes it found    *)
(* when it took the lock, the counts are one off at most, and pointers,    *)
(* cursors and threads together implement OrderedBuckets.                  *)
(*                                                                         *)
(* A bucket's lock makes its circle the business of one thread.  What a    *)
(* thread has unlinked is its own until it is in the pool, and whoever     *)
(* takes it from there can only link it into another bucket, because this  *)
(* one is still locked: the cleaner's second cursor stays on the circle.   *)
(***************************************************************************)
EXTENDS BucketList, SequenceTheorems, FiniteSetTheorems, WellFoundedInduction, TLAPS

Size == Cardinality(Nodes)
Elements(s) == {s[i] : i \in DOMAIN s}
Distinct(s) == \A i, j \in DOMAIN s : s[i] = s[j] => i = j

(* The i-th stop on a tour through s that starts and ends at h. *)
Stop(s, h, i) == IF i \in 1..Len(s) THEN s[i] ELSE h

(* What is left of s from its i-th element on. *)
Rest(s, i) == [j \in 1..(Len(s) - i + 1) |-> s[i + j - 1]]

(* s without its i-th element. *)
Without(s, i) == [j \in 1..(Len(s) - 1) |-> IF j < i THEN s[j] ELSE s[j + 1]]

(* The nodes of s and the head h form a circle. *)
Circle(nx, pv, s, h) ==
    /\ s \in Seq(Nodes) /\ Distinct(s)
    /\ \A i \in 0..Len(s) : /\ nx[Stop(s, h, i)] = Stop(s, h, i + 1)
                            /\ pv[Stop(s, h, i + 1)] = Stop(s, h, i)

-----------------------------------------------------------------------------
(* The inductive invariant. *)

Inside == {"find", "take", "found", "link", "linked", "give", "count", "unlock", "visit", "advance"}
ManagerPcs == {"wait", "lock", "find", "take", "found", "link", "linked", "give", "count", "unlock"}
CleanerPcs == {"wait", "lock", "visit", "advance", "give", "count"}
Pcs == pc[Manager] \in ManagerPcs /\ pc[Cleaner] \in CleanerPcs

Circles ==
    /\ \A b \in Buckets : Circle(next, prev, Chain(b), b)
    /\ \A b, c \in Buckets : b # c => In(b) \cap In(c) = {}
    /\ session_pool \cap Linked = {}

(* Who is in its critical section holds the lock of its bucket, and nobody *)
(* else holds one.                                                         *)
Locks ==
    \A b \in Buckets, t \in Threads : lock[b] = t <=> at[t] = b /\ pc[t] \in Inside

(* A node in hand is on no circle, in no pool and in no other hand. *)
Hands ==
    /\ \A t \in Threads : pc[t] \in {"give", "link"} => p[t] \in Nodes \ (Linked \cup session_pool)
    /\ \A t \in Threads, b \in Buckets : pc[t] = "count" /\ at[t] = b => p[t] \in Nodes \ In(b)
    /\ pc[Manager] \in {"give", "link"} /\ pc[Cleaner] = "give" => p[Manager] # p[Cleaner]

(* The manager searches its flow's bucket from the front, and links a node *)
(* only after it has found nothing.                                        *)
Search(b) ==
    /\ pc[Manager] # "wait" => flow \in Keys /\ b = BucketOf[flow]
    /\ pc[Manager] = "find" =>
         \E i \in 1..(Len(Chain(b)) + 1) :
            p[Manager] = Stop(Chain(b), b, i) /\ \A j \in 1..(i - 1) : key[Chain(b)[j]] # flow
    /\ pc[Manager] \in {"take", "link"} => \A y \in In(b) : key[y] # flow
    /\ pc[Manager] \in {"found", "linked"} => p[Manager] \in In(b)
    /\ pc[Manager] = "link" => key[p[Manager]] = flow

Searching == \A b \in Buckets : at[Manager] = b => Search(b)

Filed ==
    /\ \A b \in Buckets : \A x \in In(b) : key[x] \in Keys /\ BucketOf[key[x]] = b
    /\ \A b \in Buckets : \A x, y \in In(b) : key[x] = key[y] => x = y

(* Between linking or unlinking a node and the count. *)
Behind(b) == at[Manager] = b /\ pc[Manager] = "linked"
Ahead(b) == \E t \in Threads : at[t] = b /\ pc[t] \in {"give", "count"}

Counted ==
    \A b \in Buckets :
      count[b] = IF Behind(b) THEN Len(Chain(b)) - 1 ELSE IF Ahead(b) THEN Len(Chain(b)) + 1 ELSE Len(Chain(b))

(* The cleaner is at the i-th node of what is left of its circle. *)
WalkedTo(i, s, b) ==
    /\ IF pc[Cleaner] = "visit" THEN p[Cleaner] = Stop(s, b, i) /\ (i # Len(s) + 1 => n = Stop(s, b, i + 1))
       ELSE n = Stop(s, b, i)
    /\ start = seen \o Rest(s, i)
    /\ Elements(s) = Elements(start) \ (doomed \cap Elements(seen))

InOrder(s) ==
    \A i, j \in DOMAIN s : \A k, l \in DOMAIN start : s[i] = start[k] /\ s[j] = start[l] /\ i < j => k < l

Walk(b) ==
    pc[Cleaner] \in Inside =>
      /\ \E i \in 1..(Len(Chain(b)) + 1) : WalkedTo(i, Chain(b), b)
      /\ InOrder(Chain(b))

Walking == \A b \in Buckets : at[Cleaner] = b => Walk(b)

IInv ==
    /\ TypeOK /\ Pcs /\ Circles /\ Locks /\ Hands /\ Searching /\ Filed /\ Counted /\ Walking

-----------------------------------------------------------------------------
(* Sequences. *)

(* What membership in Seq means. *)
LEMMA SeqFacts ==
    ASSUME NEW S, NEW s \in Seq(S)
    PROVE  /\ Len(s) \in Nat /\ DOMAIN s = 1..Len(s)
           /\ \A i \in 1..Len(s) : s[i] \in S
           /\ Elements(s) \subseteq S
           /\ \A x : x \in Elements(s) <=> \E i \in 1..Len(s) : s[i] = x
<1>1. Len(s) \in Nat /\ DOMAIN s = 1..Len(s) /\ \A i \in 1..Len(s) : s[i] \in S
  BY LenProperties, ElementOfSeq
<1> QED BY <1>1 DEF Elements

(* A function on 1..m is a sequence of length m. *)
LEMMA IsSeq ==
    ASSUME NEW S, NEW m \in Nat, NEW s, s \in [1..m -> S]
    PROVE  s \in Seq(S) /\ Len(s) = m
BY SMT

(* Sequences are equal when their lengths and elements are. *)
LEMMA SameSeq ==
    ASSUME NEW S, NEW s \in Seq(S), NEW t \in Seq(S), Len(s) = Len(t),
           \A i \in 1..Len(s) : s[i] = t[i]
    PROVE  s = t
BY SeqEqual

(* Append, element by element. *)
LEMMA Appended ==
    ASSUME NEW S, NEW s \in Seq(S), NEW x \in S
    PROVE  /\ Append(s, x) \in Seq(S) /\ Len(Append(s, x)) = Len(s) + 1
           /\ \A i \in 1..Len(s) : Append(s, x)[i] = s[i]
           /\ Append(s, x)[Len(s) + 1] = x
           /\ Elements(Append(s, x)) = Elements(s) \cup {x}
<1>1. /\ Append(s, x) \in Seq(S) /\ Len(Append(s, x)) = Len(s) + 1
      /\ \A i \in 1..Len(s) : Append(s, x)[i] = s[i]
      /\ Append(s, x)[Len(s) + 1] = x
  BY AppendProperties
<1>2. Len(s) \in Nat
  BY SeqFacts
<1>3. ASSUME NEW y PROVE y \in Elements(Append(s, x)) <=> y \in Elements(s) \/ y = x
  <2>1. y \in Elements(Append(s, x)) <=> \E i \in 1..(Len(s) + 1) : Append(s, x)[i] = y
    <3> DEFINE a == Append(s, x)
    <3>1. a \in Seq(S) /\ Len(a) = Len(s) + 1
      BY <1>1
    <3> HIDE DEF a
    <3>2. y \in Elements(a) <=> \E i \in 1..Len(a) : a[i] = y
      BY <3>1, SeqFacts
    <3>3. y \in Elements(a) <=> \E i \in 1..(Len(s) + 1) : a[i] = y
      BY <3>1, <3>2
    <3> QED BY <3>3 DEF a
  <2>2. y \in Elements(s) <=> \E i \in 1..Len(s) : s[i] = y
    BY SeqFacts
  <2>3. \A i \in 1..(Len(s) + 1) : i \in 1..Len(s) \/ i = Len(s) + 1
    BY <1>2
  <2>4. Len(s) + 1 \in 1..(Len(s) + 1) /\ \A i \in 1..Len(s) : i \in 1..(Len(s) + 1)
    BY <1>2
  <2> QED BY <1>1, <2>1, <2>2, <2>3, <2>4
<1> QED BY <1>1, <1>3

(* A node less. *)
LEMMA Shorter ==
    ASSUME NEW S, NEW s \in Seq(S), NEW k \in 1..Len(s), Distinct(s)
    PROVE  /\ Without(s, k) \in Seq(S) /\ Len(Without(s, k)) = Len(s) - 1
           /\ \A i \in 1..(Len(s) - 1) : Without(s, k)[i] = IF i < k THEN s[i] ELSE s[i + 1]
           /\ Elements(Without(s, k)) = Elements(s) \ {s[k]}
           /\ Distinct(Without(s, k))
<1> DEFINE t == Without(s, k)
<1>1. Len(s) \in Nat /\ DOMAIN s = 1..Len(s) /\ \A i \in 1..Len(s) : s[i] \in S
  BY SeqFacts
<1>2. /\ Len(s) - 1 \in Nat /\ k \in Int
      /\ \A i \in 1..(Len(s) - 1) : i \in Int /\ i \in 1..Len(s) /\ i + 1 \in 1..Len(s)
  BY <1>1
<1>3. t \in [1..(Len(s) - 1) -> S] /\ \A i \in 1..(Len(s) - 1) : t[i] = IF i < k THEN s[i] ELSE s[i + 1]
  BY <1>1, <1>2 DEF Without
<1> HIDE DEF t
<1>4. t \in Seq(S) /\ Len(t) = Len(s) - 1 /\ DOMAIN t = 1..(Len(s) - 1)
  BY <1>2, <1>3, IsSeq
<1>5. ASSUME NEW y PROVE y \in Elements(t) <=> y \in Elements(s) /\ y # s[k]
  <2>1. y \in Elements(t) <=> \E i \in 1..(Len(s) - 1) : t[i] = y
    BY <1>4, SeqFacts
  <2>2. y \in Elements(s) <=> \E i \in 1..Len(s) : s[i] = y
    BY SeqFacts
  <2>3. ASSUME NEW i \in 1..(Len(s) - 1) PROVE t[i] \in Elements(s) /\ t[i] # s[k]
    <3>1. i < k => s[i] # s[k]
      BY <1>1, <1>2 DEF Distinct
    <3>2. ~(i < k) => s[i + 1] # s[k]
      BY SMTT(30), <1>1, <1>2 DEF Distinct
    <3> QED BY <1>1, <1>2, <1>3, <3>1, <3>2 DEF Elements
  <2>4. ASSUME NEW i \in 1..Len(s), s[i] # s[k] PROVE \E j \in 1..(Len(s) - 1) : t[j] = s[i]
    <3>1. i # k /\ i \in Int
      BY <2>4
    <3>2. CASE i < k
      <4>1. i \in 1..(Len(s) - 1)
        BY <1>1, <1>2, <3>2
      <4> QED BY <1>3, <3>2, <4>1
    <3>3. CASE i > k
      <4>1. i - 1 \in 1..(Len(s) - 1) /\ ~(i - 1 < k) /\ (i - 1) + 1 = i
        BY <1>1, <1>2, <3>3
      <4> QED BY <1>3, <4>1
    <3> QED BY SMTT(30), <1>2, <3>1, <3>2, <3>3
  <2> QED BY <2>1, <2>2, <2>3, <2>4
<1>6. Distinct(t)
  <2>1. SUFFICES ASSUME NEW i \in 1..(Len(s) - 1), NEW j \in 1..(Len(s) - 1), t[i] = t[j] PROVE i = j
    BY <1>4 DEF Distinct
  <2>2. i \in Int /\ j \in Int /\ i \in 1..Len(s) /\ i + 1 \in 1..Len(s) /\ j \in 1..Len(s) /\ j + 1 \in 1..Len(s)
    BY <1>2
  <2>3. \A u, v \in 1..Len(s) : s[u] = s[v] => u = v
    BY <1>1 DEF Distinct
  <2>4. (i < k /\ j < k => i = j) /\ (~(i < k) /\ ~(j < k) => i + 1 = j + 1)
        /\ (i < k /\ ~(j < k) => i = j + 1) /\ (~(i < k) /\ j < k => i + 1 = j)
    BY <1>3, <2>1, <2>2, <2>3
  <2> QED BY <1>2, <2>2, <2>4
<1>7. Elements(t) = Elements(s) \ {s[k]}
  BY <1>5
<1> QED BY <1>3, <1>4, <1>6, <1>7 DEF t

(* The rest of a sequence. *)
LEMMA RestFacts ==
    ASSUME NEW S, NEW s \in Seq(S), NEW i \in 1..(Len(s) + 1)
    PROVE  /\ Rest(s, i) \in Seq(S) /\ Len(Rest(s, i)) = Len(s) - i + 1
           /\ \A j \in 1..(Len(s) - i + 1) : Rest(s, i)[j] = s[i + j - 1] /\ i + j - 1 \in 1..Len(s)
           /\ Rest(s, 1) = s
           /\ Rest(s, Len(s) + 1) = <<>>
<1>1. Len(s) \in Nat /\ DOMAIN s = 1..Len(s) /\ \A j \in 1..Len(s) : s[j] \in S
  BY SeqFacts
<1>2. Len(s) - i + 1 \in Nat /\ \A j \in 1..(Len(s) - i + 1) : i + j - 1 \in 1..Len(s)
  BY <1>1
<1>3. /\ Rest(s, i) \in [1..(Len(s) - i + 1) -> S]
      /\ \A j \in 1..(Len(s) - i + 1) : Rest(s, i)[j] = s[i + j - 1]
  BY <1>1, <1>2 DEF Rest
<1>4. Rest(s, i) \in Seq(S) /\ Len(Rest(s, i)) = Len(s) - i + 1
  BY ZenonT(40), <1>2, <1>3, IsSeq
<1>5. Rest(s, 1) = s
  <2>1. Len(s) - 1 + 1 = Len(s) /\ \A j \in 1..Len(s) : 1 + j - 1 = j
    BY <1>1
  <2>2. Rest(s, 1) \in [1..Len(s) -> S] /\ \A j \in 1..Len(s) : Rest(s, 1)[j] = s[j]
    BY <1>1, <2>1 DEF Rest
  <2>3. Rest(s, 1) \in Seq(S) /\ Len(Rest(s, 1)) = Len(s)
    BY <1>1, <2>2, IsSeq
  <2> QED BY <2>2, <2>3, SameSeq
<1>6. Rest(s, Len(s) + 1) = <<>>
  <2>1. Len(s) - (Len(s) + 1) + 1 = 0
    BY <1>1
  <2>2. Rest(s, Len(s) + 1) \in [1..0 -> S]
    BY <2>1 DEF Rest
  <2>3. Rest(s, Len(s) + 1) \in Seq(S) /\ Len(Rest(s, Len(s) + 1)) = 0
    BY <2>2, IsSeq
  <2> QED BY <2>3, EmptySeq
<1> QED BY <1>2, <1>3, <1>4, <1>5, <1>6

(* One element further. *)
LEMMA NextRest ==
    ASSUME NEW S, NEW r \in Seq(S), NEW s \in Seq(S), NEW i \in 1..Len(s)
    PROVE  r \o Rest(s, i) = Append(r, s[i]) \o Rest(s, i + 1)
<1>1. /\ Len(s) \in Nat /\ Len(r) \in Nat /\ s[i] \in S
  BY SeqFacts
<1>2. i \in 1..(Len(s) + 1) /\ i + 1 \in 1..(Len(s) + 1) /\ i \in Int
  BY <1>1
<1> DEFINE u == Rest(s, i)
           v == Rest(s, i + 1)
           a == Append(r, s[i])
<1>3. /\ u \in Seq(S) /\ Len(u) = Len(s) - i + 1
      /\ \A j \in 1..(Len(s) - i + 1) : u[j] = s[i + j - 1]
  BY <1>2, RestFacts
<1>4. /\ v \in Seq(S) /\ Len(v) = Len(s) - (i + 1) + 1
      /\ \A j \in 1..(Len(s) - (i + 1) + 1) : v[j] = s[(i + 1) + j - 1]
  BY <1>2, RestFacts
<1>5. /\ a \in Seq(S) /\ Len(a) = Len(r) + 1 /\ a[Len(r) + 1] = s[i]
      /\ \A j \in 1..Len(r) : a[j] = r[j]
  BY <1>1, Appended
<1> HIDE DEF u, v, a
<1>6. /\ r \o u \in Seq(S) /\ Len(r \o u) = Len(r) + Len(u)
      /\ \A j \in 1..(Len(r) + Len(u)) : (r \o u)[j] = IF j <= Len(r) THEN r[j] ELSE u[j - Len(r)]
  BY <1>3, ConcatProperties
<1>7. /\ a \o v \in Seq(S) /\ Len(a \o v) = Len(a) + Len(v)
      /\ \A j \in 1..(Len(a) + Len(v)) : (a \o v)[j] = IF j <= Len(a) THEN a[j] ELSE v[j - Len(a)]
  BY <1>4, <1>5, ConcatProperties
<1>8. /\ Len(r) + Len(u) = Len(r) + (Len(s) - i + 1) /\ Len(a) + Len(v) = Len(r) + (Len(s) - i + 1)
      /\ Len(s) - i + 1 \in Nat
  BY <1>1, <1>2, <1>3, <1>4, <1>5
<1>9. ASSUME NEW j \in 1..(Len(r) + (Len(s) - i + 1)) PROVE (r \o u)[j] = (a \o v)[j]
  <2>1. j \in Int /\ j >= 1 /\ j <= Len(r) + (Len(s) - i + 1)
    BY <1>1, <1>2
  <2>2. /\ (r \o u)[j] = IF j <= Len(r) THEN r[j] ELSE u[j - Len(r)]
        /\ (a \o v)[j] = IF j <= Len(a) THEN a[j] ELSE v[j - Len(a)]
    BY <1>6, <1>7, <1>8
  <2>3. CASE j <= Len(r)
    <3>1. j <= Len(a) /\ j \in 1..Len(r)
      BY <1>1, <1>5, <2>1, <2>3
    <3> QED BY <1>5, <2>2, <2>3, <3>1
  <2>4. CASE j = Len(r) + 1
    <3>1. ~(j <= Len(r)) /\ j <= Len(a) /\ j - Len(r) = 1 /\ 1 \in 1..(Len(s) - i + 1) /\ i + 1 - 1 = i
      BY <1>1, <1>2, <1>5, <1>8, <2>1, <2>4
    <3>2. u[1] = s[i]
      BY <1>3, <3>1
    <3> QED BY <1>5, <2>2, <2>4, <3>1, <3>2
  <2>5. CASE j > Len(r) + 1
    <3>1. /\ ~(j <= Len(r)) /\ ~(j <= Len(a)) /\ j - Len(r) \in 1..(Len(s) - i + 1)
          /\ j - Len(a) \in 1..(Len(s) - (i + 1) + 1)
          /\ i + (j - Len(r)) - 1 = (i + 1) + (j - Len(a)) - 1
      BY <1>1, <1>2, <1>5, <2>1, <2>5
    <3>2. u[j - Len(r)] = s[i + (j - Len(r)) - 1] /\ v[j - Len(a)] = s[(i + 1) + (j - Len(a)) - 1]
      BY <1>3, <1>4, <3>1
    <3> QED BY <2>2, <3>1, <3>2
  <2>6. j <= Len(r) \/ j = Len(r) + 1 \/ j > Len(r) + 1
    BY <1>1, <2>1
  <2> QED BY <2>3, <2>4, <2>5, <2>6
<1>10. r \o u = a \o v
  BY <1>6, <1>7, <1>8, <1>9, SameSeq
<1> QED BY <1>10 DEF u, v, a

(* Without its i-th element, a sequence goes on from there as from the next. *)
LEMMA RestWithout ==
    ASSUME NEW S, NEW s \in Seq(S), Distinct(s), NEW i \in 1..Len(s), NEW h
    PROVE  /\ Rest(Without(s, i), i) = Rest(s, i + 1)
           /\ Stop(Without(s, i), h, i) = Stop(s, h, i + 1)
           /\ i \in 1..(Len(Without(s, i)) + 1)
<1> DEFINE t == Without(s, i)
<1>1. Len(s) \in Nat
  BY SeqFacts
<1>2. /\ t \in Seq(S) /\ Len(t) = Len(s) - 1
      /\ \A j \in 1..(Len(s) - 1) : t[j] = IF j < i THEN s[j] ELSE s[j + 1]
  BY Shorter
<1> HIDE DEF t
<1>3. i \in 1..(Len(t) + 1) /\ i + 1 \in 1..(Len(s) + 1) /\ i \in Int /\ Len(t) - i + 1 = Len(s) - (i + 1) + 1
  BY <1>1, <1>2
<1>4. Stop(t, h, i) = Stop(s, h, i + 1)
  <2>1. CASE i \in 1..Len(t)
    <3>1. i \in 1..(Len(s) - 1) /\ ~(i < i) /\ i + 1 \in 1..Len(s)
      BY <1>1, <1>2, <1>3, <2>1
    <3> QED BY <1>2, <2>1, <3>1 DEF Stop
  <2>2. CASE i \notin 1..Len(t)
    <3>1. i + 1 \notin 1..Len(s)
      BY <1>1, <1>2, <1>3, <2>2
    <3> QED BY <2>2, <3>1 DEF Stop
  <2> QED BY <2>1, <2>2
<1>5. /\ Rest(t, i) \in Seq(S) /\ Len(Rest(t, i)) = Len(t) - i + 1
      /\ \A j \in 1..(Len(t) - i + 1) : Rest(t, i)[j] = t[i + j - 1] /\ i + j - 1 \in 1..Len(t)
  BY <1>2, <1>3, RestFacts
<1>6. /\ Rest(s, i + 1) \in Seq(S) /\ Len(Rest(s, i + 1)) = Len(s) - (i + 1) + 1
      /\ \A j \in 1..(Len(s) - (i + 1) + 1) : Rest(s, i + 1)[j] = s[(i + 1) + j - 1]
  BY <1>3, RestFacts
<1>7. ASSUME NEW j \in 1..(Len(t) - i + 1) PROVE Rest(t, i)[j] = Rest(s, i + 1)[j]
  <2>1. i + j - 1 \in 1..(Len(s) - 1) /\ ~(i + j - 1 < i) /\ (i + j - 1) + 1 = (i + 1) + j - 1
    BY <1>1, <1>2, <1>3
  <2>2. t[i + j - 1] = s[(i + 1) + j - 1]
    BY <1>2, <2>1
  <2> QED BY <1>3, <1>5, <1>6, <2>2
<1>8. Rest(t, i) = Rest(s, i + 1)
  BY <1>3, <1>5, <1>6, <1>7, SameSeq
<1> QED BY <1>3, <1>4, <1>8 DEF t

-----------------------------------------------------------------------------
(* Walks. *)

(* The constants. *)
LEMMA Basics ==
    /\ Size \in Nat /\ IsFiniteSet(Nodes) /\ NULL \notin Cells /\ NULL \notin Nodes
    /\ Buckets \subseteq Cells /\ Nodes \subseteq Cells /\ Nodes \cap Buckets = {}
    /\ \A x \in Cells : x \in Buckets \/ x \in Nodes
    /\ \A k \in Keys : BucketOf[k] \in Buckets
    /\ NoKey \notin Keys /\ NoThread \notin Threads
    /\ Manager \in Threads /\ Cleaner \in Threads /\ Manager # Cleaner
    /\ \A t \in Threads : t = Manager \/ t = Cleaner
<1>1. IsFiniteSet(Nodes)
  BY BucketAssumption
<1>2. Size \in Nat
  BY <1>1, FS_CardinalityType DEF Size
<1>3. Manager \in Threads /\ Cleaner \in Threads /\ Manager # Cleaner /\ \A t \in Threads : t = Manager \/ t = Cleaner
  BY DEF Manager, Cleaner, Threads
<1> QED BY <1>1, <1>2, <1>3, BucketAssumption DEF Cells

(* Numbers. *)
LEMMA Smaller ==
    ASSUME NEW i \in Nat, NEW j \in Nat, i <= j
    PROVE  (IF j < i THEN j ELSE i) = i /\ (i # j => i + 1 <= j)
OBVIOUS

(* A set of numbers has a least element. *)
LEMMA Least ==
    ASSUME NEW S \in SUBSET Nat, S # {} PROVE \E i \in S : \A j \in S : i <= j
<1> DEFINE R == OpToRel(<, Nat)
<1>1. IsWellFoundedOn(R, Nat)
  BY NatLessThanWellFounded
<1>2. \A i, j \in Nat : <<i, j>> \in R <=> i < j
  BY DEF OpToRel
<1> HIDE DEF R
<1>3. PICK i \in S : \A j \in S : ~(<<j, i>> \in R)
  BY <1>1, WFMin
<1>4. ASSUME NEW j \in S PROVE i <= j
  <2>1. i \in Nat /\ j \in Nat /\ <<j, i>> \notin R
    BY <1>3
  <2>2. ~(j < i)
    BY <1>2, <2>1
  <2> QED BY <2>1, <2>2
<1> QED BY <1>4

(* Whatever satisfies the equations of the walk is the walk. *)
LEMMA TheWalk ==
    ASSUME NEW nx, NEW x, NEW h, NEW S, NEW g \in [0..Size -> S],
           g[0] = [to |-> x, nodes |-> <<>>],
           \A k \in 1..Size : g[k] = Onward(nx, h, g[k - 1])
    PROVE  Route(nx, x, h) = g[Size].nodes
<1> DEFINE walk[k \in 0..Cardinality(Nodes)] ==
             IF k = 0 THEN [to |-> x, nodes |-> <<>>] ELSE Onward(nx, h, walk[k - 1])
<1>1. Route(nx, x, h) = walk[Size].nodes
  BY DEF Route, Size
<1>2. walk = [k \in 0..Size |-> IF k = 0 THEN [to |-> x, nodes |-> <<>>] ELSE Onward(nx, h, walk[k - 1])]
  <2>1. \A k \in 0..Size : k = 0 \/ k \in 1..Size
    BY Basics
  <2>2. g = [k \in 0..Size |-> IF k = 0 THEN [to |-> x, nodes |-> <<>>] ELSE Onward(nx, h, g[k - 1])]
    BY <2>1
  <2> QED BY <2>2 DEF Size
<1> HIDE DEF walk
<1> DEFINE D == {k \in 0..Size : walk[k] # g[k]}
<1>3. D = {}
  <2> SUFFICES ASSUME D # {} PROVE FALSE
    OBVIOUS
  <2>1. D \in SUBSET Nat
    BY Basics
  <2>2. PICK k \in D : \A j \in D : k <= j
    BY <2>1, Least
  <2>3. k \in 0..Size /\ walk[k] # g[k]
    BY <2>2
  <2>4. CASE k = 0
    <3>1. 0 \in 0..Size
      BY <2>3, <2>4
    <3>2. walk[0] = [to |-> x, nodes |-> <<>>] /\ g[0] = [to |-> x, nodes |-> <<>>]
      BY <1>2, <3>1
    <3> QED BY <2>3, <2>4, <3>2
  <2>5. CASE k # 0
    <3>1. k - 1 \in 0..Size /\ ~(k <= k - 1)
      BY <2>3, <2>5, Basics
    <3>2. walk[k - 1] = g[k - 1]
      BY <2>2, <3>1
    <3>3. walk[k] = Onward(nx, h, walk[k - 1])
      BY <1>2, <2>3, <2>5
    <3>4. g[k] = Onward(nx, h, g[k - 1])
      <4>1. k \in 1..Size
        BY <2>3, <2>5, Basics
      <4> QED BY <4>1
    <3> QED BY <2>3, <3>2, <3>3, <3>4
  <2> QED BY <2>4, <2>5
<1>4. Size \in 0..Size
  BY Basics
<1>5. walk[Size] = g[Size]
  BY <1>3, <1>4
<1> QED BY <1>1, <1>5

(* The first k elements of s, or all. *)
Cut(s, k) == [i \in 1..(IF k < Len(s) THEN k ELSE Len(s)) |-> s[i]]

(* Pointers that lead through s to the head h: the walk finds s. *)
LEMMA RouteIs ==
    ASSUME NEW nx, NEW h, h \notin Nodes, NEW s \in Seq(Nodes), Len(s) <= Size,
           \A i \in 1..Len(s) : nx[s[i]] = Stop(s, h, i + 1)
    PROVE  Route(nx, Stop(s, h, 1), h) = s
<1> DEFINE g == [k \in 0..Size |-> [to |-> Stop(s, h, k + 1), nodes |-> Cut(s, k)]]
           x == Stop(s, h, 1)
<1>1. /\ Len(s) \in Nat /\ DOMAIN s = 1..Len(s) /\ Size \in Nat /\ NULL \notin Nodes
      /\ \A i \in 1..Len(s) : s[i] \in Nodes
  BY SeqFacts, Basics
<1>2. ASSUME NEW k \in Nat
      PROVE  /\ k <= Len(s) => Cut(s, k) \in Seq(Nodes) /\ Len(Cut(s, k)) = k /\ \A i \in 1..k : Cut(s, k)[i] = s[i]
             /\ k >= Len(s) => Cut(s, k) = s
  <2>1. CASE k < Len(s)
    <3>1. Cut(s, k) \in [1..k -> Nodes] /\ \A i \in 1..k : Cut(s, k)[i] = s[i]
      <4>1. \A i \in 1..k : i \in 1..Len(s)
        BY <1>1, <2>1
      <4> QED BY <1>1, <2>1, <4>1 DEF Cut
    <3>2. Cut(s, k) \in Seq(Nodes) /\ Len(Cut(s, k)) = k
      BY <3>1, IsSeq
    <3> QED BY <1>1, <2>1, <3>1, <3>2
  <2>2. CASE k >= Len(s)
    <3>1. Cut(s, k) \in [1..Len(s) -> Nodes] /\ \A i \in 1..Len(s) : Cut(s, k)[i] = s[i]
      <4>1. (IF k < Len(s) THEN k ELSE Len(s)) = Len(s)
        BY ONLY <1>1, <2>2, k \in Nat, Smaller
      <4>2. Cut(s, k) = [i \in 1..Len(s) |-> s[i]]
        BY <4>1 DEF Cut
      <4> QED BY <1>1, <4>2
    <3>2. Cut(s, k) \in Seq(Nodes) /\ Len(Cut(s, k)) = Len(s)
      BY <1>1, <3>1, IsSeq
    <3>3. Cut(s, k) = s
      BY <3>1, <3>2, SameSeq
    <3> QED BY <1>1, <2>2, <3>3
  <2> QED BY <1>1, <2>1, <2>2
<1>3. g[0] = [to |-> x, nodes |-> <<>>]
  <2>1. Cut(s, 0) = <<>>
    <3>1. Cut(s, 0) \in Seq(Nodes) /\ Len(Cut(s, 0)) = 0
      BY <1>1, <1>2
    <3> QED BY <3>1, EmptySeq
  <2>2. 0 \in 0..Size /\ 0 + 1 = 1
    BY <1>1
  <2> QED BY <2>1, <2>2
<1>4. ASSUME NEW k \in 1..Size PROVE g[k] = Onward(nx, h, g[k - 1])
  <2>1. k \in Nat /\ k - 1 \in Nat /\ k \in 0..Size /\ k - 1 \in 0..Size /\ (k - 1) + 1 = k
    BY <1>1
  <2>2. g[k] = [to |-> Stop(s, h, k + 1), nodes |-> Cut(s, k)] /\ g[k - 1] = [to |-> Stop(s, h, k), nodes |-> Cut(s, k - 1)]
    BY <2>1
  <2> HIDE DEF g
  <2>3. CASE k <= Len(s)
    <3>1. k \in 1..Len(s) /\ Stop(s, h, k) = s[k] /\ s[k] \in Nodes
      BY <1>1, <2>1, <2>3 DEF Stop
    <3>2. Onward(nx, h, g[k - 1]) = [to |-> nx[s[k]], nodes |-> Append(Cut(s, k - 1), s[k])]
      BY <1>1, <2>2, <3>1 DEF Onward
    <3>3. Append(Cut(s, k - 1), s[k]) = Cut(s, k)
      <4> DEFINE c == Cut(s, k - 1)
                 d == Cut(s, k)
                 a == Append(c, s[k])
      <4>1. c \in Seq(Nodes) /\ Len(c) = k - 1 /\ \A i \in 1..(k - 1) : c[i] = s[i]
        BY <1>1, <1>2, <2>1, <2>3
      <4>2. d \in Seq(Nodes) /\ Len(d) = k /\ \A i \in 1..k : d[i] = s[i]
        BY <1>1, <1>2, <2>1, <2>3
      <4> HIDE DEF c, d
      <4>3. a \in Seq(Nodes) /\ Len(a) = k /\ (\A i \in 1..(k - 1) : a[i] = c[i]) /\ a[k] = s[k]
        BY <2>1, <3>1, <4>1, Appended
      <4> HIDE DEF a
      <4>4. \A i \in 1..k : i \in 1..(k - 1) \/ i = k
        BY <2>1
      <4>5. \A i \in 1..k : a[i] = d[i]
        BY <4>1, <4>2, <4>3, <4>4
      <4>6. a = d
        BY <4>2, <4>3, <4>5, SameSeq
      <4> QED BY <4>6 DEF a, c, d
    <3> QED BY <2>2, <3>1, <3>2, <3>3
  <2>4. CASE k > Len(s)
    <3>1. Stop(s, h, k) = h /\ Stop(s, h, k + 1) = h
      BY <1>1, <2>1, <2>4 DEF Stop
    <3>2. Cut(s, k) = s /\ Cut(s, k - 1) = s
      BY <1>1, <1>2, <2>1, <2>4
    <3> QED BY <2>2, <3>1, <3>2 DEF Onward
  <2> QED BY <1>1, <2>1, <2>3, <2>4
<1>5. g \in [0..Size -> {g[k] : k \in 0..Size}]
  OBVIOUS
<1>6. g[Size].nodes = s
  <2>1. Size \in 0..Size
    BY <1>1
  <2> QED BY <1>1, <1>2, <2>1
<1> HIDE DEF g, x
<1> DEFINE S == {g[k] : k \in 0..Size}
<1> HIDE DEF S
<1>7. g \in [0..Size -> S]
  BY <1>5 DEF S
<1>8. Route(nx, x, h) = g[Size].nodes
  BY ONLY <1>3, <1>4, <1>7, TheWalk
<1> QED BY <1>6, <1>8 DEF x

(* Distinct nodes are no more than there are, and as many as positions. *)
LEMMA Counting ==
    ASSUME NEW s \in Seq(Nodes), Distinct(s)
    PROVE  /\ Len(s) <= Size /\ Cardinality(Elements(s)) = Len(s)
           /\ \A x \in Nodes : x \notin Elements(s) => Len(s) + 1 <= Size
<1>1. Len(s) \in Nat /\ DOMAIN s = 1..Len(s) /\ \A i \in 1..Len(s) : s[i] \in Nodes
  BY SeqFacts
<1>2. Elements(s) \subseteq Nodes /\ s \in [1..Len(s) -> Elements(s)]
  <2>1. s \in [1..Len(s) -> Nodes]
    BY <1>1
  <2>2. \A i \in 1..Len(s) : s[i] \in Elements(s)
    BY <1>1 DEF Elements
  <2> QED BY <1>1, <2>1, <2>2, SeqFacts
<1>3. s \in Bijection(1..Len(s), Elements(s))
  <2>1. \A i, j \in 1..Len(s) : s[i] = s[j] => i = j
    BY <1>1 DEF Distinct
  <2>2. \A y \in Elements(s) : \E i \in 1..Len(s) : s[i] = y
    BY SeqFacts
  <2> QED BY <1>2, <2>1, <2>2 DEF Bijection, Injection, Surjection, IsInjective
<1>4. Cardinality(Elements(s)) = Len(s)
  <2>1. ExistsBijection(1..Len(s), Elements(s))
    BY <1>3 DEF ExistsBijection
  <2> QED BY <1>1, <2>1, FS_CountingElements
<1>5. Len(s) <= Size
  BY <1>2, <1>4, Basics, FS_Subset DEF Size
<1>6. ASSUME NEW x \in Nodes, x \notin Elements(s) PROVE Len(s) + 1 <= Size
  <2>1. Cardinality(Elements(s)) # Size
    <3>1. Elements(s) # Nodes /\ Elements(s) \in SUBSET Nodes /\ IsFiniteSet(Nodes)
      BY <1>2, <1>6, Basics
    <3>2. Cardinality(Nodes) = Cardinality(Elements(s)) => Nodes = Elements(s)
      BY ONLY <3>1, FS_Subset
    <3> QED BY <3>1, <3>2 DEF Size
  <2> QED BY <1>1, <1>4, <1>5, <2>1, Basics, Smaller
<1> QED BY <1>4, <1>5, <1>6

-----------------------------------------------------------------------------
(* Circles. *)

(* The stops of a tour. *)
LEMMA Stops ==
    ASSUME NEW s \in Seq(Nodes), NEW h
    PROVE  /\ Len(s) \in Nat /\ DOMAIN s = 1..Len(s)
           /\ \A i \in 1..Len(s) : Stop(s, h, i) = s[i] /\ s[i] \in Nodes /\ s[i] \in Elements(s)
           /\ Stop(s, h, 0) = h /\ Stop(s, h, Len(s) + 1) = h
           /\ \A i : i \notin 1..Len(s) => Stop(s, h, i) = h
           /\ \A i : Stop(s, h, i) \in Elements(s) \cup {h}
<1>1. Len(s) \in Nat /\ DOMAIN s = 1..Len(s) /\ \A i \in 1..Len(s) : s[i] \in Nodes
  BY SeqFacts
<1>2. \A i \in 1..Len(s) : s[i] \in Elements(s)
  BY <1>1 DEF Elements
<1>3. 0 \notin 1..Len(s) /\ Len(s) + 1 \notin 1..Len(s)
  BY <1>1
<1> QED BY <1>1, <1>2, <1>3 DEF Stop

(* From every stop the walk finds what is left of the tour. *)
LEMMA CircleRoute ==
    ASSUME NEW nx, NEW pv, NEW s, NEW h, h \notin Nodes, Circle(nx, pv, s, h), NEW i \in 1..(Len(s) + 1)
    PROVE  Route(nx, Stop(s, h, i), h) = Rest(s, i)
<1> DEFINE t == Rest(s, i)
<1>1. /\ s \in Seq(Nodes) /\ Distinct(s)
      /\ \A j \in 0..Len(s) : nx[Stop(s, h, j)] = Stop(s, h, j + 1)
  BY DEF Circle
<1>2. Len(s) \in Nat /\ Len(s) <= Size /\ (\A j \in 1..Len(s) : Stop(s, h, j) = s[j]) /\ i \in Int
      /\ \A j : j \notin 1..Len(s) => Stop(s, h, j) = h
  BY <1>1, Stops, Counting
<1>3. /\ t \in Seq(Nodes) /\ Len(t) = Len(s) - i + 1
      /\ \A j \in 1..(Len(s) - i + 1) : t[j] = s[i + j - 1] /\ i + j - 1 \in 1..Len(s)
  BY <1>1, RestFacts
<1> HIDE DEF t
<1>4. Len(t) \in Nat /\ Len(t) <= Size
  BY <1>2, <1>3, Basics
<1>5. ASSUME NEW j \in 1..(Len(t) + 1) PROVE Stop(t, h, j) = Stop(s, h, i + j - 1)
  <2>1. CASE j \in 1..Len(t)
    BY <1>2, <1>3, <2>1 DEF Stop
  <2>2. CASE j = Len(t) + 1
    <3>1. j \notin 1..Len(t) /\ i + j - 1 \notin 1..Len(s)
      BY <1>2, <1>3, <1>4, <2>2
    <3> QED BY <1>2, <3>1 DEF Stop
  <2> QED BY <1>4, <2>1, <2>2
<1>6. ASSUME NEW j \in 1..Len(t) PROVE nx[t[j]] = Stop(t, h, j + 1)
  <2>1. t[j] = s[i + j - 1] /\ i + j - 1 \in 1..Len(s)
    BY <1>3
  <2>2. s[i + j - 1] = Stop(s, h, i + j - 1) /\ i + j - 1 \in 0..Len(s)
    BY <1>2, <2>1
  <2>3. nx[t[j]] = Stop(s, h, (i + j - 1) + 1)
    BY <1>1, <2>1, <2>2
  <2>4. j + 1 \in 1..(Len(t) + 1) /\ i + (j + 1) - 1 = (i + j - 1) + 1
    BY <1>2, <1>4
  <2>5. Stop(t, h, j + 1) = Stop(s, h, i + (j + 1) - 1)
    BY <1>5, <2>4
  <2> QED BY <2>3, <2>4, <2>5
<1>7. Route(nx, Stop(t, h, 1), h) = t
  BY SMTT(30), <1>3, <1>4, <1>6, RouteIs
<1>8. Stop(t, h, 1) = Stop(s, h, i)
  <2>1. 1 \in 1..(Len(t) + 1) /\ i + 1 - 1 = i
    BY <1>2, <1>4
  <2> QED BY <1>5, <2>1
<1> QED BY <1>7, <1>8 DEF t

(* In particular from the first. *)
LEMMA CircleChain ==
    ASSUME NEW nx, NEW pv, NEW s, NEW h, h \notin Nodes, Circle(nx, pv, s, h)
    PROVE  Route(nx, nx[h], h) = s
<1>1. s \in Seq(Nodes) /\ \A j \in 0..Len(s) : nx[Stop(s, h, j)] = Stop(s, h, j + 1)
  BY DEF Circle
<1>2. Len(s) \in Nat /\ Stop(s, h, 0) = h
  BY <1>1, Stops
<1>3. 0 \in 0..Len(s) /\ 1 \in 1..(Len(s) + 1) /\ 0 + 1 = 1
  BY <1>2
<1>4. nx[h] = Stop(s, h, 1)
  BY <1>1, <1>2, <1>3
<1>5. Route(nx, Stop(s, h, 1), h) = Rest(s, 1)
  BY <1>3, CircleRoute
<1>6. Rest(s, 1) = s
  BY <1>1, <1>3, RestFacts
<1> QED BY <1>4, <1>5, <1>6

(* A circle is undisturbed by changes elsewhere. *)
LEMMA SameCircle ==
    ASSUME NEW nx, NEW pv, NEW nx2, NEW pv2, NEW s, NEW h, Circle(nx, pv, s, h),
           \A x \in Elements(s) \cup {h} : nx2[x] = nx[x] /\ pv2[x] = pv[x]
    PROVE  Circle(nx2, pv2, s, h)
<1>1. s \in Seq(Nodes)
  BY DEF Circle
<1>2. \A i : Stop(s, h, i) \in Elements(s) \cup {h}
  BY <1>1, Stops
<1> QED BY <1>2 DEF Circle

(* list_add_tail *)
LEMMA LinkedCircle ==
    ASSUME NEW nx, NEW pv, NEW nx2, NEW pv2, NEW s, NEW h, Circle(nx, pv, s, h), h \notin Nodes,
           NEW y \in Nodes, y \notin Elements(s),
           \A x \in Elements(s) \cup {h, y} :
              /\ nx2[x] = IF x = pv[h] THEN y ELSE IF x = y THEN h ELSE nx[x]
              /\ pv2[x] = IF x = y THEN pv[h] ELSE IF x = h THEN y ELSE pv[x]
    PROVE  Circle(nx2, pv2, Append(s, y), h)
<1> DEFINE m == Len(s)
           t == Append(s, y)
<1>1. /\ s \in Seq(Nodes) /\ Distinct(s)
      /\ \A i \in 0..m : nx[Stop(s, h, i)] = Stop(s, h, i + 1) /\ pv[Stop(s, h, i + 1)] = Stop(s, h, i)
  BY DEF Circle
<1>2. /\ m \in Nat /\ DOMAIN s = 1..m /\ Stop(s, h, 0) = h /\ Stop(s, h, m + 1) = h
      /\ \A i \in 1..m : Stop(s, h, i) = s[i] /\ s[i] \in Nodes /\ s[i] \in Elements(s)
      /\ \A i : Stop(s, h, i) \in Elements(s) \cup {h}
  BY <1>1, Stops
<1>3. /\ t \in Seq(Nodes) /\ Len(t) = m + 1 /\ (\A i \in 1..m : t[i] = s[i]) /\ t[m + 1] = y
  BY <1>1, Appended
<1> HIDE DEF m, t
<1>4. DOMAIN t = 1..(m + 1) /\ \A i \in 1..(m + 1) : i \in 1..m \/ i = m + 1
  BY <1>2, <1>3, SeqFacts
<1>5. Distinct(t)
  <2>1. SUFFICES ASSUME NEW i \in 1..(m + 1), NEW j \in 1..(m + 1), t[i] = t[j] PROVE i = j
    BY <1>4 DEF Distinct
  <2>2. \A k, l \in 1..m : s[k] = s[l] => k = l
    BY <1>1, <1>2 DEF Distinct
  <2>3. \A k \in 1..m : t[k] # y
    BY <1>2, <1>3
  <2> QED BY <1>3, <1>4, <2>1, <2>2, <2>3
<1>6. /\ \A i \in 0..m : Stop(t, h, i) = Stop(s, h, i)
      /\ Stop(t, h, m + 1) = y /\ Stop(t, h, m + 2) = h
  <2>1. \A i \in 0..m : i = 0 \/ i \in 1..m
    BY <1>2
  <2>2. 0 \notin 1..(m + 1) /\ m + 2 \notin 1..(m + 1) /\ m + 1 \in 1..(m + 1) /\ \A i \in 1..m : i \in 1..(m + 1)
    BY <1>2
  <2> QED BY <1>2, <1>3, <2>1, <2>2 DEF Stop
<1>7. pv[h] = Stop(s, h, m)
  <2>1. m \in 0..m
    BY <1>2
  <2> QED BY <1>1, <1>2, <2>1
<1>8. \A i \in 0..m : i # m => Stop(s, h, i) # Stop(s, h, m) /\ Stop(s, h, i + 1) # h
  <2>1. ASSUME NEW i \in 0..m, i # m PROVE Stop(s, h, i) # Stop(s, h, m) /\ Stop(s, h, i + 1) # h
    <3>1. i + 1 \in 1..m /\ m \in 1..m /\ (i = 0 \/ i \in 1..m)
      BY <1>2, <2>1
    <3>2. Stop(s, h, i + 1) # h
      BY <1>2, <3>1
    <3>3. Stop(s, h, m) = s[m] /\ s[m] \in Nodes
      BY <1>2, <3>1
    <3>4. i \in 1..m => s[i] # s[m]
      BY <1>1, <1>2, <2>1, <3>1 DEF Distinct
    <3> QED BY <1>2, <3>1, <3>2, <3>3, <3>4
  <2> QED BY <2>1
<1>9. \A i : Stop(s, h, i) # y
  BY <1>2
<1>10. ASSUME NEW i \in 0..(m + 1)
       PROVE  nx2[Stop(t, h, i)] = Stop(t, h, i + 1) /\ pv2[Stop(t, h, i + 1)] = Stop(t, h, i)
  <2>1. CASE i \in 0..m /\ i # m
    <3>1. i + 1 \in 0..m
      BY <1>2, <2>1
    <3>2. Stop(t, h, i) = Stop(s, h, i) /\ Stop(t, h, i + 1) = Stop(s, h, i + 1)
      BY <1>6, <2>1, <3>1
    <3>3. nx2[Stop(s, h, i)] = nx[Stop(s, h, i)]
      BY <1>2, <1>7, <1>8, <1>9, <2>1
    <3>4. pv2[Stop(s, h, i + 1)] = pv[Stop(s, h, i + 1)]
      BY <1>2, <1>8, <1>9, <2>1
    <3> QED BY <1>1, <2>1, <3>2, <3>3, <3>4
  <2>2. CASE i = m
    <3>1. m \in 0..m
      BY <1>2
    <3>2. Stop(t, h, m) = Stop(s, h, m) /\ Stop(t, h, m + 1) = y
      BY <1>6, <3>1
    <3>3. nx2[Stop(s, h, m)] = y
      BY <1>2, <1>7
    <3>4. pv2[y] = Stop(s, h, m)
      BY <1>7
    <3> QED BY <2>2, <3>2, <3>3, <3>4
  <2>3. CASE i = m + 1
    <3>1. Stop(t, h, i) = y /\ Stop(t, h, i + 1) = h
      <4>1. (m + 1) + 1 = m + 2
        BY <1>2
      <4> QED BY <1>6, <2>3, <4>1
    <3>2. nx2[y] = h
      BY <1>7, <1>9
    <3>3. pv2[h] = y
      BY <1>2
    <3> QED BY <3>1, <3>2, <3>3
  <2>4. i \in 0..m \/ i = m + 1
    BY <1>2
  <2> QED BY <2>1, <2>2, <2>3, <2>4
<1>11. Circle(nx2, pv2, t, h)
  BY <1>3, <1>5, <1>10 DEF Circle
<1> QED BY <1>11 DEF t

(* list_del *)
LEMMA UnlinkedCircle ==
    ASSUME NEW nx, NEW pv, NEW nx2, NEW pv2, NEW s, NEW h, Circle(nx, pv, s, h), h \notin Nodes,
           NEW k \in 1..Len(s),
           \A x \in Elements(s) \cup {h} :
              /\ nx2[x] = IF x = s[k] THEN NULL ELSE IF x = pv[s[k]] THEN nx[s[k]] ELSE nx[x]
              /\ pv2[x] = IF x = s[k] THEN NULL ELSE IF x = nx[s[k]] THEN pv[s[k]] ELSE pv[x]
    PROVE  Circle(nx2, pv2, Without(s, k), h)
<1> DEFINE m == Len(s)
           t == Without(s, k)
           y == s[k]
<1>1. /\ s \in Seq(Nodes) /\ Distinct(s)
      /\ \A i \in 0..m : nx[Stop(s, h, i)] = Stop(s, h, i + 1) /\ pv[Stop(s, h, i + 1)] = Stop(s, h, i)
  BY DEF Circle
<1>2. /\ m \in Nat /\ DOMAIN s = 1..m /\ Stop(s, h, 0) = h /\ Stop(s, h, m + 1) = h
      /\ \A i \in 1..m : Stop(s, h, i) = s[i] /\ s[i] \in Nodes /\ s[i] \in Elements(s)
      /\ \A i : Stop(s, h, i) \in Elements(s) \cup {h}
  BY <1>1, Stops
<1>3. /\ t \in Seq(Nodes) /\ Len(t) = m - 1 /\ Distinct(t)
      /\ \A i \in 1..(m - 1) : t[i] = IF i < k THEN s[i] ELSE s[i + 1]
  BY <1>1, Shorter
<1>4. k \in 1..m
  OBVIOUS
<1> HIDE DEF m, t
<1>5. ASSUME NEW i \in 0..m PROVE Stop(t, h, i) = IF i < k THEN Stop(s, h, i) ELSE Stop(s, h, i + 1)
  <2>1. CASE i \in 1..(m - 1)
    <3>1. i \in 1..m /\ i + 1 \in 1..m
      BY <1>2, <1>4, <2>1
    <3> QED BY <1>2, <1>3, <2>1, <3>1 DEF Stop
  <2>2. CASE i = 0
    <3>1. 0 < k /\ 0 \notin 1..(m - 1)
      BY <1>4
    <3> QED BY <1>2, <1>3, <2>2, <3>1 DEF Stop
  <2>3. CASE i = m
    <3>1. ~(m < k) /\ m \notin 1..(m - 1)
      BY <1>2, <1>4
    <3> QED BY <1>2, <1>3, <2>3, <3>1 DEF Stop
  <2> QED BY <1>2, <2>1, <2>2, <2>3
<1>6. /\ nx[y] = Stop(s, h, k + 1) /\ pv[y] = Stop(s, h, k - 1)
  <2>1. k \in 0..m /\ k - 1 \in 0..m /\ (k - 1) + 1 = k /\ Stop(s, h, k) = y
    BY <1>2, <1>4
  <2> QED BY <1>1, <2>1
<1>7. \A i, j \in 0..m : Stop(s, h, i) = Stop(s, h, j) => i = j
  <2>1. \A i \in 0..m : i = 0 \/ i \in 1..m
    BY <1>2
  <2>2. \A i, j \in 1..m : s[i] = s[j] => i = j
    BY <1>1, <1>2 DEF Distinct
  <2> QED BY <1>2, <2>1, <2>2
<1>8. \A i, j \in 1..(m + 1) : Stop(s, h, i) = Stop(s, h, j) => i = j
  <2>1. \A i \in 1..(m + 1) : i = m + 1 \/ i \in 1..m
    BY <1>2
  <2>2. \A i, j \in 1..m : s[i] = s[j] => i = j
    BY <1>1, <1>2 DEF Distinct
  <2> QED BY <1>2, <2>1, <2>2
<1>9. y = Stop(s, h, k)
  BY <1>2, <1>4
<1>10. ASSUME NEW i \in 0..m, i # k
       PROVE  nx2[Stop(s, h, i)] = IF i = k - 1 THEN Stop(s, h, k + 1) ELSE Stop(s, h, i + 1)
  <2>1. Stop(s, h, i) # y
    BY <1>4, <1>7, <1>9, <1>10, <1>2
  <2>2. Stop(s, h, i) = Stop(s, h, k - 1) <=> i = k - 1
    <3>1. k - 1 \in 0..m
      BY <1>2, <1>4
    <3> QED BY <1>7, <3>1
  <2> QED BY <1>1, <1>2, <1>6, <1>10, <2>1, <2>2
<1>11. ASSUME NEW i \in 1..(m + 1), i # k
       PROVE  pv2[Stop(s, h, i)] = IF i = k + 1 THEN Stop(s, h, k - 1) ELSE Stop(s, h, i - 1)
  <2>1. Stop(s, h, i) # y
    <3>1. k \in 1..(m + 1)
      BY <1>2, <1>4
    <3> QED BY <1>8, <1>9, <1>11, <3>1
  <2>2. Stop(s, h, i) = Stop(s, h, k + 1) <=> i = k + 1
    <3>1. k + 1 \in 1..(m + 1)
      BY <1>2, <1>4
    <3> QED BY <1>8, <3>1
  <2>3. i - 1 \in 0..m /\ (i - 1) + 1 = i
    BY <1>2
  <2>4. pv[Stop(s, h, i)] = Stop(s, h, i - 1)
    BY <1>1, <2>3
  <2> QED BY <1>2, <1>6, <1>11, <2>1, <2>2, <2>4
<1>12. ASSUME NEW i \in 0..(m - 1)
       PROVE  nx2[Stop(t, h, i)] = Stop(t, h, i + 1) /\ pv2[Stop(t, h, i + 1)] = Stop(t, h, i)
  <2>1. i \in Int /\ i \in 0..m /\ i + 1 \in 0..m /\ i + 1 \in 1..(m + 1) /\ (i + 1) + 1 = i + 2
        /\ i + 2 \in 1..(m + 1) /\ k \in Int /\ (i + 1) - 1 = i /\ (i + 2) - 1 = i + 1
    BY <1>2, <1>4
  <2>2. /\ Stop(t, h, i) = IF i < k THEN Stop(s, h, i) ELSE Stop(s, h, i + 1)
        /\ Stop(t, h, i + 1) = IF i + 1 < k THEN Stop(s, h, i + 1) ELSE Stop(s, h, i + 2)
    BY <1>5, <2>1
  <2>3. CASE i + 1 < k
    <3>1. i < k /\ i # k /\ i # k - 1 /\ i + 1 # k /\ i + 1 # k + 1
      BY <2>1, <2>3
    <3>2. nx2[Stop(s, h, i)] = Stop(s, h, i + 1)
      BY <1>10, <2>1, <3>1
    <3>3. pv2[Stop(s, h, i + 1)] = Stop(s, h, i)
      BY <1>11, <2>1, <3>1
    <3> QED BY <2>2, <2>3, <3>1, <3>2, <3>3
  <2>4. CASE i + 1 = k
    <3>1. i < k /\ i # k /\ i = k - 1 /\ i + 2 = k + 1 /\ i + 2 # k /\ ~(i + 1 < k)
      BY <2>1, <2>4
    <3>2. nx2[Stop(s, h, i)] = Stop(s, h, k + 1)
      BY <1>10, <2>1, <3>1
    <3>3. pv2[Stop(s, h, i + 2)] = Stop(s, h, k - 1)
      BY <1>11, <2>1, <3>1
    <3> QED BY <2>2, <3>1, <3>2, <3>3
  <2>5. CASE i + 1 > k
    <3>1. ~(i < k) /\ ~(i + 1 < k) /\ i + 1 # k /\ i + 1 # k - 1 /\ i + 2 # k /\ i + 2 # k + 1
      BY <2>1, <2>5
    <3>2. nx2[Stop(s, h, i + 1)] = Stop(s, h, i + 2)
      BY <1>10, <2>1, <3>1
    <3>3. pv2[Stop(s, h, i + 2)] = Stop(s, h, i + 1)
      BY <1>11, <2>1, <3>1
    <3> QED BY <2>2, <3>1, <3>2, <3>3
  <2> QED BY <2>1, <2>3, <2>4, <2>5
<1>13. Circle(nx2, pv2, t, h)
  BY <1>3, <1>12 DEF Circle
<1> QED BY <1>13 DEF t

-----------------------------------------------------------------------------
(* States. *)

(* The chain of a bucket. *)
LEMMA ChainFacts ==
    ASSUME IInv, NEW b \in Buckets
    PROVE  /\ Chain(b) \in Seq(Nodes) /\ Distinct(Chain(b)) /\ Circle(next, prev, Chain(b), b)
           /\ Len(Chain(b)) \in Nat /\ DOMAIN Chain(b) = 1..Len(Chain(b)) /\ Len(Chain(b)) <= Size
           /\ In(b) = Elements(Chain(b)) /\ In(b) \subseteq Nodes /\ In(b) \subseteq Linked
           /\ Cardinality(In(b)) = Len(Chain(b)) /\ b \notin Nodes
           /\ \A x \in Nodes \ In(b) : Len(Chain(b)) + 1 <= Size
<1>1. Circle(next, prev, Chain(b), b)
  BY DEF IInv, Circles
<1>2. Chain(b) \in Seq(Nodes) /\ Distinct(Chain(b))
  BY <1>1 DEF Circle
<1>3. In(b) = Elements(Chain(b)) /\ In(b) \subseteq Linked
  BY DEF In, Linked, Elements
<1>4. Elements(Chain(b)) \subseteq Nodes /\ b \notin Nodes
  BY <1>2, SeqFacts, Basics
<1>5. Len(Chain(b)) \in Nat /\ DOMAIN Chain(b) = 1..Len(Chain(b))
  BY <1>2, SeqFacts
<1>6. /\ Len(Chain(b)) <= Size /\ Cardinality(Elements(Chain(b))) = Len(Chain(b))
      /\ \A x \in Nodes : x \notin Elements(Chain(b)) => Len(Chain(b)) + 1 <= Size
  BY <1>2, Counting
<1> QED BY <1>1, <1>2, <1>3, <1>4, <1>5, <1>6

(* The stops of a bucket's chain, and where they lead. *)
LEMMA ChainStops ==
    ASSUME IInv, NEW b \in Buckets
    PROVE  /\ \A i \in 1..Len(Chain(b)) : Stop(Chain(b), b, i) = Chain(b)[i] /\ Chain(b)[i] \in In(b)
           /\ \A i \in 1..(Len(Chain(b)) + 1) :
                /\ Stop(Chain(b), b, i) \in In(b) \cup {b}
                /\ Stop(Chain(b), b, i) = b <=> i = Len(Chain(b)) + 1
                /\ Stop(Chain(b), b, i) # b => i \in 1..Len(Chain(b)) /\ next[Stop(Chain(b), b, i)] = Stop(Chain(b), b, i + 1)
           /\ next[b] = Stop(Chain(b), b, 1)
<1> DEFINE s == Chain(b)
<1>1. /\ s \in Seq(Nodes) /\ Len(s) \in Nat /\ Circle(next, prev, s, b) /\ In(b) = Elements(s) /\ b \notin Nodes
      /\ In(b) \subseteq Nodes
  BY ChainFacts
<1> HIDE DEF s
<1>2. /\ \A i \in 1..Len(s) : Stop(s, b, i) = s[i] /\ s[i] \in Nodes /\ s[i] \in Elements(s)
      /\ Stop(s, b, 0) = b /\ Stop(s, b, Len(s) + 1) = b
  BY <1>1, Stops
<1>3. \A i \in 0..Len(s) : next[Stop(s, b, i)] = Stop(s, b, i + 1)
  BY <1>1 DEF Circle
<1>4. next[b] = Stop(s, b, 1)
  <2>1. 0 \in 0..Len(s) /\ 0 + 1 = 1
    BY <1>1
  <2> QED BY <1>2, <1>3, <2>1
<1>5. ASSUME NEW i \in 1..(Len(s) + 1)
      PROVE  /\ Stop(s, b, i) \in In(b) \cup {b} /\ (Stop(s, b, i) = b <=> i = Len(s) + 1)
             /\ Stop(s, b, i) # b => i \in 1..Len(s) /\ next[Stop(s, b, i)] = Stop(s, b, i + 1)
  <2>1. i \in 1..Len(s) \/ i = Len(s) + 1
    BY <1>1
  <2>2. i \in 1..Len(s) => i \in 0..Len(s) /\ i # Len(s) + 1
    BY <1>1
  <2> QED BY <1>1, <1>2, <1>3, <2>1, <2>2
<1>6. \A i \in 1..Len(s) : Stop(s, b, i) = s[i] /\ s[i] \in In(b)
  BY <1>1, <1>2
<1> QED BY <1>4, <1>5, <1>6 DEF s

(* The neighbours on a circle are on it. *)
LEMMA OnCircle ==
    ASSUME IInv, NEW b \in Buckets, NEW x \in In(b) \cup {b}
    PROVE  /\ next[x] \in In(b) \cup {b} /\ prev[x] \in In(b) \cup {b} /\ next[x] \in Cells /\ prev[x] \in Cells
           /\ prev[next[x]] = x /\ next[prev[x]] = x
<1> DEFINE s == Chain(b)
<1>1. /\ s \in Seq(Nodes) /\ Circle(next, prev, s, b) /\ In(b) = Elements(s) /\ In(b) \subseteq Nodes
  BY ChainFacts
<1> HIDE DEF s
<1>2. /\ Len(s) \in Nat /\ Stop(s, b, 0) = b /\ Stop(s, b, Len(s) + 1) = b
      /\ \A i \in 1..Len(s) : Stop(s, b, i) = s[i]
      /\ \A i : Stop(s, b, i) \in In(b) \cup {b}
  BY <1>1, Stops
<1>3. \A i \in 0..Len(s) : next[Stop(s, b, i)] = Stop(s, b, i + 1) /\ prev[Stop(s, b, i + 1)] = Stop(s, b, i)
  BY <1>1 DEF Circle
<1>4. \E i \in 0..Len(s) : x = Stop(s, b, i)
  <2>1. CASE x = b
    <3>1. 0 \in 0..Len(s)
      BY <1>2
    <3> QED BY <1>2, <2>1, <3>1
  <2>2. CASE x \in In(b)
    <3>1. PICK i \in 1..Len(s) : s[i] = x
      BY <1>1, <2>2, SeqFacts
    <3>2. i \in 0..Len(s)
      BY <1>2
    <3> QED BY <1>2, <3>1, <3>2
  <2> QED BY <2>1, <2>2
<1>5. \E i \in 0..Len(s) : x = Stop(s, b, i + 1)
  <2>1. PICK i \in 0..Len(s) : x = Stop(s, b, i)
    BY <1>4
  <2>2. CASE i = 0
    <3>1. Len(s) \in 0..Len(s)
      BY <1>2
    <3> QED BY <1>2, <2>1, <2>2, <3>1
  <2>3. CASE i # 0
    <3>1. i - 1 \in 0..Len(s) /\ (i - 1) + 1 = i
      BY <1>2, <2>3
    <3> QED BY <2>1, <3>1
  <2> QED BY <2>2, <2>3
<1>6. next[x] \in In(b) \cup {b} /\ prev[next[x]] = x
  BY <1>2, <1>3, <1>4
<1>7. prev[x] \in In(b) \cup {b} /\ next[prev[x]] = x
  BY <1>2, <1>3, <1>5
<1>8. \A y \in In(b) \cup {b} : y \in Cells
  BY <1>1, Basics
<1> QED BY <1>6, <1>7, <1>8

(* Who leaves next alone leaves the chains alone. *)
LEMMA SameLists ==
    ASSUME next' = next
    PROVE  /\ \A b \in Buckets : Chain(b)' = Chain(b) /\ In(b)' = In(b)
           /\ Linked' = Linked
<1>1. \A b \in Buckets : Chain(b)' = Chain(b)
  BY DEF Chain, From
<1>2. \A b \in Buckets : In(b)' = In(b)
  BY <1>1 DEF In
<1> QED BY <1>1, <1>2 DEF Linked

(* A new circle is the new chain. *)
LEMMA NewChain ==
    ASSUME NEW b \in Buckets, NEW s, Circle(next', prev', s, b)
    PROVE  Chain(b)' = s /\ In(b)' = Elements(s)
<1>1. b \notin Nodes
  BY Basics
<1>2. Route(next', next'[b], b) = s
  BY <1>1, CircleChain
<1>3. Chain(b)' = s
  BY <1>2 DEF Chain, From
<1> QED BY <1>3 DEF In, Elements

(* list_add_tail puts its node at the end of one chain. *)
LEMMA Linking ==
    ASSUME IInv, NEW b \in Buckets, NEW x \in Nodes, x \notin Linked, list_add_tail(x, b)
    PROVE  /\ Chain(b)' = Append(Chain(b), x) /\ In(b)' = In(b) \cup {x}
           /\ \A c \in Buckets : c # b => Chain(c)' = Chain(c) /\ In(c)' = In(c)
           /\ \A c \in Buckets : Circle(next, prev, Chain(c), c)'
           /\ Linked' = Linked \cup {x}
           /\ next' \in [Cells -> Cells \cup {NULL}] /\ prev' \in [Cells -> Cells \cup {NULL}]
<1> DEFINE before == prev[b]
           s == Chain(b)
<1>1. /\ next \in [Cells -> Cells \cup {NULL}] /\ prev \in [Cells -> Cells \cup {NULL}]
      /\ b \in Cells /\ x \in Cells /\ x # b /\ b \notin Nodes
  BY Basics DEF IInv, TypeOK
<1>2. /\ s \in Seq(Nodes) /\ Circle(next, prev, s, b) /\ In(b) = Elements(s) /\ In(b) \subseteq Nodes /\ x \notin In(b)
  BY ChainFacts
<1>3. before \in In(b) \cup {b}
  <2>1. Len(s) \in Nat /\ Stop(s, b, Len(s) + 1) = b /\ Stop(s, b, Len(s)) \in Elements(s) \cup {b}
    BY <1>2, Stops
  <2>2. Len(s) \in 0..Len(s)
    BY <2>1
  <2>3. prev[Stop(s, b, Len(s) + 1)] = Stop(s, b, Len(s))
    BY <1>2, <2>2 DEF Circle
  <2> QED BY <1>2, <2>1, <2>3
<1>4. before \in Cells
  BY <1>1, <1>2, <1>3, Basics
<1>5. /\ prev' = [prev EXCEPT ![b] = x, ![x] = before] /\ next' = [next EXCEPT ![x] = b, ![before] = x]
  BY DEF list_add_tail
<1>6. next' \in [Cells -> Cells \cup {NULL}] /\ prev' \in [Cells -> Cells \cup {NULL}]
  BY <1>1, <1>4, <1>5
<1>7. \A y \in Cells : /\ next'[y] = IF y = before THEN x ELSE IF y = x THEN b ELSE next[y]
                       /\ prev'[y] = IF y = x THEN before ELSE IF y = b THEN x ELSE prev[y]
  BY <1>1, <1>4, <1>5
<1>8. Circle(next', prev', Append(s, x), b)
  <2> HIDE DEF s
  <2>1. \A y \in Elements(s) \cup {b, x} : y \in Cells
    BY <1>1, <1>2, Basics
  <2>2. \A y \in Elements(s) \cup {b, x} :
              /\ next'[y] = IF y = prev[b] THEN x ELSE IF y = x THEN b ELSE next[y]
              /\ prev'[y] = IF y = x THEN prev[b] ELSE IF y = b THEN x ELSE prev[y]
    BY <1>7, <2>1
  <2>3. x \notin Elements(s)
    BY <1>2
  <2> QED BY ONLY <1>1, <1>2, <2>2, <2>3, x \in Nodes, LinkedCircle
<1>9. Chain(b)' = Append(s, x) /\ In(b)' = In(b) \cup {x}
  <2>1. Chain(b)' = Append(s, x) /\ In(b)' = Elements(Append(s, x))
    BY <1>8, NewChain
  <2>2. Elements(Append(s, x)) = Elements(s) \cup {x}
    BY <1>2, Appended
  <2> QED BY <1>2, <2>1, <2>2
<1>10. ASSUME NEW c \in Buckets, c # b
       PROVE  Circle(next', prev', Chain(c), c) /\ Chain(c)' = Chain(c) /\ In(c)' = In(c)
  <2>1. Circle(next, prev, Chain(c), c) /\ In(c) = Elements(Chain(c)) /\ In(c) \subseteq Nodes /\ x \notin In(c)
    BY ChainFacts
  <2>2. In(b) \cap In(c) = {} /\ c \notin Nodes /\ c \in Cells
    BY <1>10, Basics DEF IInv, Circles
  <2>3. \A y \in Elements(Chain(c)) \cup {c} : y \in Cells /\ y # x /\ y # b /\ y # before
    BY <1>1, <1>2, <1>3, <1>10, <2>1, <2>2, Basics
  <2>4. \A y \in Elements(Chain(c)) \cup {c} : next'[y] = next[y] /\ prev'[y] = prev[y]
    BY <1>7, <2>3
  <2>5. Circle(next', prev', Chain(c), c)
    BY ONLY <2>1, <2>4, SameCircle
  <2> QED BY <2>1, <2>5, NewChain
<1>11. \A c \in Buckets : Circle(next, prev, Chain(c), c)'
  BY <1>8, <1>9, <1>10
<1>12. Linked' = Linked \cup {x}
  <2>1. Linked' = UNION {In(c)' : c \in Buckets}
    BY DEF Linked
  <2> QED BY <1>9, <1>10, <2>1 DEF Linked
<1> QED BY <1>6, <1>9, <1>10, <1>11, <1>12

(* list_del takes its node out of one chain. *)
LEMMA Unlinking ==
    ASSUME IInv, NEW b \in Buckets, NEW k \in 1..Len(Chain(b)), NEW x, x = Chain(b)[k], list_del(x)
    PROVE  /\ Chain(b)' = Without(Chain(b), k) /\ In(b)' = In(b) \ {x} /\ x \in In(b)
           /\ \A c \in Buckets : c # b => Chain(c)' = Chain(c) /\ In(c)' = In(c)
           /\ \A c \in Buckets : Circle(next, prev, Chain(c), c)'
           /\ Linked' = Linked \ {x}
           /\ next' \in [Cells -> Cells \cup {NULL}] /\ prev' \in [Cells -> Cells \cup {NULL}]
<1> DEFINE s == Chain(b)
<1>1. /\ next \in [Cells -> Cells \cup {NULL}] /\ prev \in [Cells -> Cells \cup {NULL}]
      /\ b \in Cells /\ b \notin Nodes
  BY Basics DEF IInv, TypeOK
<1>2. /\ s \in Seq(Nodes) /\ Distinct(s) /\ Circle(next, prev, s, b) /\ In(b) = Elements(s) /\ In(b) \subseteq Nodes
      /\ Len(s) \in Nat
  BY ChainFacts
<1>3. x \in In(b) /\ x \in Nodes /\ x \in Cells
  BY <1>2, Stops, Basics
<1>4. prev[x] \in In(b) \cup {b} /\ next[x] \in In(b) \cup {b}
  <2> HIDE DEF s
  <2>1. k \in 0..Len(s) /\ k - 1 \in 0..Len(s) /\ (k - 1) + 1 = k /\ k \in 1..Len(s)
    BY <1>2 DEF s
  <2>2. Stop(s, b, k) = x /\ \A i : Stop(s, b, i) \in Elements(s) \cup {b}
    BY <1>2, <2>1, Stops DEF s
  <2>3. next[x] = Stop(s, b, k + 1) /\ prev[x] = Stop(s, b, k - 1)
    BY <1>2, <2>1, <2>2 DEF Circle
  <2> QED BY <1>2, <2>2, <2>3
<1>5. prev[x] \in Cells /\ next[x] \in Cells
  BY <1>1, <1>2, <1>4, Basics
<1>6. prev' = [prev EXCEPT ![next[x]] = prev[x], ![x] = NULL] /\ next' = [next EXCEPT ![prev[x]] = next[x], ![x] = NULL]
  BY DEF list_del
<1>7. next' \in [Cells -> Cells \cup {NULL}] /\ prev' \in [Cells -> Cells \cup {NULL}]
  BY <1>1, <1>3, <1>5, <1>6
<1>8. \A y \in Cells : /\ next'[y] = IF y = x THEN NULL ELSE IF y = prev[x] THEN next[x] ELSE next[y]
                       /\ prev'[y] = IF y = x THEN NULL ELSE IF y = next[x] THEN prev[x] ELSE prev[y]
  BY <1>1, <1>3, <1>5, <1>6
<1>9. Circle(next', prev', Without(s, k), b)
  <2> HIDE DEF s
  <2>1. \A y \in Elements(s) \cup {b} : y \in Cells
    BY <1>1, <1>2, Basics
  <2>2. x = s[k] /\ k \in 1..Len(s)
    BY DEF s
  <2>3. \A y \in Elements(s) \cup {b} :
              /\ next'[y] = IF y = s[k] THEN NULL ELSE IF y = prev[s[k]] THEN next[s[k]] ELSE next[y]
              /\ prev'[y] = IF y = s[k] THEN NULL ELSE IF y = next[s[k]] THEN prev[s[k]] ELSE prev[y]
    BY <1>8, <2>1, <2>2
  <2> QED BY ONLY ZenonT(40), <1>1, <1>2, <2>2, <2>3, UnlinkedCircle
<1>10. Chain(b)' = Without(s, k) /\ In(b)' = In(b) \ {x}
  <2>1. Chain(b)' = Without(s, k) /\ In(b)' = Elements(Without(s, k))
    BY <1>9, NewChain
  <2>2. Elements(Without(s, k)) = Elements(s) \ {s[k]}
    BY <1>2, Shorter
  <2> QED BY <1>2, <2>1, <2>2
<1>11. ASSUME NEW c \in Buckets, c # b
       PROVE  Circle(next', prev', Chain(c), c) /\ Chain(c)' = Chain(c) /\ In(c)' = In(c) /\ x \notin In(c)
  <2>1. Circle(next, prev, Chain(c), c) /\ In(c) = Elements(Chain(c)) /\ In(c) \subseteq Nodes
    BY ChainFacts
  <2>2. In(b) \cap In(c) = {} /\ c \notin Nodes /\ c \in Cells
    BY <1>11, Basics DEF IInv, Circles
  <2>3. \A y \in Elements(Chain(c)) \cup {c} : y \in Cells /\ y # x /\ y # prev[x] /\ y # next[x]
    BY <1>1, <1>2, <1>3, <1>4, <1>11, <2>1, <2>2, Basics
  <2>4. \A y \in Elements(Chain(c)) \cup {c} : next'[y] = next[y] /\ prev'[y] = prev[y]
    BY <1>8, <2>3
  <2>5. Circle(next', prev', Chain(c), c)
    BY ONLY <2>1, <2>4, SameCircle
  <2> QED BY <1>3, <2>1, <2>2, <2>5, NewChain
<1>12. \A c \in Buckets : Circle(next, prev, Chain(c), c)'
  BY <1>9, <1>10, <1>11
<1>13. Linked' = Linked \ {x}
  <2>1. Linked' = UNION {In(c)' : c \in Buckets}
    BY DEF Linked
  <2> QED BY <1>10, <1>11, <2>1 DEF Linked
<1> QED BY <1>3, <1>7, <1>10, <1>11, <1>12, <1>13
-----------------------------------------------------------------------------
(* What a step leaves alone. *)

(* The program counters after a step of t. *)
LEMMA Moves ==
    ASSUME IInv, NEW t \in Threads, NEW from, NEW to, Step(t, from, to),
           t = Manager => to \in ManagerPcs, t = Cleaner => to \in CleanerPcs
    PROVE  /\ pc[t] = from /\ pc'[t] = to /\ \A u \in Threads : u # t => pc'[u] = pc[u]
           /\ Pcs' /\ pc' \in [Threads -> ManagerPcs \cup CleanerPcs]
<1>1. pc \in [Threads -> ManagerPcs \cup CleanerPcs]
  BY DEF IInv, TypeOK, ManagerPcs, CleanerPcs
<1>2. /\ pc[t] = from /\ pc'[t] = to /\ \A u \in Threads : u # t => pc'[u] = pc[u]
  BY <1>1 DEF Step
<1>3. Pcs'
  BY <1>2, Basics DEF IInv, Pcs
<1>4. to \in ManagerPcs \cup CleanerPcs
  BY Basics
<1> QED BY <1>1, <1>2, <1>3, <1>4 DEF Step

(* Nothing is linked or unlinked. *)
LEMMA SameCircles ==
    ASSUME IInv, next' = next, prev' = prev, session_pool' \cap Linked = {}
    PROVE  Circles'
<1>1. /\ \A b \in Buckets : Chain(b)' = Chain(b) /\ In(b)' = In(b)
      /\ Linked' = Linked
  BY SameLists
<1> QED BY <1>1 DEF IInv, Circles

(* Nobody enters or leaves a critical section. *)
LEMMA SameLocks ==
    ASSUME IInv, lock' = lock, at' = at, \A t \in Threads : pc'[t] \in Inside <=> pc[t] \in Inside
    PROVE  Locks'
BY DEF IInv, Locks

(* The linked nodes keep their keys. *)
LEMMA SameFiled ==
    ASSUME IInv, next' = next, \A b \in Buckets : \A x \in In(b) : key'[x] = key[x]
    PROVE  Filed'
<1>1. \A b \in Buckets : In(b)' = In(b)
  BY SameLists
<1> QED BY <1>1 DEF IInv, Filed

(* A step of the cleaner, seen from the manager. *)
LEMMA SameSearching ==
    ASSUME IInv, flow' = flow, at'[Manager] = at[Manager], p'[Manager] = p[Manager], pc'[Manager] = pc[Manager],
           \A b \in Buckets : at[Manager] = b /\ pc[Manager] \in Inside =>
              Chain(b)' = Chain(b) /\ In(b)' = In(b) /\ \A x \in In(b) : key'[x] = key[x],
           pc[Manager] = "link" => key'[p[Manager]] = key[p[Manager]]
    PROVE  Searching'
<1> SUFFICES ASSUME NEW b \in Buckets, at'[Manager] = b PROVE Search(b)'
  BY DEF Searching
<1>1. Search(b)
  BY DEF IInv, Searching
<1>2. CASE pc[Manager] \in Inside
  <2>1. Chain(b)' = Chain(b) /\ In(b)' = In(b) /\ \A x \in In(b) : key'[x] = key[x]
    BY <1>2
  <2>2. Chain(b) \in Seq(Nodes) /\ \A i \in 1..Len(Chain(b)) : Chain(b)[i] \in In(b)
    BY ChainFacts, ChainStops
  <2>3. Len(Chain(b)) \in Nat
    BY <2>2, SeqFacts
  <2>4. \A i \in 1..(Len(Chain(b)) + 1) : \A j \in 1..(i - 1) : key'[Chain(b)[j]] = key[Chain(b)[j]]
    <3>1. \A i \in 1..(Len(Chain(b)) + 1) : \A j \in 1..(i - 1) : j \in 1..Len(Chain(b))
      BY <2>3
    <3> QED BY <2>1, <2>2, <3>1
  <2> QED BY <1>1, <2>1, <2>4 DEF Search
<1>3. CASE pc[Manager] \notin Inside
  BY <1>1, <1>3 DEF Search, Inside
<1> QED BY <1>2, <1>3

(* A step of the manager, seen from the cleaner. *)
LEMMA SameWalking ==
    ASSUME IInv, UNCHANGED cleaning, at'[Cleaner] = at[Cleaner], p'[Cleaner] = p[Cleaner], pc'[Cleaner] = pc[Cleaner],
           \A b \in Buckets : at[Cleaner] = b /\ pc[Cleaner] \in Inside => Chain(b)' = Chain(b)
    PROVE  Walking'
<1> SUFFICES ASSUME NEW b \in Buckets, at'[Cleaner] = b PROVE Walk(b)'
  BY DEF Walking
<1>1. Walk(b)
  BY DEF IInv, Walking
<1>2. CASE pc[Cleaner] \in Inside
  <2>1. Chain(b)' = Chain(b) /\ n' = n /\ doomed' = doomed /\ start' = start /\ seen' = seen
    BY <1>2 DEF cleaning
  <2>2. \A i : WalkedTo(i, Chain(b), b)' <=> WalkedTo(i, Chain(b), b)
    BY <2>1 DEF WalkedTo
  <2>3. InOrder(Chain(b))' <=> InOrder(Chain(b))
    BY <2>1 DEF InOrder
  <2> QED BY <1>1, <2>1, <2>2, <2>3 DEF Walk
<1>3. CASE pc[Cleaner] \notin Inside
  BY <1>3 DEF Walk
<1> QED BY <1>2, <1>3

(* No count changes, and nobody comes to or leaves the steps around it. *)
LEMMA SameCounted ==
    ASSUME IInv, next' = next, count' = count,
           \A t \in Threads : /\ pc'[t] \in {"give", "count"} <=> pc[t] \in {"give", "count"}
                              /\ pc'[t] = "linked" <=> pc[t] = "linked"
                              /\ pc[t] \in {"give", "count", "linked"} => at'[t] = at[t]
    PROVE  Counted'
<1>1. \A b \in Buckets : Chain(b)' = Chain(b)
  BY SameLists
<1>2. \A b \in Buckets : (Behind(b)' <=> Behind(b)) /\ (Ahead(b)' <=> Ahead(b))
  BY Basics DEF Behind, Ahead
<1> QED BY <1>1, <1>2 DEF IInv, Counted
(* The lock keeps the other thread out. *)
LEMMA Alone ==
    ASSUME IInv, NEW t \in Threads, NEW u \in Threads, t # u, NEW b \in Buckets, at[t] = b, pc[t] \in Inside
    PROVE  ~(at[u] = b /\ pc[u] \in Inside) /\ (pc[u] \in {"linked", "give", "count"} => at[u] # b)
<1>1. ~(at[u] = b /\ pc[u] \in Inside)
  BY DEF IInv, Locks
<1> QED BY <1>1 DEF Inside

-----------------------------------------------------------------------------
(* The steps. *)

(* The manager takes a flow. *)
LEMMA TakeFlowStep ==
    ASSUME IInv, NEW k \in Keys, TakeFlow(k)
    PROVE  IInv'
<1>1. /\ pc[Manager] = "wait" /\ pc'[Manager] = "lock" /\ pc'[Cleaner] = pc[Cleaner]
      /\ Pcs' /\ pc' \in [Threads -> ManagerPcs \cup CleanerPcs]
  <2>1. Step(Manager, "wait", "lock") /\ "lock" \in ManagerPcs
    BY DEF TakeFlow, ManagerPcs
  <2> QED BY <2>1, Moves, Basics
<1>2. /\ UNCHANGED <<next, prev, key, session_pool, idle, count, lock, p, n, doomed, start, seen>>
      /\ flow' = k /\ at' = [at EXCEPT ![Manager] = BucketOf[k]]
  BY DEF TakeFlow, lists, cleaning
<1>3. TypeOK
  BY DEF IInv
<1>4. at' \in [Threads -> Buckets] /\ at'[Manager] = BucketOf[k] /\ at'[Cleaner] = at[Cleaner]
  BY <1>2, <1>3, Basics DEF TypeOK
<1>5. TypeOK'
  BY <1>1, <1>2, <1>3, <1>4 DEF TypeOK, ManagerPcs, CleanerPcs
<1>6. Circles'
  <2>1. session_pool' \cap Linked = {}
    BY <1>2 DEF IInv, Circles
  <2> QED BY <1>2, <2>1, SameCircles
<1>7. Locks'
  BY <1>1, <1>2, <1>4, Basics DEF IInv, Locks, Inside
<1>8. Hands'
  <2>1. Linked' = Linked /\ \A b \in Buckets : In(b)' = In(b)
    BY <1>2, SameLists
  <2> QED BY <1>1, <1>2, <1>4, <2>1, Basics DEF IInv, Hands
<1>9. Searching'
  BY <1>1, <1>2, <1>4 DEF Searching, Search
<1>10. Filed'
  BY <1>2, SameFiled
<1>11. Counted'
  BY <1>1, <1>2, <1>4, SameCounted, Basics
<1>12. Walking'
  <2>1. \A b \in Buckets : Chain(b)' = Chain(b)
    BY <1>2, SameLists
  <2> QED BY <1>1, <1>2, <1>4, <2>1, SameWalking DEF cleaning
<1> QED BY <1>1, <1>5, <1>6, <1>7, <1>8, <1>9, <1>10, <1>11, <1>12 DEF IInv

(* The manager locks the flow's bucket and looks at its first node. *)
LEMMA LockBucketStep ==
    ASSUME IInv, LockBucket
    PROVE  IInv'
<1>0. PICK b \in Buckets : at[Manager] = b
  BY Basics DEF IInv, TypeOK
<1>1. /\ pc[Manager] = "lock" /\ pc'[Manager] = "find" /\ pc'[Cleaner] = pc[Cleaner]
      /\ Pcs' /\ pc' \in [Threads -> ManagerPcs \cup CleanerPcs]
  <2>1. Step(Manager, "lock", "find") /\ "find" \in ManagerPcs
    BY DEF LockBucket, ManagerPcs
  <2> QED BY <2>1, Moves, Basics
<1>2. /\ UNCHANGED <<next, prev, key, session_pool, idle, count, at, flow, n, doomed, start, seen>>
      /\ lock[b] = NoThread /\ lock' = [lock EXCEPT ![b] = Manager] /\ p' = [p EXCEPT ![Manager] = next[b]]
  BY <1>0 DEF LockBucket, lists, cleaning
<1>3. TypeOK
  BY DEF IInv
<1>4. next[b] = Stop(Chain(b), b, 1) /\ next[b] \in Cells
  BY OnCircle, ChainStops
<1>6. /\ p' \in [Threads -> Cells] /\ p'[Manager] = next[b] /\ p'[Cleaner] = p[Cleaner]
      /\ lock' \in [Buckets -> Threads \cup {NoThread}]
      /\ \A c \in Buckets : lock'[c] = IF c = b THEN Manager ELSE lock[c]
  BY <1>2, <1>3, <1>4, Basics DEF TypeOK
<1>7. TypeOK'
  BY <1>1, <1>2, <1>3, <1>6 DEF TypeOK, ManagerPcs, CleanerPcs
<1>8. \A c \in Buckets : Chain(c)' = Chain(c) /\ In(c)' = In(c)
  BY <1>2, SameLists
<1>9. Circles'
  <2>1. session_pool' \cap Linked = {}
    BY <1>2 DEF IInv, Circles
  <2> QED BY <1>2, <2>1, SameCircles
<1>10. Locks'
  BY <1>0, <1>1, <1>2, <1>6, Basics DEF IInv, Locks, Inside
<1>11. Hands'
  <2>1. Linked' = Linked
    BY <1>2, SameLists
  <2> QED BY <1>1, <1>2, <1>6, <1>8, <2>1, Basics DEF IInv, Hands
<1>12. Searching'
  <2>1. Len(Chain(b)) \in Nat
    BY ChainFacts
  <2>2. 1 \in 1..(Len(Chain(b)) + 1) /\ 1..(1 - 1) = {}
    BY <2>1
  <2>3. flow \in Keys /\ b = BucketOf[flow]
    BY <1>0, <1>1 DEF IInv, Searching, Search
  <2>4. Search(b)'
    BY <1>1, <1>2, <1>4, <1>6, <1>8, <2>2, <2>3 DEF Search
  <2> QED BY <1>0, <1>2, <2>4 DEF Searching
<1>13. Filed'
  BY <1>2, SameFiled
<1>14. Counted'
  BY <1>1, <1>2, SameCounted, Basics
<1>15. Walking'
  BY <1>1, <1>2, <1>6, <1>8, SameWalking DEF cleaning
<1> QED BY <1>1, <1>7, <1>9, <1>10, <1>11, <1>12, <1>13, <1>14, <1>15 DEF IInv
(* A round of the search: at the head nothing was found. *)
LEMMA FindStepStep ==
    ASSUME IInv, FindStep
    PROVE  IInv'
<1>0. PICK b \in Buckets : at[Manager] = b
  BY Basics DEF IInv, TypeOK
<1>1. PICK x : x = p[Manager]
  OBVIOUS
<1>2. PICK to : to = IF x = b THEN "take" ELSE IF key[x] = flow THEN "found" ELSE "find"
  OBVIOUS
<1>3. /\ pc[Manager] = "find" /\ pc'[Manager] = to /\ pc'[Cleaner] = pc[Cleaner]
      /\ Pcs' /\ pc' \in [Threads -> ManagerPcs \cup CleanerPcs]
  <2>1. Step(Manager, "find", to)
    BY <1>0, <1>1, <1>2 DEF FindStep, Step
  <2>2. to \in ManagerPcs
    BY <1>2 DEF ManagerPcs
  <2> QED BY <2>1, <2>2, Moves, Basics
<1>4. /\ UNCHANGED <<next, prev, key, session_pool, idle, count, lock, at, flow, n, doomed, start, seen>>
      /\ p' = IF to = "find" THEN [p EXCEPT ![Manager] = next[x]] ELSE p
  BY <1>1, <1>3 DEF FindStep, lists, cleaning
<1>5. TypeOK
  BY DEF IInv
<1>6. PICK i \in 1..(Len(Chain(b)) + 1) : x = Stop(Chain(b), b, i) /\ \A j \in 1..(i - 1) : key[Chain(b)[j]] # flow
  BY <1>0, <1>1, <1>3 DEF IInv, Searching, Search
<1>7. /\ x \in In(b) \cup {b} /\ (x = b <=> i = Len(Chain(b)) + 1)
      /\ x # b => i \in 1..Len(Chain(b)) /\ next[x] = Stop(Chain(b), b, i + 1) /\ x = Chain(b)[i]
  BY <1>6, ChainStops
<1>8. next[x] \in Cells
  BY <1>7, OnCircle
<1>9. /\ p' \in [Threads -> Cells] /\ p'[Manager] = (IF to = "find" THEN next[x] ELSE x)
      /\ p'[Cleaner] = p[Cleaner]
  BY <1>1, <1>4, <1>5, <1>8, Basics DEF TypeOK
<1>10. TypeOK'
  BY <1>3, <1>4, <1>5, <1>9 DEF TypeOK, ManagerPcs, CleanerPcs
<1>11. Linked' = Linked /\ \A c \in Buckets : Chain(c)' = Chain(c) /\ In(c)' = In(c)
  BY <1>4, SameLists
<1>12. Circles'
  <2>1. session_pool' \cap Linked = {}
    BY <1>4 DEF IInv, Circles
  <2> QED BY <1>4, <2>1, SameCircles
<1>13. \A t \in Threads : /\ pc'[t] \in Inside <=> pc[t] \in Inside
                          /\ pc'[t] \in {"give", "count"} <=> pc[t] \in {"give", "count"}
                          /\ pc'[t] = "linked" <=> pc[t] = "linked"
  BY <1>2, <1>3, Basics DEF Inside
<1>14. Locks'
  BY <1>4, <1>13, SameLocks
<1>15. Hands'
  <2>1. pc'[Manager] \notin {"give", "link", "count"}
    BY <1>2, <1>3
  <2> QED BY <1>3, <1>4, <1>9, <1>11, <2>1, Basics DEF IInv, Hands
<1>16. Searching'
  <2>1. /\ Len(Chain(b)) \in Nat /\ In(b) = Elements(Chain(b)) /\ Chain(b) \in Seq(Nodes) /\ b \notin Nodes
    BY ChainFacts
  <2>2. flow \in Keys /\ b = BucketOf[flow]
    BY <1>0, <1>3 DEF IInv, Searching, Search
  <2>3. CASE x = b
    <3>1. i = Len(Chain(b)) + 1 /\ i - 1 = Len(Chain(b)) /\ to = "take"
      BY <1>2, <1>7, <2>1, <2>3
    <3>2. \A y \in In(b) : \E j \in 1..Len(Chain(b)) : Chain(b)[j] = y
      BY <2>1, SeqFacts
    <3>3. \A y \in In(b) : key[y] # flow
      BY <1>6, <3>1, <3>2
    <3>4. Search(b)'
      BY <1>3, <1>4, <1>11, <2>2, <3>1, <3>3 DEF Search
    <3> QED BY <1>0, <1>4, <3>4 DEF Searching
  <2>4. CASE x # b /\ key[x] = flow
    <3>1. Search(b)'
      BY <1>2, <1>3, <1>4, <1>7, <1>9, <1>11, <2>2, <2>4 DEF Search
    <3> QED BY <1>0, <1>4, <3>1 DEF Searching
  <2>5. CASE x # b /\ key[x] # flow
    <3>1. to = "find" /\ i \in 1..Len(Chain(b)) /\ p'[Manager] = Stop(Chain(b), b, i + 1) /\ key[Chain(b)[i]] # flow
      BY <1>2, <1>7, <1>9, <2>5
    <3>2. i + 1 \in 1..(Len(Chain(b)) + 1) /\ \A j \in 1..((i + 1) - 1) : j = i \/ j \in 1..(i - 1)
      BY <2>1, <3>1
    <3>3. \A j \in 1..((i + 1) - 1) : key[Chain(b)[j]] # flow
      BY <1>6, <3>1, <3>2
    <3>4. Search(b)'
      BY <1>3, <1>4, <1>11, <2>2, <3>1, <3>2, <3>3 DEF Search
    <3> QED BY <1>0, <1>4, <3>4 DEF Searching
  <2> QED BY <2>3, <2>4, <2>5
<1>17. Filed'
  BY <1>4, SameFiled
<1>18. Counted'
  BY <1>4, <1>13, SameCounted
<1>19. Walking'
  BY <1>3, <1>4, <1>9, <1>11, SameWalking DEF cleaning
<1> QED BY <1>3, <1>10, <1>12, <1>14, <1>15, <1>16, <1>17, <1>18, <1>19 DEF IInv

(* A node leaves the pool and gets the flow's key. *)
LEMMA TakeNodeStep ==
    ASSUME IInv, TakeNode
    PROVE  IInv'
<1>0. PICK b \in Buckets : at[Manager] = b
  BY Basics DEF IInv, TypeOK
<1>1. /\ pc[Manager] = "take" /\ pc'[Manager] = "link" /\ pc'[Cleaner] = pc[Cleaner]
      /\ Pcs' /\ pc' \in [Threads -> ManagerPcs \cup CleanerPcs]
  <2>1. Step(Manager, "take", "link") /\ "link" \in ManagerPcs
    BY DEF TakeNode, ManagerPcs
  <2> QED BY <2>1, Moves, Basics
<1>2. PICK x \in session_pool : /\ session_pool' = session_pool \ {x} /\ key' = [key EXCEPT ![x] = flow]
                                /\ p' = [p EXCEPT ![Manager] = x]
  BY DEF TakeNode
<1>3. UNCHANGED <<next, prev, idle, count, lock, at, flow, n, doomed, start, seen>>
  BY DEF TakeNode, cleaning
<1>4. TypeOK
  BY DEF IInv
<1>5. flow \in Keys /\ b = BucketOf[flow] /\ \A y \in In(b) : key[y] # flow
  BY <1>0, <1>1 DEF IInv, Searching, Search
<1>6. /\ x \in Nodes /\ x \in Cells /\ x \notin Linked
      /\ p' \in [Threads -> Cells] /\ p'[Manager] = x /\ p'[Cleaner] = p[Cleaner]
      /\ key' \in [Nodes -> Keys \cup {NoKey}] /\ key'[x] = flow
      /\ \A y \in Nodes : y # x => key'[y] = key[y]
  BY <1>2, <1>4, <1>5, Basics DEF TypeOK, IInv, Circles
<1>7. TypeOK'
  BY <1>1, <1>2, <1>3, <1>4, <1>6 DEF TypeOK, ManagerPcs, CleanerPcs
<1>8. Linked' = Linked /\ \A c \in Buckets : Chain(c)' = Chain(c) /\ In(c)' = In(c)
  BY <1>3, SameLists
<1>9. \A c \in Buckets : \A y \in In(c) : y # x /\ key'[y] = key[y]
  BY <1>6, ChainFacts
<1>10. Circles'
  <2>1. session_pool' \cap Linked = {}
    BY <1>2 DEF IInv, Circles
  <2> QED BY <1>3, <2>1, SameCircles
<1>11. \A t \in Threads : /\ pc'[t] \in Inside <=> pc[t] \in Inside
                          /\ pc'[t] \in {"give", "count"} <=> pc[t] \in {"give", "count"}
                          /\ pc'[t] = "linked" <=> pc[t] = "linked"
  BY <1>1, Basics DEF Inside
<1>12. Locks'
  BY <1>3, <1>11, SameLocks
<1>13. Hands'
  <2>1. x \in Nodes \ (Linked \cup session_pool') /\ pc'[Manager] = "link"
    BY <1>1, <1>2, <1>6
  <2>2. pc[Cleaner] = "give" => p[Cleaner] \in Nodes \ (Linked \cup session_pool) /\ p[Cleaner] # x
    BY <1>2, Basics DEF IInv, Hands
  <2> QED BY <1>1, <1>2, <1>3, <1>6, <1>8, <2>1, <2>2, Basics DEF IInv, Hands
<1>14. Searching'
  <2>1. Search(b)'
    BY <1>1, <1>3, <1>5, <1>6, <1>8, <1>9 DEF Search
  <2> QED BY <1>0, <1>3, <2>1 DEF Searching
<1>15. Filed'
  BY <1>3, <1>9, SameFiled
<1>16. Counted'
  BY <1>3, <1>11, SameCounted
<1>17. Walking'
  BY <1>1, <1>3, <1>6, <1>8, SameWalking DEF cleaning
<1> QED BY <1>1, <1>7, <1>10, <1>12, <1>13, <1>14, <1>15, <1>16, <1>17 DEF IInv
(* The new node is linked. *)
LEMMA LinkNodeStep ==
    ASSUME IInv, LinkNode
    PROVE  IInv'
<1>0. PICK b \in Buckets : at[Manager] = b
  BY Basics DEF IInv, TypeOK
<1>1. /\ pc[Manager] = "link" /\ pc'[Manager] = "linked" /\ pc'[Cleaner] = pc[Cleaner]
      /\ Pcs' /\ pc' \in [Threads -> ManagerPcs \cup CleanerPcs]
  <2>1. Step(Manager, "link", "linked") /\ "linked" \in ManagerPcs
    BY DEF LinkNode, ManagerPcs
  <2> QED BY <2>1, Moves, Basics
<1>2. PICK x : x = p[Manager]
  OBVIOUS
<1>3. /\ UNCHANGED <<key, session_pool, idle, count, lock, at, p, flow, n, doomed, start, seen>>
      /\ list_add_tail(x, b)
  BY <1>0, <1>2 DEF LinkNode, cleaning
<1>4. TypeOK
  BY DEF IInv
<1>5. x \in Nodes /\ x \notin Linked /\ x \notin session_pool
  BY <1>1, <1>2, Basics DEF IInv, Hands
<1>6. /\ flow \in Keys /\ b = BucketOf[flow] /\ key[x] = flow /\ \A y \in In(b) : key[y] # flow
  BY <1>0, <1>1, <1>2 DEF IInv, Searching, Search
<1>7. /\ Chain(b)' = Append(Chain(b), x) /\ In(b)' = In(b) \cup {x}
      /\ \A c \in Buckets : c # b => Chain(c)' = Chain(c) /\ In(c)' = In(c)
      /\ \A c \in Buckets : Circle(next, prev, Chain(c), c)'
      /\ Linked' = Linked \cup {x}
      /\ next' \in [Cells -> Cells \cup {NULL}] /\ prev' \in [Cells -> Cells \cup {NULL}]
  BY <1>3, <1>5, Linking
<1>8. \A c \in Buckets : In(c) \subseteq Linked /\ x \notin In(c)
  BY <1>5, ChainFacts
<1>9. TypeOK'
  BY <1>1, <1>3, <1>4, <1>7 DEF TypeOK, ManagerPcs, CleanerPcs
<1>10. Circles'
  <2>1. \A c, d \in Buckets : c # d => In(c) \cap In(d) = {}
    BY DEF IInv, Circles
  <2>2. \A c, d \in Buckets : c # d => In(c)' \cap In(d)' = {}
    BY <1>7, <1>8, <2>1
  <2>3. session_pool' \cap Linked' = {}
    BY <1>3, <1>5, <1>7 DEF IInv, Circles
  <2> QED BY <1>7, <2>2, <2>3 DEF Circles
<1>11. \A t \in Threads : pc'[t] \in Inside <=> pc[t] \in Inside
  BY <1>1, Basics DEF Inside
<1>12. Locks'
  BY <1>3, <1>11, SameLocks
<1>13. ~(at[Cleaner] = b /\ pc[Cleaner] \in Inside) /\ (pc[Cleaner] \in {"linked", "give", "count"} => at[Cleaner] # b)
  <2>1. pc[Manager] \in Inside
    BY <1>1 DEF Inside
  <2> QED BY <1>0, <2>1, Alone, Basics
<1>14. Hands'
  <2>1. pc[Cleaner] \notin {"link", "linked"}
    BY DEF IInv, Pcs, CleanerPcs
  <2>2. pc[Cleaner] = "give" => p[Cleaner] \in Nodes \ (Linked \cup session_pool) /\ p[Cleaner] # x
    BY <1>1, <1>2, Basics DEF IInv, Hands
  <2>3. \A c \in Buckets : pc[Cleaner] = "count" /\ at[Cleaner] = c => p[Cleaner] \in Nodes \ In(c) /\ In(c)' = In(c)
    BY <1>7, <1>13, Basics DEF IInv, Hands
  <2> QED BY <1>1, <1>3, <1>7, <2>1, <2>2, <2>3, Basics DEF Hands
<1>15. Searching'
  <2>1. Search(b)'
    BY <1>1, <1>2, <1>3, <1>6, <1>7 DEF Search
  <2> QED BY <1>0, <1>3, <2>1 DEF Searching
<1>16. Filed'
  <2>1. \A c \in Buckets : \A y \in In(c) : key[y] \in Keys /\ BucketOf[key[y]] = c
    BY DEF IInv, Filed
  <2>2. \A c \in Buckets : \A y, z \in In(c) : key[y] = key[z] => y = z
    BY DEF IInv, Filed
  <2>3. \A c \in Buckets : \A y \in In(c)' : key[y] \in Keys /\ BucketOf[key[y]] = c
    BY <1>6, <1>7, <2>1
  <2>4. \A c \in Buckets : \A y, z \in In(c)' : key[y] = key[z] => y = z
    BY <1>6, <1>7, <2>2
  <2> QED BY <1>3, <2>3, <2>4 DEF Filed
<1>17. Counted'
  <2>1. Len(Chain(b)) \in Nat /\ Chain(b) \in Seq(Nodes)
    BY ChainFacts
  <2>2. Len(Append(Chain(b), x)) = Len(Chain(b)) + 1
    BY <1>5, <2>1, Appended
  <2>3. ~Behind(b) /\ ~Ahead(b) /\ Behind(b)'
    BY <1>0, <1>1, <1>3, <1>13, Basics DEF Behind, Ahead
  <2>4. \A c \in Buckets : c # b => (Behind(c)' <=> Behind(c)) /\ (Ahead(c)' <=> Ahead(c))
    BY <1>0, <1>1, <1>3, Basics DEF Behind, Ahead
  <2>5. count[b] = Len(Chain(b)) /\ count[b] = (Len(Chain(b)) + 1) - 1
    BY <2>1, <2>3 DEF IInv, Counted
  <2> QED BY <1>3, <1>7, <2>2, <2>3, <2>4, <2>5 DEF IInv, Counted
<1>18. Walking'
  BY <1>1, <1>3, <1>7, <1>13, SameWalking DEF cleaning
<1> QED BY <1>1, <1>9, <1>10, <1>12, <1>14, <1>15, <1>16, <1>17, <1>18 DEF IInv

(* The count follows. *)
LEMMA RaiseCountStep ==
    ASSUME IInv, RaiseCount
    PROVE  IInv'
<1>0. PICK b \in Buckets : at[Manager] = b
  BY Basics DEF IInv, TypeOK
<1>1. /\ pc[Manager] = "linked" /\ pc'[Manager] = "unlock" /\ pc'[Cleaner] = pc[Cleaner]
      /\ Pcs' /\ pc' \in [Threads -> ManagerPcs \cup CleanerPcs]
  <2>1. Step(Manager, "linked", "unlock") /\ "unlock" \in ManagerPcs
    BY DEF RaiseCount, ManagerPcs
  <2> QED BY <2>1, Moves, Basics
<1>2. /\ UNCHANGED <<next, prev, key, session_pool, idle, lock, at, p, flow, n, doomed, start, seen>>
      /\ count' = [count EXCEPT ![b] = count[b] + 1]
  BY <1>0 DEF RaiseCount, lists, cleaning
<1>3. TypeOK
  BY DEF IInv
<1>4. Len(Chain(b)) \in Nat /\ Len(Chain(b)) <= Size /\ Size \in Nat
  BY ChainFacts, Basics
<1>5. ~(at[Cleaner] = b /\ pc[Cleaner] \in Inside) /\ (pc[Cleaner] \in {"linked", "give", "count"} => at[Cleaner] # b)
  <2>1. pc[Manager] \in Inside
    BY <1>1 DEF Inside
  <2> QED BY <1>0, <2>1, Alone, Basics
<1>6. count[b] + 1 = Len(Chain(b)) /\ ~Behind(b)' /\ ~Ahead(b)'
  <2>1. Behind(b)
    BY <1>0, <1>1 DEF Behind
  <2>2. count[b] = Len(Chain(b)) - 1
    BY <2>1 DEF IInv, Counted
  <2>3. ~Behind(b)' /\ ~Ahead(b)'
    BY <1>0, <1>1, <1>2, <1>5, Basics DEF Behind, Ahead
  <2> QED BY <1>4, <2>2, <2>3
<1>7. /\ count' \in [Buckets -> 0..Size] /\ count'[b] = Len(Chain(b))
      /\ \A c \in Buckets : c # b => count'[c] = count[c]
  <2>1. count \in [Buckets -> 0..Size] /\ Len(Chain(b)) \in 0..Size
    BY <1>3, <1>4 DEF TypeOK, Size
  <2> QED BY <1>2, <1>6, <2>1
<1>8. TypeOK'
  BY <1>1, <1>2, <1>3, <1>7 DEF TypeOK, ManagerPcs, CleanerPcs, Size
<1>9. Linked' = Linked /\ \A c \in Buckets : Chain(c)' = Chain(c) /\ In(c)' = In(c)
  BY <1>2, SameLists
<1>10. Circles'
  <2>1. session_pool' \cap Linked = {}
    BY <1>2 DEF IInv, Circles
  <2> QED BY <1>2, <2>1, SameCircles
<1>11. \A t \in Threads : pc'[t] \in Inside <=> pc[t] \in Inside
  BY <1>1, Basics DEF Inside
<1>12. Locks'
  BY <1>2, <1>11, SameLocks
<1>13. Hands'
  BY <1>1, <1>2, <1>9, Basics DEF IInv, Hands
<1>14. Searching'
  <2>1. flow \in Keys /\ b = BucketOf[flow]
    BY <1>0, <1>1 DEF IInv, Searching, Search
  <2>2. Search(b)'
    BY <1>1, <1>2, <2>1 DEF Search
  <2> QED BY <1>0, <1>2, <2>2 DEF Searching
<1>15. Filed'
  BY <1>2, SameFiled
<1>16. Counted'
  <2>1. \A c \in Buckets : c # b => (Behind(c)' <=> Behind(c)) /\ (Ahead(c)' <=> Ahead(c))
    BY <1>0, <1>1, <1>2, Basics DEF Behind, Ahead
  <2> QED BY <1>6, <1>7, <1>9, <2>1 DEF IInv, Counted
<1>17. Walking'
  BY <1>1, <1>2, <1>9, SameWalking DEF cleaning
<1> QED BY <1>1, <1>8, <1>10, <1>12, <1>13, <1>14, <1>15, <1>16, <1>17 DEF IInv
(* The payload is appended. *)
LEMMA AppendPayloadStep ==
    ASSUME IInv, AppendPayload
    PROVE  IInv'
<1>0. PICK b \in Buckets : at[Manager] = b
  BY Basics DEF IInv, TypeOK
<1>1. /\ pc[Manager] = "found" /\ pc'[Manager] = "unlock" /\ pc'[Cleaner] = pc[Cleaner]
      /\ Pcs' /\ pc' \in [Threads -> ManagerPcs \cup CleanerPcs]
  <2>1. Step(Manager, "found", "unlock") /\ "unlock" \in ManagerPcs
    BY DEF AppendPayload, ManagerPcs
  <2> QED BY <2>1, Moves, Basics
<1>2. /\ UNCHANGED <<next, prev, key, session_pool, count, lock, at, p, flow, n, doomed, start, seen>>
      /\ idle' \subseteq idle
  BY DEF AppendPayload, lists, cleaning
<1>3. TypeOK'
  BY <1>1, <1>2 DEF IInv, TypeOK, ManagerPcs, CleanerPcs
<1>4. Linked' = Linked /\ \A c \in Buckets : Chain(c)' = Chain(c) /\ In(c)' = In(c)
  BY <1>2, SameLists
<1>5. Circles'
  <2>1. session_pool' \cap Linked = {}
    BY <1>2 DEF IInv, Circles
  <2> QED BY <1>2, <2>1, SameCircles
<1>6. \A t \in Threads : /\ pc'[t] \in Inside <=> pc[t] \in Inside
                         /\ pc'[t] \in {"give", "count"} <=> pc[t] \in {"give", "count"}
                         /\ pc'[t] = "linked" <=> pc[t] = "linked"
  BY <1>1, Basics DEF Inside
<1>7. Locks'
  BY <1>2, <1>6, SameLocks
<1>8. Hands'
  BY <1>1, <1>2, <1>4, Basics DEF IInv, Hands
<1>9. Searching'
  <2>1. flow \in Keys /\ b = BucketOf[flow]
    BY <1>0, <1>1 DEF IInv, Searching, Search
  <2>2. Search(b)'
    BY <1>1, <1>2, <2>1 DEF Search
  <2> QED BY <1>0, <1>2, <2>2 DEF Searching
<1>10. Filed'
  BY <1>2, SameFiled
<1>11. Counted'
  BY <1>2, <1>6, SameCounted
<1>12. Walking'
  BY <1>1, <1>2, <1>4, SameWalking DEF cleaning
<1> QED BY <1>1, <1>3, <1>5, <1>7, <1>8, <1>9, <1>10, <1>11, <1>12 DEF IInv

(* A thread unlinks a node of its bucket. *)
LEMMA UnlinkStep ==
    ASSUME IInv, NEW t \in Threads, NEW b \in Buckets, at[t] = b, Step(t, pc[t], "give"), pc[t] \in {"found", "visit"},
           NEW k \in 1..Len(Chain(b)), p[t] = Chain(b)[k], list_del(p[t]),
           UNCHANGED <<key, session_pool, idle, count, lock, at, p, flow>>
    PROVE  /\ Pcs' /\ Circles' /\ Locks' /\ Hands' /\ Filed' /\ Counted'
           /\ pc'[t] = "give" /\ \A u \in Threads : u # t => pc'[u] = pc[u]
           /\ pc' \in [Threads -> ManagerPcs \cup CleanerPcs]
           /\ next' \in [Cells -> Cells \cup {NULL}] /\ prev' \in [Cells -> Cells \cup {NULL}]
           /\ Chain(b)' = Without(Chain(b), k) /\ In(b)' = In(b) \ {p[t]}
           /\ \A c \in Buckets : c # b => Chain(c)' = Chain(c) /\ In(c)' = In(c)
           /\ \A u \in Threads : u # t => ~(at[u] = b /\ pc[u] \in Inside)
<1>0. PICK x : x = p[t]
  OBVIOUS
<1>1. /\ pc'[t] = "give" /\ \A u \in Threads : u # t => pc'[u] = pc[u]
      /\ Pcs' /\ pc' \in [Threads -> ManagerPcs \cup CleanerPcs]
  <2>1. "give" \in ManagerPcs /\ "give" \in CleanerPcs
    BY DEF ManagerPcs, CleanerPcs
  <2> QED BY <2>1, Moves
<1>2. /\ Chain(b)' = Without(Chain(b), k) /\ In(b)' = In(b) \ {x} /\ x \in In(b)
      /\ \A c \in Buckets : c # b => Chain(c)' = Chain(c) /\ In(c)' = In(c)
      /\ \A c \in Buckets : Circle(next, prev, Chain(c), c)'
      /\ Linked' = Linked \ {x}
      /\ next' \in [Cells -> Cells \cup {NULL}] /\ prev' \in [Cells -> Cells \cup {NULL}]
  BY <1>0, Unlinking
<1>3. \A c \in Buckets : In(c)' \subseteq In(c)
  BY <1>2
<1>4. x \in Nodes /\ x \in Linked /\ x \notin session_pool
  <2>1. x \in Nodes /\ x \in Linked
    BY <1>2, ChainFacts
  <2> QED BY <2>1 DEF IInv, Circles
<1>5. Circles'
  <2>1. \A c, d \in Buckets : c # d => In(c) \cap In(d) = {}
    BY DEF IInv, Circles
  <2>2. \A c, d \in Buckets : c # d => In(c)' \cap In(d)' = {}
    BY <1>3, <2>1
  <2>3. session_pool' \cap Linked' = {}
    BY <1>2 DEF IInv, Circles
  <2> QED BY <1>2, <2>2, <2>3 DEF Circles
<1>6. \A u \in Threads : pc'[u] \in Inside <=> pc[u] \in Inside
  BY <1>1 DEF Inside
<1>7. Locks'
  BY <1>6, SameLocks
<1>8. \A u \in Threads : u # t => ~(at[u] = b /\ pc[u] \in Inside) /\ (pc[u] \in {"linked", "give", "count"} => at[u] # b)
  <2>1. pc[t] \in Inside
    BY <1>1 DEF Inside
  <2> QED BY <2>1, Alone
<1>9. Hands'
  <2>1. x \in Nodes \ (Linked' \cup session_pool)
    BY <1>2, <1>4
  <2>2. \A u \in Threads : u # t /\ pc[u] \in {"give", "link"} => p[u] \in Nodes \ (Linked' \cup session_pool) /\ p[u] # x
    BY <1>2, <1>4 DEF IInv, Hands
  <2>3. \A u \in Threads, c \in Buckets : u # t /\ pc[u] = "count" /\ at[u] = c => p[u] \in Nodes \ In(c)'
    BY <1>3 DEF IInv, Hands
  <2>4. \A u \in Threads : pc'[u] \in {"give", "link"} => p'[u] \in Nodes \ (Linked' \cup session_pool')
    BY <1>0, <1>1, <2>1, <2>2
  <2>5. \A u \in Threads, c \in Buckets : pc'[u] = "count" /\ at'[u] = c => p'[u] \in Nodes \ In(c)'
    BY <1>1, <2>3
  <2>6. pc'[Manager] \in {"give", "link"} /\ pc'[Cleaner] = "give" => p'[Manager] # p'[Cleaner]
    BY <1>0, <1>1, <2>2, Basics
  <2> QED BY <2>4, <2>5, <2>6 DEF Hands
<1>10. Filed'
  BY <1>3 DEF IInv, Filed
<1>11. Counted'
  <2>1. Chain(b) \in Seq(Nodes) /\ Distinct(Chain(b)) /\ Len(Chain(b)) \in Nat
    BY ChainFacts
  <2>2. Len(Without(Chain(b), k)) = Len(Chain(b)) - 1 /\ (Len(Chain(b)) - 1) + 1 = Len(Chain(b))
    BY <2>1, Shorter
  <2>3. ~Behind(b) /\ ~Ahead(b) /\ ~Behind(b)' /\ Ahead(b)'
    BY <1>1, <1>8, Basics DEF Behind, Ahead
  <2>4. \A c \in Buckets : c # b => (Behind(c)' <=> Behind(c)) /\ (Ahead(c)' <=> Ahead(c))
    BY <1>1, Basics DEF Behind, Ahead
  <2>5. count[b] = Len(Chain(b))
    BY <2>3 DEF IInv, Counted
  <2>6. count'[b] = Len(Chain(b)') + 1
    BY <1>2, <2>2, <2>5
  <2>7. \A c \in Buckets : c # b => Chain(c)' = Chain(c) /\ count'[c] = count[c]
    BY <1>2
  <2> QED BY <2>3, <2>4, <2>6, <2>7 DEF IInv, Counted
<1> QED BY <1>0, <1>1, <1>2, <1>5, <1>7, <1>8, <1>9, <1>10, <1>11

(* The session is full, and is unlinked. *)
LEMMA CloseSessionStep ==
    ASSUME IInv, CloseSession
    PROVE  IInv'
<1>0. PICK b \in Buckets : at[Manager] = b
  BY Basics DEF IInv, TypeOK
<1>1. PICK x : x = p[Manager]
  OBVIOUS
<1>2. /\ UNCHANGED <<key, session_pool, idle, count, lock, at, p, flow, n, doomed, start, seen>>
      /\ list_del(x) /\ Step(Manager, "found", "give")
  BY <1>1 DEF CloseSession, cleaning
<1>3. flow \in Keys /\ b = BucketOf[flow] /\ x \in In(b)
  <2>1. pc[Manager] = "found"
    BY <1>2 DEF Step
  <2> QED BY <1>0, <1>1, <2>1 DEF IInv, Searching, Search
<1>4. PICK k \in 1..Len(Chain(b)) : x = Chain(b)[k]
  BY <1>3, ChainFacts, SeqFacts
<1>5. /\ Pcs' /\ Circles' /\ Locks' /\ Hands' /\ Filed' /\ Counted'
      /\ pc'[Manager] = "give" /\ pc'[Cleaner] = pc[Cleaner]
      /\ pc' \in [Threads -> ManagerPcs \cup CleanerPcs]
      /\ next' \in [Cells -> Cells \cup {NULL}] /\ prev' \in [Cells -> Cells \cup {NULL}]
      /\ \A c \in Buckets : c # b => Chain(c)' = Chain(c) /\ In(c)' = In(c)
      /\ ~(at[Cleaner] = b /\ pc[Cleaner] \in Inside)
  <2>1. /\ UNCHANGED <<key, session_pool, idle, count, lock, at, p, flow>> /\ pc[Manager] \in {"found", "visit"}
        /\ Step(Manager, pc[Manager], "give") /\ list_del(p[Manager]) /\ p[Manager] = Chain(b)[k]
    BY <1>1, <1>2, <1>4 DEF Step
  <2>2. Manager \in Threads /\ Cleaner \in Threads /\ Cleaner # Manager
    BY Basics
  <2>3. /\ Pcs' /\ Circles' /\ Locks' /\ Hands' /\ Filed' /\ Counted'
        /\ pc'[Manager] = "give" /\ \A u \in Threads : u # Manager => pc'[u] = pc[u]
        /\ pc' \in [Threads -> ManagerPcs \cup CleanerPcs]
        /\ next' \in [Cells -> Cells \cup {NULL}] /\ prev' \in [Cells -> Cells \cup {NULL}]
        /\ \A c \in Buckets : c # b => Chain(c)' = Chain(c) /\ In(c)' = In(c)
        /\ \A u \in Threads : u # Manager => ~(at[u] = b /\ pc[u] \in Inside)
    BY ONLY IInv, b \in Buckets, k \in 1..Len(Chain(b)), <1>0, <2>1, <2>2, UnlinkStep
  <2> QED BY <2>2, <2>3
<1>6. TypeOK'
  BY <1>2, <1>5 DEF IInv, TypeOK, ManagerPcs, CleanerPcs
<1>7. Searching'
  <2>1. Search(b)'
    BY <1>2, <1>3, <1>5 DEF Search
  <2> QED BY <1>0, <1>2, <2>1 DEF Searching
<1>8. Walking'
  BY <1>2, <1>5, SameWalking DEF cleaning
<1> QED BY <1>5, <1>6, <1>7, <1>8 DEF IInv
(* Between freeing a node and the end of its round, the cleaner's walk is as it was. *)
LEMMA WalkGoesOn ==
    ASSUME IInv, UNCHANGED cleaning, at'[Cleaner] = at[Cleaner],
           pc[Cleaner] \in {"give", "count"}, pc'[Cleaner] \in {"count", "advance"},
           \A b \in Buckets : Chain(b)' = Chain(b)
    PROVE  Walking'
<1> SUFFICES ASSUME NEW b \in Buckets, at'[Cleaner] = b PROVE Walk(b)'
  BY DEF Walking
<1>1. Walk(b) /\ pc[Cleaner] \in Inside
  BY DEF IInv, Walking, Inside
<1>2. Chain(b)' = Chain(b) /\ n' = n /\ doomed' = doomed /\ start' = start /\ seen' = seen
  BY DEF cleaning
<1>3. \A i : WalkedTo(i, Chain(b), b)' <=> WalkedTo(i, Chain(b), b)
  BY <1>2 DEF WalkedTo
<1>4. InOrder(Chain(b))' <=> InOrder(Chain(b))
  BY <1>2 DEF InOrder
<1> QED BY <1>1, <1>2, <1>3, <1>4 DEF Walk

(* A node goes back to the pool. *)
LEMMA GiveBackStep ==
    ASSUME IInv, NEW t \in Threads, GiveBack(t)
    PROVE  IInv'
<1>1. /\ pc[t] = "give" /\ pc'[t] = "count" /\ \A u \in Threads : u # t => pc'[u] = pc[u]
      /\ Pcs' /\ pc' \in [Threads -> ManagerPcs \cup CleanerPcs]
  <2>1. Step(t, "give", "count") /\ "count" \in ManagerPcs /\ "count" \in CleanerPcs
    BY DEF GiveBack, ManagerPcs, CleanerPcs
  <2> QED BY <2>1, Moves
<1>2. PICK x : x = p[t]
  OBVIOUS
<1>3. /\ UNCHANGED <<next, prev, count, lock, at, p, flow, n, doomed, start, seen>>
      /\ session_pool' = session_pool \cup {x} /\ key' = [key EXCEPT ![x] = NoKey] /\ idle' \subseteq idle
  BY <1>2 DEF GiveBack, cleaning
<1>4. TypeOK
  BY DEF IInv
<1>5. x \in Nodes \ (Linked \cup session_pool)
  BY <1>1, <1>2 DEF IInv, Hands
<1>6. key' \in [Nodes -> Keys \cup {NoKey}] /\ \A y \in Nodes : y # x => key'[y] = key[y]
  BY <1>3, <1>4, <1>5 DEF TypeOK
<1>7. TypeOK'
  BY <1>1, <1>3, <1>4, <1>5, <1>6 DEF TypeOK, ManagerPcs, CleanerPcs
<1>8. Linked' = Linked /\ \A c \in Buckets : Chain(c)' = Chain(c) /\ In(c)' = In(c)
  BY <1>3, SameLists
<1>9. \A c \in Buckets : x \notin In(c) /\ \A y \in In(c) : key'[y] = key[y]
  BY <1>5, <1>6, ChainFacts
<1>10. Circles'
  <2>1. session_pool' \cap Linked = {}
    BY <1>3, <1>5 DEF IInv, Circles
  <2> QED BY <1>3, <2>1, SameCircles
<1>11. \A u \in Threads : /\ pc'[u] \in Inside <=> pc[u] \in Inside
                          /\ pc'[u] \in {"give", "count"} <=> pc[u] \in {"give", "count"}
                          /\ pc'[u] = "linked" <=> pc[u] = "linked"
  BY <1>1 DEF Inside
<1>12. Locks'
  BY <1>3, <1>11, SameLocks
<1>13. \A u \in Threads : u # t /\ pc[u] \in {"give", "link"} => p[u] # x
  <2>1. pc[Cleaner] # "link"
    BY DEF IInv, Pcs, CleanerPcs
  <2> QED BY <1>1, <1>2, <2>1, Basics DEF IInv, Hands
<1>14. Hands'
  <2>1. \A u \in Threads : pc'[u] \in {"give", "link"} => p'[u] \in Nodes \ (Linked' \cup session_pool')
    BY <1>1, <1>3, <1>8, <1>13 DEF IInv, Hands
  <2>2. \A u \in Threads, c \in Buckets : pc'[u] = "count" /\ at'[u] = c => p'[u] \in Nodes \ In(c)'
    BY <1>1, <1>2, <1>3, <1>5, <1>8, <1>9 DEF IInv, Hands
  <2>3. pc'[Manager] \in {"give", "link"} /\ pc'[Cleaner] = "give" => p'[Manager] # p'[Cleaner]
    BY <1>1, <1>3, Basics DEF IInv, Hands
  <2> QED BY <2>1, <2>2, <2>3 DEF Hands
<1>15. Searching'
  <2>1. CASE t = Manager
    <3> SUFFICES ASSUME NEW b \in Buckets, at[Manager] = b PROVE Search(b)'
      BY <1>3 DEF Searching
    <3>1. flow \in Keys /\ b = BucketOf[flow]
      BY <1>1, <2>1 DEF IInv, Searching, Search
    <3> QED BY <1>1, <1>3, <2>1, <3>1 DEF Search
  <2>2. CASE t = Cleaner
    <3>1. pc'[Manager] = pc[Manager]
      BY <1>1, <2>2, Basics
    <3>2. pc[Manager] = "link" => key'[p[Manager]] = key[p[Manager]]
      <4>1. pc[Manager] = "link" => p[Manager] \in Nodes /\ p[Manager] # x
        BY <1>13, <2>2, Basics DEF IInv, Hands
      <4> QED BY <1>6, <4>1
    <3> QED BY <1>3, <1>8, <1>9, <3>1, <3>2, SameSearching
  <2> QED BY <2>1, <2>2, Basics
<1>16. Filed'
  BY <1>3, <1>9, SameFiled
<1>17. Counted'
  BY <1>3, <1>11, SameCounted
<1>18. Walking'
  <2>1. CASE t = Manager
    <3>1. pc'[Cleaner] = pc[Cleaner]
      BY <1>1, <2>1, Basics
    <3> QED BY <1>3, <1>8, <3>1, SameWalking DEF cleaning
  <2>2. CASE t = Cleaner
    BY <1>1, <1>3, <1>8, <2>2, WalkGoesOn DEF cleaning
  <2> QED BY <2>1, <2>2, Basics
<1> QED BY <1>1, <1>7, <1>10, <1>12, <1>14, <1>15, <1>16, <1>17, <1>18 DEF IInv

(* The count follows. *)
LEMMA DropCountStep ==
    ASSUME IInv, NEW t \in Threads, DropCount(t)
    PROVE  IInv'
<1>0. PICK b \in Buckets : at[t] = b
  BY DEF IInv, TypeOK
<1>1. PICK to : to = IF t = Manager THEN "unlock" ELSE "advance"
  OBVIOUS
<1>2. /\ pc[t] = "count" /\ pc'[t] = to /\ \A u \in Threads : u # t => pc'[u] = pc[u]
      /\ Pcs' /\ pc' \in [Threads -> ManagerPcs \cup CleanerPcs]
  <2>1. Step(t, "count", to)
    BY <1>1 DEF DropCount
  <2>2. (t = Manager => to \in ManagerPcs) /\ (t = Cleaner => to \in CleanerPcs)
    BY <1>1, Basics DEF ManagerPcs, CleanerPcs
  <2> QED BY <2>1, <2>2, Moves
<1>3. /\ UNCHANGED <<next, prev, key, session_pool, idle, lock, at, p, flow, n, doomed, start, seen>>
      /\ count' = [count EXCEPT ![b] = count[b] - 1]
  BY <1>0 DEF DropCount, lists, cleaning
<1>4. TypeOK
  BY DEF IInv
<1>5. Len(Chain(b)) \in Nat /\ Len(Chain(b)) <= Size /\ Size \in Nat
  BY ChainFacts, Basics
<1>6. \A u \in Threads : u # t => ~(at[u] = b /\ pc[u] \in Inside) /\ (pc[u] \in {"linked", "give", "count"} => at[u] # b)
  <2>1. pc[t] \in Inside
    BY <1>2 DEF Inside
  <2> QED BY <1>0, <2>1, Alone
<1>7. count[b] - 1 = Len(Chain(b)) /\ ~Behind(b)' /\ ~Ahead(b)'
  <2>1. ~Behind(b) /\ Ahead(b)
    BY <1>0, <1>2, <1>6, Basics DEF Behind, Ahead
  <2>2. count[b] = Len(Chain(b)) + 1
    BY <2>1 DEF IInv, Counted
  <2>3. ~Behind(b)' /\ ~Ahead(b)'
    BY <1>0, <1>1, <1>2, <1>3, <1>6, Basics DEF Behind, Ahead
  <2> QED BY <1>5, <2>2, <2>3
<1>8. /\ count' \in [Buckets -> 0..Size] /\ count'[b] = Len(Chain(b))
      /\ \A c \in Buckets : c # b => count'[c] = count[c]
  <2>1. count \in [Buckets -> 0..Size] /\ Len(Chain(b)) \in 0..Size
    BY <1>4, <1>5 DEF TypeOK, Size
  <2> QED BY <1>3, <1>7, <2>1
<1>9. TypeOK'
  BY <1>2, <1>3, <1>4, <1>8 DEF TypeOK, ManagerPcs, CleanerPcs, Size
<1>10. Linked' = Linked /\ \A c \in Buckets : Chain(c)' = Chain(c) /\ In(c)' = In(c)
  BY <1>3, SameLists
<1>11. Circles'
  <2>1. session_pool' \cap Linked = {}
    BY <1>3 DEF IInv, Circles
  <2> QED BY <1>3, <2>1, SameCircles
<1>12. \A u \in Threads : pc'[u] \in Inside <=> pc[u] \in Inside
  BY <1>1, <1>2 DEF Inside
<1>13. Locks'
  BY <1>3, <1>12, SameLocks
<1>14. Hands'
  <2>1. pc'[t] \notin {"give", "link", "count"}
    BY <1>1, <1>2
  <2>2. \A u \in Threads : pc'[u] \in {"give", "link", "count"} => pc'[u] = pc[u]
    BY <1>2, <2>1
  <2> QED BY <1>3, <1>10, <2>2, Basics DEF IInv, Hands
<1>15. Searching'
  <2>1. CASE t = Manager
    <3>1. flow \in Keys /\ b = BucketOf[flow]
      BY <1>0, <1>2, <2>1 DEF IInv, Searching, Search
    <3>2. Search(b)'
      BY <1>1, <1>2, <1>3, <2>1, <3>1 DEF Search
    <3> QED BY <1>0, <1>3, <2>1, <3>2 DEF Searching
  <2>2. CASE t = Cleaner
    <3>1. pc'[Manager] = pc[Manager]
      BY <1>2, <2>2, Basics
    <3> QED BY <1>3, <1>10, <3>1, SameSearching
  <2> QED BY <2>1, <2>2, Basics
<1>16. Filed'
  BY <1>3, SameFiled
<1>17. Counted'
  <2>1. \A c \in Buckets : c # b => (Behind(c)' <=> Behind(c)) /\ (Ahead(c)' <=> Ahead(c))
    BY <1>0, <1>1, <1>2, <1>3, Basics DEF Behind, Ahead
  <2> QED BY <1>7, <1>8, <1>10, <2>1 DEF IInv, Counted
<1>18. Walking'
  <2>1. CASE t = Manager
    <3>1. pc'[Cleaner] = pc[Cleaner]
      BY <1>2, <2>1, Basics
    <3> QED BY <1>3, <1>10, <3>1, SameWalking DEF cleaning
  <2>2. CASE t = Cleaner
    <3>1. pc'[Cleaner] = "advance"
      BY <1>1, <1>2, <2>2, Basics
    <3> QED BY <1>2, <1>3, <1>10, <2>2, <3>1, WalkGoesOn DEF cleaning
  <2> QED BY <2>1, <2>2, Basics
<1> QED BY <1>2, <1>9, <1>11, <1>13, <1>14, <1>15, <1>16, <1>17, <1>18 DEF IInv
(* The manager leaves its bucket. *)
LEMMA UnlockBucketStep ==
    ASSUME IInv, UnlockBucket
    PROVE  IInv'
<1>0. PICK b \in Buckets : at[Manager] = b
  BY Basics DEF IInv, TypeOK
<1>1. /\ pc[Manager] = "unlock" /\ pc'[Manager] = "wait" /\ pc'[Cleaner] = pc[Cleaner]
      /\ Pcs' /\ pc' \in [Threads -> ManagerPcs \cup CleanerPcs]
  <2>1. Step(Manager, "unlock", "wait") /\ "wait" \in ManagerPcs
    BY DEF UnlockBucket, ManagerPcs
  <2> QED BY <2>1, Moves, Basics
<1>2. /\ UNCHANGED <<next, prev, key, session_pool, idle, count, n, doomed, start, seen>>
      /\ lock' = [lock EXCEPT ![b] = NoThread] /\ flow' = NoKey
      /\ at' = [at EXCEPT ![Manager] = 1] /\ p' = [p EXCEPT ![Manager] = 1]
  BY <1>0 DEF UnlockBucket, lists, cleaning
<1>3. TypeOK /\ 1 \in Buckets /\ 1 \in Cells
  BY BucketAssumption DEF IInv, Buckets, Cells
<1>4. /\ p' \in [Threads -> Cells] /\ p'[Cleaner] = p[Cleaner]
      /\ at' \in [Threads -> Buckets] /\ at'[Cleaner] = at[Cleaner]
      /\ lock' \in [Buckets -> Threads \cup {NoThread}]
      /\ \A c \in Buckets : lock'[c] = IF c = b THEN NoThread ELSE lock[c]
  BY <1>2, <1>3, Basics DEF TypeOK
<1>5. TypeOK'
  BY <1>1, <1>2, <1>3, <1>4 DEF TypeOK, ManagerPcs, CleanerPcs
<1>6. Linked' = Linked /\ \A c \in Buckets : Chain(c)' = Chain(c) /\ In(c)' = In(c)
  BY <1>2, SameLists
<1>7. Circles'
  <2>1. session_pool' \cap Linked = {}
    BY <1>2 DEF IInv, Circles
  <2> QED BY <1>2, <2>1, SameCircles
<1>8. Locks'
  <2>1. pc[Manager] \in Inside /\ pc'[Manager] \notin Inside
    BY <1>1 DEF Inside
  <2>2. ~(at[Cleaner] = b /\ pc[Cleaner] \in Inside)
    BY <1>0, <2>1, Alone, Basics
  <2> QED BY <1>0, <1>1, <1>4, <2>1, <2>2, Basics DEF IInv, Locks
<1>9. Hands'
  BY <1>1, <1>2, <1>4, <1>6, Basics DEF IInv, Hands
<1>10. Searching'
  BY <1>1 DEF Searching, Search
<1>11. Filed'
  BY <1>2, SameFiled
<1>12. Counted'
  BY <1>1, <1>2, <1>4, SameCounted, Basics
<1>13. Walking'
  BY <1>1, <1>2, <1>4, <1>6, SameWalking DEF cleaning
<1> QED BY <1>1, <1>5, <1>7, <1>8, <1>9, <1>10, <1>11, <1>12, <1>13 DEF IInv

(* A pass of the cleaner starts. *)
LEMMA StartPassStep ==
    ASSUME IInv, StartPass
    PROVE  IInv'
<1>1. /\ pc[Cleaner] = "wait" /\ pc'[Cleaner] = "lock" /\ pc'[Manager] = pc[Manager]
      /\ Pcs' /\ pc' \in [Threads -> ManagerPcs \cup CleanerPcs]
  <2>1. Step(Cleaner, "wait", "lock") /\ "lock" \in CleanerPcs
    BY DEF StartPass, CleanerPcs
  <2> QED BY <2>1, Moves, Basics
<1>2. UNCHANGED <<next, prev, key, session_pool, idle, count, lock, at, p, flow, n, doomed, start, seen>>
  BY DEF StartPass, lists, cleaning
<1>3. TypeOK'
  BY <1>1, <1>2 DEF IInv, TypeOK, ManagerPcs, CleanerPcs
<1>4. Linked' = Linked /\ \A c \in Buckets : Chain(c)' = Chain(c) /\ In(c)' = In(c)
  BY <1>2, SameLists
<1>5. Circles'
  <2>1. session_pool' \cap Linked = {}
    BY <1>2 DEF IInv, Circles
  <2> QED BY <1>2, <2>1, SameCircles
<1>6. \A t \in Threads : pc'[t] \in Inside <=> pc[t] \in Inside
  BY <1>1, Basics DEF Inside
<1>7. Locks'
  BY <1>2, <1>6, SameLocks
<1>8. Hands'
  BY <1>1, <1>2, <1>4, Basics DEF IInv, Hands
<1>9. Searching'
  BY <1>1, <1>2, <1>4, SameSearching
<1>10. Filed'
  BY <1>2, SameFiled
<1>11. Counted'
  BY <1>1, <1>2, SameCounted, Basics
<1>12. Walking'
  BY <1>1 DEF Walking, Walk, Inside
<1> QED BY <1>1, <1>3, <1>5, <1>7, <1>8, <1>9, <1>10, <1>11, <1>12 DEF IInv

(* Time passes. *)
LEMMA ExpireStep ==
    ASSUME IInv, NEW x \in Nodes, Expire(x)
    PROVE  IInv'
<1>1. /\ UNCHANGED <<next, prev, key, session_pool, count, lock, pc, at, p, flow, n, doomed, start, seen>>
      /\ idle' = idle \cup {x}
  BY DEF Expire, lists, cleaning
<1>2. TypeOK' /\ Pcs'
  BY <1>1 DEF IInv, TypeOK, Pcs
<1>3. Linked' = Linked /\ \A c \in Buckets : Chain(c)' = Chain(c) /\ In(c)' = In(c)
  BY <1>1, SameLists
<1>4. Circles'
  <2>1. session_pool' \cap Linked = {}
    BY <1>1 DEF IInv, Circles
  <2> QED BY <1>1, <2>1, SameCircles
<1>5. Locks'
  BY <1>1, SameLocks
<1>6. Hands'
  BY <1>1, <1>3 DEF IInv, Hands
<1>7. Searching'
  BY <1>1, <1>3, SameSearching
<1>8. Filed'
  BY <1>1, SameFiled
<1>9. Counted'
  BY <1>1, SameCounted
<1>10. Walking'
  BY <1>1, <1>3, SameWalking DEF cleaning
<1> QED BY <1>2, <1>4, <1>5, <1>6, <1>7, <1>8, <1>9, <1>10 DEF IInv
(* The cleaner locks a bucket and starts at its first node. *)
LEMMA CleanerLockStep ==
    ASSUME IInv, CleanerLock
    PROVE  IInv'
<1>0. PICK b \in Buckets : at[Cleaner] = b
  BY Basics DEF IInv, TypeOK
<1>1. /\ pc[Cleaner] = "lock" /\ pc'[Cleaner] = "visit" /\ pc'[Manager] = pc[Manager]
      /\ Pcs' /\ pc' \in [Threads -> ManagerPcs \cup CleanerPcs]
  <2>1. Step(Cleaner, "lock", "visit") /\ "visit" \in CleanerPcs
    BY DEF CleanerLock, CleanerPcs
  <2> QED BY <2>1, Moves, Basics
<1>2. /\ UNCHANGED <<next, prev, key, session_pool, idle, count, at, flow>>
      /\ lock[b] = NoThread /\ lock' = [lock EXCEPT ![b] = Cleaner] /\ p' = [p EXCEPT ![Cleaner] = next[b]]
      /\ n' = next[next[b]] /\ doomed' \subseteq idle /\ start' = Chain(b) /\ seen' = <<>>
  BY <1>0 DEF CleanerLock, lists
<1>3. TypeOK
  BY DEF IInv
<1>4. next[b] = Stop(Chain(b), b, 1) /\ next[b] \in In(b) \cup {b} /\ next[b] \in Cells /\ next[next[b]] \in Cells
  BY OnCircle, ChainStops
<1>5. /\ p' \in [Threads -> Cells] /\ p'[Cleaner] = next[b] /\ p'[Manager] = p[Manager]
      /\ lock' \in [Buckets -> Threads \cup {NoThread}]
      /\ \A c \in Buckets : lock'[c] = IF c = b THEN Cleaner ELSE lock[c]
  BY <1>2, <1>3, <1>4, Basics DEF TypeOK
<1>6. Chain(b) \in Seq(Nodes) /\ Len(Chain(b)) \in Nat /\ Distinct(Chain(b)) /\ DOMAIN Chain(b) = 1..Len(Chain(b))
  BY ChainFacts
<1>7. TypeOK'
  <2>1. start' \in Seq(Nodes) /\ seen' \in Seq(Nodes) /\ n' \in Cells /\ doomed' \subseteq Nodes
    BY <1>2, <1>3, <1>4, <1>6, EmptySeq DEF TypeOK
  <2> QED BY <1>1, <1>2, <1>3, <1>5, <2>1 DEF TypeOK, ManagerPcs, CleanerPcs
<1>8. Linked' = Linked /\ \A c \in Buckets : Chain(c)' = Chain(c) /\ In(c)' = In(c)
  BY <1>2, SameLists
<1>9. Circles'
  <2>1. session_pool' \cap Linked = {}
    BY <1>2 DEF IInv, Circles
  <2> QED BY <1>2, <2>1, SameCircles
<1>10. Locks'
  BY <1>0, <1>1, <1>2, <1>5, Basics DEF IInv, Locks, Inside
<1>11. Hands'
  BY <1>1, <1>2, <1>5, <1>8, Basics DEF IInv, Hands
<1>12. Searching'
  BY <1>1, <1>2, <1>5, <1>8, SameSearching
<1>13. Filed'
  BY <1>2, SameFiled
<1>14. Counted'
  BY <1>1, <1>2, SameCounted, Basics
<1>15. Walking'
  <2>1. 1 \in 1..(Len(Chain(b)) + 1) /\ 1 + 1 = 2
    BY <1>6
  <2>2. 1 # Len(Chain(b)) + 1 => n' = Stop(Chain(b), b, 1 + 1)
    BY <1>2, <1>4, <2>1, ChainStops
  <2>3. start' = seen' \o Rest(Chain(b), 1)
    BY <1>2, <1>6, <2>1, RestFacts, ConcatEmptySeq
  <2>4. Elements(seen') = {}
    BY <1>2 DEF Elements
  <2>5. Elements(Chain(b)) = Elements(start') \ (doomed' \cap Elements(seen'))
    BY <1>2, <2>4
  <2>6. WalkedTo(1, Chain(b), b)'
    BY <1>1, <1>4, <1>5, <1>8, <2>2, <2>3, <2>5 DEF WalkedTo
  <2>7. InOrder(Chain(b))'
    <3>1. \A i, j, k, l \in DOMAIN Chain(b) : Chain(b)[i] = Chain(b)[k] /\ Chain(b)[j] = Chain(b)[l] /\ i < j => k < l
      BY <1>6 DEF Distinct
    <3> QED BY <1>2, <1>8, <3>1 DEF InOrder
  <2>8. Walk(b)'
    BY <1>8, <2>1, <2>6, <2>7 DEF Walk
  <2> QED BY <1>0, <1>2, <2>8 DEF Walking
<1> QED BY <1>1, <1>7, <1>9, <1>10, <1>11, <1>12, <1>13, <1>14, <1>15 DEF IInv

(* Where the cleaner is when it visits a node. *)
LEMMA Visiting ==
    ASSUME IInv, NEW b \in Buckets, at[Cleaner] = b, pc[Cleaner] = "visit", p[Cleaner] # b
    PROVE  \E i \in 1..Len(Chain(b)) :
             /\ p[Cleaner] = Chain(b)[i] /\ p[Cleaner] \in In(b) /\ n = Stop(Chain(b), b, i + 1)
             /\ start = seen \o Rest(Chain(b), i)
             /\ Elements(Chain(b)) = Elements(start) \ (doomed \cap Elements(seen)) /\ InOrder(Chain(b))
<1>1. Walk(b) /\ pc[Cleaner] \in Inside
  BY DEF IInv, Walking, Inside
<1>2. PICK i \in 1..(Len(Chain(b)) + 1) : WalkedTo(i, Chain(b), b)
  BY <1>1 DEF Walk
<1>3. p[Cleaner] = Stop(Chain(b), b, i)
  BY <1>2 DEF WalkedTo
<1>4. i \in 1..Len(Chain(b)) /\ i # Len(Chain(b)) + 1 /\ p[Cleaner] = Chain(b)[i] /\ p[Cleaner] \in In(b)
  BY <1>3, ChainStops
<1>5. /\ n = Stop(Chain(b), b, i + 1) /\ start = seen \o Rest(Chain(b), i)
      /\ Elements(Chain(b)) = Elements(start) \ (doomed \cap Elements(seen)) /\ InOrder(Chain(b))
  BY <1>1, <1>2, <1>4 DEF WalkedTo, Walk
<1> QED BY <1>4, <1>5

(* The node stays. *)
LEMMA KeepNodeStep ==
    ASSUME IInv, KeepNode
    PROVE  IInv'
<1>0. PICK b \in Buckets : at[Cleaner] = b
  BY Basics DEF IInv, TypeOK
<1>1. /\ pc[Cleaner] = "visit" /\ pc'[Cleaner] = "advance" /\ pc'[Manager] = pc[Manager]
      /\ Pcs' /\ pc' \in [Threads -> ManagerPcs \cup CleanerPcs]
  <2>1. Step(Cleaner, "visit", "advance") /\ "advance" \in CleanerPcs
    BY DEF KeepNode, CleanerPcs
  <2> QED BY <2>1, Moves, Basics
<1>2. PICK x : x = p[Cleaner]
  OBVIOUS
<1>3. /\ UNCHANGED <<next, prev, key, session_pool, idle, count, lock, at, p, n, flow, doomed, start>>
      /\ x # b /\ x \notin doomed /\ seen' = Append(seen, x)
  BY <1>0, <1>2 DEF KeepNode, lists
<1>4. PICK i \in 1..Len(Chain(b)) :
             /\ x = Chain(b)[i] /\ x \in In(b) /\ n = Stop(Chain(b), b, i + 1)
             /\ start = seen \o Rest(Chain(b), i)
             /\ Elements(Chain(b)) = Elements(start) \ (doomed \cap Elements(seen)) /\ InOrder(Chain(b))
  BY <1>0, <1>1, <1>2, <1>3, Visiting
<1>5. Chain(b) \in Seq(Nodes) /\ Len(Chain(b)) \in Nat /\ x \in Nodes /\ seen \in Seq(Nodes)
  BY <1>4, ChainFacts DEF IInv, TypeOK
<1>6. seen' \in Seq(Nodes) /\ Elements(seen') = Elements(seen) \cup {x}
  BY <1>3, <1>5, Appended
<1>7. TypeOK'
  BY <1>1, <1>3, <1>6 DEF IInv, TypeOK, ManagerPcs, CleanerPcs
<1>8. Linked' = Linked /\ \A c \in Buckets : Chain(c)' = Chain(c) /\ In(c)' = In(c)
  BY <1>3, SameLists
<1>9. Circles'
  <2>1. session_pool' \cap Linked = {}
    BY <1>3 DEF IInv, Circles
  <2> QED BY <1>3, <2>1, SameCircles
<1>10. \A t \in Threads : pc'[t] \in Inside <=> pc[t] \in Inside
  BY <1>1, Basics DEF Inside
<1>11. Locks'
  BY <1>3, <1>10, SameLocks
<1>12. Hands'
  BY <1>1, <1>3, <1>8, Basics DEF IInv, Hands
<1>13. Searching'
  BY <1>1, <1>3, <1>8, SameSearching
<1>14. Filed'
  BY <1>3, SameFiled
<1>15. Counted'
  BY <1>1, <1>3, SameCounted, Basics
<1>16. Walking'
  <2>1. i + 1 \in 1..(Len(Chain(b)) + 1)
    BY <1>5
  <2>2. start' = seen' \o Rest(Chain(b), i + 1)
    BY SMTT(30), <1>3, <1>4, <1>5, NextRest
  <2>3. Elements(Chain(b)) = Elements(start') \ (doomed' \cap Elements(seen'))
    BY <1>3, <1>4, <1>6
  <2>4. WalkedTo(i + 1, Chain(b), b)'
    BY <1>1, <1>3, <1>4, <1>8, <2>2, <2>3 DEF WalkedTo
  <2>5. InOrder(Chain(b))'
    BY <1>3, <1>4, <1>8 DEF InOrder
  <2>6. Walk(b)'
    BY <1>8, <2>1, <2>4, <2>5 DEF Walk
  <2> QED BY <1>0, <1>3, <2>6 DEF Walking
<1> QED BY <1>1, <1>7, <1>9, <1>11, <1>12, <1>13, <1>14, <1>15, <1>16 DEF IInv
(* The node is idle, and is unlinked. *)
LEMMA DeleteNodeStep ==
    ASSUME IInv, DeleteNode
    PROVE  IInv'
<1>0. PICK b \in Buckets : at[Cleaner] = b
  BY Basics DEF IInv, TypeOK
<1>1. PICK x : x = p[Cleaner]
  OBVIOUS
<1>2. /\ UNCHANGED <<key, session_pool, idle, count, lock, at, p, n, flow, doomed, start>>
      /\ x \in doomed /\ seen' = Append(seen, x) /\ list_del(x) /\ Step(Cleaner, "visit", "give")
  BY <1>1 DEF DeleteNode
<1>3. pc[Cleaner] = "visit" /\ x # b
  <2>1. pc[Cleaner] = "visit"
    BY <1>2 DEF Step
  <2>2. doomed \subseteq Nodes
    BY DEF IInv, TypeOK
  <2> QED BY <1>2, <2>1, <2>2, Basics
<1>4. PICK i \in 1..Len(Chain(b)) :
             /\ x = Chain(b)[i] /\ x \in In(b) /\ n = Stop(Chain(b), b, i + 1)
             /\ start = seen \o Rest(Chain(b), i)
             /\ Elements(Chain(b)) = Elements(start) \ (doomed \cap Elements(seen)) /\ InOrder(Chain(b))
  BY <1>0, <1>1, <1>3, Visiting
<1>5. /\ Chain(b) \in Seq(Nodes) /\ Len(Chain(b)) \in Nat /\ Distinct(Chain(b)) /\ DOMAIN Chain(b) = 1..Len(Chain(b))
      /\ x \in Nodes /\ seen \in Seq(Nodes)
  BY <1>4, ChainFacts DEF IInv, TypeOK
<1>6. seen' \in Seq(Nodes) /\ Elements(seen') = Elements(seen) \cup {x}
  BY <1>2, <1>5, Appended
<1>7. /\ Pcs' /\ Circles' /\ Locks' /\ Hands' /\ Filed' /\ Counted'
      /\ pc'[Cleaner] = "give" /\ pc'[Manager] = pc[Manager]
      /\ pc' \in [Threads -> ManagerPcs \cup CleanerPcs]
      /\ next' \in [Cells -> Cells \cup {NULL}] /\ prev' \in [Cells -> Cells \cup {NULL}]
      /\ Chain(b)' = Without(Chain(b), i)
      /\ \A c \in Buckets : c # b => Chain(c)' = Chain(c) /\ In(c)' = In(c)
      /\ ~(at[Manager] = b /\ pc[Manager] \in Inside)
  <2>1. /\ UNCHANGED <<key, session_pool, idle, count, lock, at, p, flow>> /\ pc[Cleaner] \in {"found", "visit"}
        /\ Step(Cleaner, pc[Cleaner], "give") /\ list_del(p[Cleaner]) /\ p[Cleaner] = Chain(b)[i]
    BY <1>1, <1>2, <1>3, <1>4
  <2>2. Manager \in Threads /\ Cleaner \in Threads /\ Cleaner # Manager
    BY Basics
  <2>3. /\ Pcs' /\ Circles' /\ Locks' /\ Hands' /\ Filed' /\ Counted'
        /\ pc'[Cleaner] = "give" /\ \A u \in Threads : u # Cleaner => pc'[u] = pc[u]
        /\ pc' \in [Threads -> ManagerPcs \cup CleanerPcs]
        /\ next' \in [Cells -> Cells \cup {NULL}] /\ prev' \in [Cells -> Cells \cup {NULL}]
        /\ Chain(b)' = Without(Chain(b), i)
        /\ \A c \in Buckets : c # b => Chain(c)' = Chain(c) /\ In(c)' = In(c)
        /\ \A u \in Threads : u # Cleaner => ~(at[u] = b /\ pc[u] \in Inside)
    BY ONLY IInv, b \in Buckets, i \in 1..Len(Chain(b)), <1>0, <2>1, <2>2, UnlinkStep
  <2> QED BY <2>2, <2>3
<1>8. TypeOK'
  BY <1>2, <1>6, <1>7 DEF IInv, TypeOK, ManagerPcs, CleanerPcs
<1>9. Searching'
  BY <1>2, <1>7, SameSearching
<1>10. Walking'
  <2> DEFINE s == Chain(b)
             t == Without(s, i)
  <2>1. s \in Seq(Nodes) /\ Len(s) \in Nat /\ Distinct(s) /\ DOMAIN s = 1..Len(s) /\ i \in 1..Len(s) /\ x = s[i]
    BY <1>4, <1>5
  <2> HIDE DEF s
  <2>2. /\ t \in Seq(Nodes) /\ Len(t) = Len(s) - 1 /\ Elements(t) = Elements(s) \ {x}
        /\ \A j \in 1..(Len(s) - 1) : t[j] = IF j < i THEN s[j] ELSE s[j + 1]
    BY ZenonT(40), <2>1, Shorter
  <2>3. /\ Rest(t, i) = Rest(s, i + 1) /\ Stop(t, b, i) = Stop(s, b, i + 1) /\ i \in 1..(Len(t) + 1)
    BY <2>1, RestWithout
  <2> HIDE DEF t
  <2>4. Chain(b)' = t /\ start = seen \o Rest(s, i) /\ n = Stop(s, b, i + 1) /\ InOrder(s)
        /\ Elements(s) = Elements(start) \ (doomed \cap Elements(seen))
    BY <1>4, <1>7 DEF s, t
  <2>5. start' = seen' \o Rest(t, i)
    <3>1. seen \o Rest(s, i) = Append(seen, s[i]) \o Rest(s, i + 1)
      BY <1>5, <2>1, NextRest
    <3>2. start' = start /\ seen' = Append(seen, s[i])
      BY <1>2, <2>1
    <3> QED BY <2>3, <2>4, <3>1, <3>2
  <2>6. Elements(t) = Elements(start') \ (doomed' \cap Elements(seen'))
    BY <1>2, <1>6, <2>2, <2>4
  <2>7. WalkedTo(i, Chain(b), b)'
    BY <1>2, <1>7, <2>3, <2>4, <2>5, <2>6 DEF WalkedTo
  <2>8. ASSUME NEW j \in DOMAIN t, NEW l \in DOMAIN t, NEW u \in DOMAIN start, NEW v \in DOMAIN start,
               t[j] = start[u], t[l] = start[v], j < l
        PROVE  u < v
    <3>1. j \in 1..(Len(s) - 1) /\ l \in 1..(Len(s) - 1)
      BY <2>2, SeqFacts
    <3>2. PICK jj : jj = IF j < i THEN j ELSE j + 1
      OBVIOUS
    <3>3. PICK ll : ll = IF l < i THEN l ELSE l + 1
      OBVIOUS
    <3>4. jj \in 1..Len(s) /\ ll \in 1..Len(s) /\ jj < ll
      BY <2>1, <2>8, <3>1, <3>2, <3>3
    <3>5. t[j] = s[jj] /\ t[l] = s[ll]
      BY <2>2, <3>1, <3>2, <3>3
    <3> QED BY <2>1, <2>4, <2>8, <3>4, <3>5 DEF InOrder
  <2>9. InOrder(Chain(b))'
    BY <1>2, <2>4, <2>8 DEF InOrder
  <2>10. Walk(b)'
    BY <2>3, <2>4, <2>7, <2>9 DEF Walk
  <2> QED BY <1>0, <1>2, <2>10 DEF Walking
<1> QED BY <1>7, <1>8, <1>9, <1>10 DEF IInv

(* The cursors move on. *)
LEMMA AdvanceStep ==
    ASSUME IInv, Advance
    PROVE  IInv'
<1>0. PICK b \in Buckets : at[Cleaner] = b
  BY Basics DEF IInv, TypeOK
<1>1. /\ pc[Cleaner] = "advance" /\ pc'[Cleaner] = "visit" /\ pc'[Manager] = pc[Manager]
      /\ Pcs' /\ pc' \in [Threads -> ManagerPcs \cup CleanerPcs]
  <2>1. Step(Cleaner, "advance", "visit") /\ "visit" \in CleanerPcs
    BY DEF Advance, CleanerPcs
  <2> QED BY <2>1, Moves, Basics
<1>2. /\ UNCHANGED <<next, prev, key, session_pool, idle, count, lock, at, flow, doomed, start, seen>>
      /\ p' = [p EXCEPT ![Cleaner] = n] /\ n' = next[n]
  BY DEF Advance, lists
<1>3. Walk(b) /\ pc[Cleaner] \in Inside
  BY <1>0, <1>1 DEF IInv, Walking, Inside
<1>4. PICK i \in 1..(Len(Chain(b)) + 1) : WalkedTo(i, Chain(b), b)
  BY <1>3 DEF Walk
<1>5. /\ n = Stop(Chain(b), b, i) /\ start = seen \o Rest(Chain(b), i) /\ InOrder(Chain(b))
      /\ Elements(Chain(b)) = Elements(start) \ (doomed \cap Elements(seen))
  BY <1>1, <1>3, <1>4 DEF WalkedTo, Walk
<1>6. n \in In(b) \cup {b} /\ (i # Len(Chain(b)) + 1 => next[n] = Stop(Chain(b), b, i + 1))
  BY <1>5, ChainStops
<1>7. n \in Cells /\ next[n] \in Cells
  BY <1>6, OnCircle DEF IInv, TypeOK
<1>8. p' \in [Threads -> Cells] /\ p'[Cleaner] = n /\ p'[Manager] = p[Manager]
  BY <1>2, <1>7, Basics DEF IInv, TypeOK
<1>9. TypeOK'
  BY <1>1, <1>2, <1>7, <1>8 DEF IInv, TypeOK, ManagerPcs, CleanerPcs
<1>10. Linked' = Linked /\ \A c \in Buckets : Chain(c)' = Chain(c) /\ In(c)' = In(c)
  BY <1>2, SameLists
<1>11. Circles'
  <2>1. session_pool' \cap Linked = {}
    BY <1>2 DEF IInv, Circles
  <2> QED BY <1>2, <2>1, SameCircles
<1>12. \A t \in Threads : pc'[t] \in Inside <=> pc[t] \in Inside
  BY <1>1, Basics DEF Inside
<1>13. Locks'
  BY <1>2, <1>12, SameLocks
<1>14. Hands'
  BY <1>1, <1>2, <1>8, <1>10, Basics DEF IInv, Hands
<1>15. Searching'
  BY <1>1, <1>2, <1>8, <1>10, SameSearching
<1>16. Filed'
  BY <1>2, SameFiled
<1>17. Counted'
  BY <1>1, <1>2, SameCounted, Basics
<1>18. Walking'
  <2>1. WalkedTo(i, Chain(b), b)'
    BY <1>1, <1>2, <1>5, <1>6, <1>8, <1>10 DEF WalkedTo
  <2>2. InOrder(Chain(b))'
    BY <1>2, <1>5, <1>10 DEF InOrder
  <2>3. Walk(b)'
    BY <1>10, <2>1, <2>2 DEF Walk
  <2> QED BY <1>0, <1>2, <2>3 DEF Walking
<1> QED BY <1>1, <1>9, <1>11, <1>13, <1>14, <1>15, <1>16, <1>17, <1>18 DEF IInv

(* The cleaner leaves a bucket for the next one, or ends its pass. *)
LEMMA CleanerUnlockStep ==
    ASSUME IInv, CleanerUnlock
    PROVE  IInv'
<1>0. PICK b \in Buckets : at[Cleaner] = b
  BY Basics DEF IInv, TypeOK
<1>1. PICK to : to = IF b = NumBuckets THEN "wait" ELSE "lock"
  OBVIOUS
<1>2. PICK c : c = IF b = NumBuckets THEN 1 ELSE b + 1
  OBVIOUS
<1>3. /\ pc[Cleaner] = "visit" /\ pc'[Cleaner] = to /\ pc'[Manager] = pc[Manager]
      /\ Pcs' /\ pc' \in [Threads -> ManagerPcs \cup CleanerPcs] /\ to \in {"wait", "lock"}
  <2>1. Step(Cleaner, "visit", to) /\ to \in CleanerPcs /\ to \in {"wait", "lock"}
    BY <1>0, <1>1 DEF CleanerUnlock, CleanerPcs
  <2> QED BY <2>1, Moves, Basics
<1>4. /\ UNCHANGED <<next, prev, key, session_pool, idle, count, flow>>
      /\ lock' = [lock EXCEPT ![b] = NoThread] /\ at' = [at EXCEPT ![Cleaner] = c]
      /\ p' = [p EXCEPT ![Cleaner] = 1] /\ n' = 1
      /\ doomed' = {} /\ start' = <<>> /\ seen' = <<>>
  BY <1>0, <1>2 DEF CleanerUnlock, lists
<1>5. TypeOK /\ 1 \in Buckets /\ 1 \in Cells /\ c \in Buckets
  BY <1>2, BucketAssumption DEF IInv, Buckets, Cells
<1>6. /\ p' \in [Threads -> Cells] /\ p'[Manager] = p[Manager]
      /\ at' \in [Threads -> Buckets] /\ at'[Manager] = at[Manager]
      /\ lock' \in [Buckets -> Threads \cup {NoThread}]
      /\ \A d \in Buckets : lock'[d] = IF d = b THEN NoThread ELSE lock[d]
  BY <1>4, <1>5, Basics DEF TypeOK
<1>7. TypeOK'
  <2>1. start' \in Seq(Nodes) /\ seen' \in Seq(Nodes) /\ n' \in Cells /\ doomed' \subseteq Nodes
    BY <1>4, <1>5, EmptySeq
  <2> QED BY <1>3, <1>4, <1>5, <1>6, <2>1 DEF TypeOK, ManagerPcs, CleanerPcs
<1>8. Linked' = Linked /\ \A d \in Buckets : Chain(d)' = Chain(d) /\ In(d)' = In(d)
  BY <1>4, SameLists
<1>9. Circles'
  <2>1. session_pool' \cap Linked = {}
    BY <1>4 DEF IInv, Circles
  <2> QED BY <1>4, <2>1, SameCircles
<1>10. pc[Cleaner] \in Inside /\ pc'[Cleaner] \notin Inside
  BY <1>3 DEF Inside
<1>11. Locks'
  <2>1. ~(at[Manager] = b /\ pc[Manager] \in Inside)
    BY <1>0, <1>10, Alone, Basics
  <2> QED BY <1>0, <1>3, <1>6, <1>10, <2>1, Basics DEF IInv, Locks
<1>12. Hands'
  BY <1>3, <1>4, <1>6, <1>8, Basics DEF IInv, Hands
<1>13. Searching'
  BY <1>3, <1>4, <1>6, <1>8, SameSearching
<1>14. Filed'
  BY <1>4, SameFiled
<1>15. Counted'
  BY <1>3, <1>4, <1>6, SameCounted, Basics
<1>16. Walking'
  BY <1>10 DEF Walking, Walk
<1> QED BY <1>3, <1>7, <1>9, <1>11, <1>12, <1>13, <1>14, <1>15, <1>16 DEF IInv
(* Nothing happens. *)
LEMMA StutterStep ==
    ASSUME IInv, UNCHANGED vars
    PROVE  IInv'
<1>1. UNCHANGED <<next, prev, key, idle, session_pool, count, lock, pc, at, p, flow, n, doomed, start, seen>>
  BY DEF vars
<1>2. TypeOK' /\ Pcs'
  BY <1>1 DEF IInv, TypeOK, Pcs
<1>3. Linked' = Linked /\ \A c \in Buckets : Chain(c)' = Chain(c) /\ In(c)' = In(c)
  BY <1>1, SameLists
<1>4. Circles'
  <2>1. session_pool' \cap Linked = {}
    BY <1>1 DEF IInv, Circles
  <2> QED BY <1>1, <2>1, SameCircles
<1>5. Locks'
  BY <1>1, SameLocks
<1>6. Hands'
  BY <1>1, <1>3 DEF IInv, Hands
<1>7. Searching'
  BY <1>1, <1>3, SameSearching
<1>8. Filed'
  BY <1>1, SameFiled
<1>9. Counted'
  BY <1>1, SameCounted
<1>10. Walking'
  BY <1>1, <1>3, SameWalking DEF cleaning
<1> QED BY <1>2, <1>4, <1>5, <1>6, <1>7, <1>8, <1>9, <1>10 DEF IInv

-----------------------------------------------------------------------------
(* The theorems. *)

(* An empty circle. *)
LEMMA EmptyChains ==
    ASSUME Init, NEW b \in Buckets
    PROVE  Chain(b) = <<>> /\ In(b) = {} /\ Circle(next, prev, <<>>, b)
<1>1. next[b] = b /\ prev[b] = b
  BY Basics DEF Init
<1>2. <<>> \in Seq(Nodes) /\ Len(<<>>) = 0 /\ DOMAIN <<>> = {}
  BY EmptySeq
<1>3. \A i : Stop(<<>>, b, i) = b
  <2>1. 1..0 = {}
    OBVIOUS
  <2> QED BY <1>2, <2>1 DEF Stop
<1>4. Circle(next, prev, <<>>, b)
  BY <1>1, <1>2, <1>3 DEF Circle, Distinct
<1>5. b \notin Nodes
  BY Basics
<1>6. Chain(b) = <<>>
  BY <1>4, <1>5, CircleChain DEF Chain, From
<1> QED BY <1>2, <1>4, <1>6 DEF In

(* Everything is free at the beginning. *)
LEMMA InitHolds == Init => IInv
<1> SUFFICES ASSUME Init PROVE IInv
  OBVIOUS
<1>1. \A b \in Buckets : Chain(b) = <<>> /\ In(b) = {} /\ Circle(next, prev, <<>>, b)
  BY EmptyChains
<1>2. Linked = {}
  BY <1>1 DEF Linked
<1>3. \A t \in Threads : pc[t] = "wait"
  BY DEF Init
<1>4. 1 \in Buckets /\ 1 \in Cells
  BY BucketAssumption DEF Buckets, Cells
<1>5. TypeOK
  <2>1. <<>> \in Seq(Nodes) /\ 0 \in 0..Cardinality(Nodes)
    BY EmptySeq, Basics DEF Size
  <2> QED BY <1>4, <2>1, Basics DEF Init, TypeOK
<1>6. Pcs
  BY <1>3, Basics DEF Pcs, ManagerPcs, CleanerPcs
<1>7. Circles
  BY <1>1, <1>2 DEF Circles
<1>8. Locks
  BY <1>3, Basics DEF Init, Locks, Inside
<1>9. Hands
  BY <1>3, Basics DEF Hands
<1>10. Searching
  BY <1>3, Basics DEF Searching, Search
<1>11. Filed
  BY <1>1 DEF Filed
<1>12. Counted
  <2>1. \A b \in Buckets : ~Behind(b) /\ ~Ahead(b)
    BY <1>3, Basics DEF Behind, Ahead
  <2>2. \A b \in Buckets : count[b] = Len(Chain(b))
    BY <1>1, EmptySeq DEF Init
  <2> QED BY <2>1, <2>2 DEF Counted
<1>13. Walking
  BY <1>3, Basics DEF Walking, Walk, Inside
<1> QED BY <1>5, <1>6, <1>7, <1>8, <1>9, <1>10, <1>11, <1>12, <1>13 DEF IInv

(* Every step preserves the invariant. *)
LEMMA NextHolds ==
    ASSUME IInv, [Next]_vars
    PROVE  IInv'
<1>1. CASE \E k \in Keys : TakeFlow(k)
  BY <1>1, TakeFlowStep
<1>2. CASE LockBucket
  BY <1>2, LockBucketStep
<1>3. CASE ManagerStep
  BY <1>3, FindStepStep, TakeNodeStep, LinkNodeStep, RaiseCountStep, AppendPayloadStep, CloseSessionStep, GiveBackStep,
     DropCountStep, UnlockBucketStep, Basics DEF ManagerStep
<1>4. CASE CleanerLock
  BY <1>4, CleanerLockStep
<1>5. CASE CleanerStep
  BY <1>5, StartPassStep, DeleteNodeStep, KeepNodeStep, GiveBackStep, DropCountStep, AdvanceStep, CleanerUnlockStep,
     Basics DEF CleanerStep
<1>6. CASE \E x \in Nodes : Expire(x)
  BY <1>6, ExpireStep
<1>7. CASE UNCHANGED vars
  BY <1>7, StutterStep
<1> QED BY <1>1, <1>2, <1>3, <1>4, <1>5, <1>6, <1>7 DEF Next

(* The invariant holds in every state. *)
LEMMA Invariance == Spec => []IInv
<1>1. Init => IInv
  BY InitHolds
<1>2. IInv /\ [Next]_vars => IInv'
  BY NextHolds
<1> QED BY <1>1, <1>2, PTL DEF Spec
(* list.h with its two users: whatever the manager and the cleaner do, the *)
(* pointers form one circle per bucket, next and prev undo each other, no  *)
(* node is on two circles and none in the pool is on one.                  *)
THEOREM CirclesAlwaysIntact == Spec => []CirclesIntact
<1>1. ASSUME IInv PROVE CirclesIntact
  <2>1. ASSUME NEW b \in Buckets, NEW x \in In(b) \cup {b}
        PROVE  next[x] # NULL /\ prev[next[x]] = x /\ prev[x] # NULL /\ next[prev[x]] = x
    <3>1. /\ next[x] \in Cells /\ prev[x] \in Cells
          /\ prev[next[x]] = x /\ next[prev[x]] = x
      BY <1>1, OnCircle
    <3> QED BY <3>1, Basics
  <2> QED BY <1>1, <2>1 DEF IInv, Circles, CirclesIntact
<1>2. IInv => CirclesIntact
  BY <1>1
<1> QED BY <1>2, Invariance, PTL

(* hash_count may read a bucket's count at any time: it is that of the     *)
(* list when nobody holds the lock, and one off at most when somebody      *)
(* does.                                                                   *)
THEOREM CountAlwaysWithinOne == Spec => []CountWithinOne
<1>1. ASSUME IInv PROVE CountWithinOne
  <2> SUFFICES ASSUME NEW b \in Buckets
               PROVE  /\ count[b] - Cardinality(In(b)) \in -1..1
                      /\ lock[b] = NoThread => count[b] - Cardinality(In(b)) = 0
    BY DEF CountWithinOne
  <2>1. Cardinality(In(b)) = Len(Chain(b)) /\ Len(Chain(b)) \in Nat
    BY <1>1, ChainFacts
  <2>2. count[b] = IF Behind(b) THEN Len(Chain(b)) - 1 ELSE IF Ahead(b) THEN Len(Chain(b)) + 1 ELSE Len(Chain(b))
    BY <1>1 DEF IInv, Counted
  <2>3. lock[b] = NoThread => ~Behind(b) /\ ~Ahead(b)
    BY <1>1, Basics DEF IInv, Locks, Behind, Ahead, Inside
  <2>4. count[b] = Len(Chain(b)) - 1 \/ count[b] = Len(Chain(b)) + 1 \/ count[b] = Len(Chain(b))
    BY <2>2
  <2>5. count[b] - Len(Chain(b)) \in -1..1
    BY <2>1, <2>4
  <2>6. lock[b] = NoThread => count[b] - Len(Chain(b)) = 0
    BY <2>1, <2>2, <2>3
  <2> QED BY <2>1, <2>5, <2>6
<1>2. IInv => CountWithinOne
  BY <1>1
<1> QED BY <1>2, Invariance, PTL

(* list_for_each_safe under the bucket's lock: delete_session visits the   *)
(* nodes the bucket had when it was locked, each once and in order, and    *)
(* leaves the ones that were not idle, in order, although the nodes it has *)
(* freed may already be on another circle.                                 *)
THEOREM WalkAlwaysExact == Spec => []WalkExact
<1>1. ASSUME IInv PROVE WalkExact
  <2>1. PICK b \in Buckets : at[Cleaner] = b
    BY <1>1, Basics DEF IInv, TypeOK
  <2>2. /\ Circle(next, prev, Chain(b), b) /\ b \notin Nodes /\ Chain(b) \in Seq(Nodes)
        /\ seen \in Seq(Nodes) /\ Len(Chain(b)) \in Nat
    BY <1>1, ChainFacts DEF IInv, TypeOK
  <2>3. ASSUME pc[Cleaner] \in {"visit", "advance", "give", "count"}
        PROVE  \E i \in 1..(Len(Chain(b)) + 1) : WalkedTo(i, Chain(b), b) /\ InOrder(Chain(b))
    BY <1>1, <2>1, <2>3 DEF IInv, Walking, Walk, Inside
  <2>4. ASSUME pc[Cleaner] \in {"visit", "advance", "give", "count"}
        PROVE  seen \o From(IF pc[Cleaner] = "visit" THEN p[Cleaner] ELSE n, b) = start
    <3>1. PICK i \in 1..(Len(Chain(b)) + 1) : WalkedTo(i, Chain(b), b)
      BY <2>3, <2>4
    <3>2. (IF pc[Cleaner] = "visit" THEN p[Cleaner] ELSE n) = Stop(Chain(b), b, i) /\ start = seen \o Rest(Chain(b), i)
      BY <3>1 DEF WalkedTo
    <3>3. Route(next, Stop(Chain(b), b, i), b) = Rest(Chain(b), i)
      BY <2>2, CircleRoute
    <3> QED BY <3>2, <3>3 DEF From
  <2>5. ASSUME pc[Cleaner] = "visit", p[Cleaner] = b
        PROVE  Elements(Chain(b)) = Elements(start) \ doomed /\ InOrder(Chain(b))
    <3>1. PICK i \in 1..(Len(Chain(b)) + 1) : WalkedTo(i, Chain(b), b) /\ InOrder(Chain(b))
      BY <2>3, <2>5
    <3>2. /\ Stop(Chain(b), b, i) = b /\ start = seen \o Rest(Chain(b), i)
          /\ Elements(Chain(b)) = Elements(start) \ (doomed \cap Elements(seen))
      BY <2>5, <3>1 DEF WalkedTo
    <3>3. i = Len(Chain(b)) + 1
      BY <1>1, <3>2, ChainStops
    <3>4. Rest(Chain(b), i) = <<>>
      BY <2>2, <3>3, RestFacts
    <3>5. start = seen
      BY <2>2, <3>2, <3>4, ConcatEmptySeq
    <3> QED BY <3>1, <3>2, <3>5
  <2>6. (pc[Cleaner] = "visit" /\ p[Cleaner] = b) =>
         /\ {Chain(b)[i] : i \in DOMAIN Chain(b)} = {start[i] : i \in DOMAIN start} \ doomed
         /\ \A i, j \in DOMAIN Chain(b) : \A k, l \in DOMAIN start :
              Chain(b)[i] = start[k] /\ Chain(b)[j] = start[l] /\ i < j => k < l
    BY <2>5 DEF Elements, InOrder
  <2> QED BY <2>1, <2>4, <2>6 DEF WalkExact
<1>2. IInv => WalkExact
  BY <1>1
<1> QED BY <1>2, Invariance, PTL
-----------------------------------------------------------------------------
(* The refinement. *)

(* Nodes with their keys, one by one. *)
LEMMA TaggedFacts ==
    ASSUME NEW s \in Seq(Nodes), NEW ky \in [Nodes -> Keys \cup {NoKey}]
    PROVE  /\ Tagged(s, ky) \in Seq(Nodes \X (Keys \cup {NoKey})) /\ Len(Tagged(s, ky)) = Len(s)
           /\ DOMAIN Tagged(s, ky) = 1..Len(s) /\ \A i \in 1..Len(s) : Tagged(s, ky)[i] = <<s[i], ky[s[i]]>>
<1>1. Len(s) \in Nat /\ DOMAIN s = 1..Len(s) /\ \A i \in 1..Len(s) : s[i] \in Nodes
  BY SeqFacts
<1>2. \A i \in 1..Len(s) : ky[s[i]] \in Keys \cup {NoKey}
  BY <1>1
<1>3. /\ Tagged(s, ky) \in [1..Len(s) -> Nodes \X (Keys \cup {NoKey})]
      /\ DOMAIN Tagged(s, ky) = 1..Len(s) /\ \A i \in 1..Len(s) : Tagged(s, ky)[i] = <<s[i], ky[s[i]]>>
  BY <1>1, <1>2 DEF Tagged
<1> QED BY <1>1, <1>3, IsSeq

(* The same nodes with the same keys. *)
LEMMA TaggedSame ==
    ASSUME NEW s \in Seq(Nodes), NEW ky, NEW kz, \A x \in Elements(s) : kz[x] = ky[x]
    PROVE  Tagged(s, kz) = Tagged(s, ky)
BY DEF Tagged, Elements

(* A node more. *)
LEMMA TaggedAppend ==
    ASSUME NEW s \in Seq(Nodes), NEW ky \in [Nodes -> Keys \cup {NoKey}], NEW x \in Nodes
    PROVE  Tagged(Append(s, x), ky) = Append(Tagged(s, ky), <<x, ky[x]>>)
<1> DEFINE a == Append(s, x)
           T == Nodes \X (Keys \cup {NoKey})
           u == Tagged(s, ky)
           v == Append(u, <<x, ky[x]>>)
<1>1. /\ a \in Seq(Nodes) /\ Len(a) = Len(s) + 1 /\ a[Len(s) + 1] = x /\ \A i \in 1..Len(s) : a[i] = s[i]
  BY Appended
<1>2. u \in Seq(T) /\ Len(u) = Len(s) /\ (\A i \in 1..Len(s) : u[i] = <<s[i], ky[s[i]]>>) /\ Len(s) \in Nat
  BY TaggedFacts, SeqFacts
<1>3. <<x, ky[x]>> \in T
  OBVIOUS
<1> HIDE DEF a, u, T
<1>4. /\ Tagged(a, ky) \in Seq(T) /\ Len(Tagged(a, ky)) = Len(a)
      /\ \A i \in 1..Len(a) : Tagged(a, ky)[i] = <<a[i], ky[a[i]]>>
  BY <1>1, TaggedFacts DEF T
<1>5. /\ v \in Seq(T) /\ Len(v) = Len(u) + 1 /\ v[Len(u) + 1] = <<x, ky[x]>> /\ \A i \in 1..Len(u) : v[i] = u[i]
  BY <1>2, <1>3, Appended
<1> HIDE DEF v
<1>6. ASSUME NEW i \in 1..Len(a) PROVE Tagged(a, ky)[i] = v[i]
  <2>1. i \in 1..Len(s) \/ i = Len(s) + 1
    BY <1>1, <1>2
  <2> QED BY ZenonT(40), <1>1, <1>2, <1>4, <1>5, <2>1
<1>7. Tagged(a, ky) = v
  BY <1>1, <1>2, <1>4, <1>5, <1>6, SameSeq
<1> QED BY <1>7 DEF a, v, u

(* A node less. *)
LEMMA TaggedWithout ==
    ASSUME NEW s \in Seq(Nodes), Distinct(s), NEW ky \in [Nodes -> Keys \cup {NoKey}], NEW k \in 1..Len(s)
    PROVE  Tagged(Without(s, k), ky) = Ordered!Without(Tagged(s, ky), k)
<1> DEFINE a == Without(s, k)
           T == Nodes \X (Keys \cup {NoKey})
           u == Tagged(s, ky)
           v == Ordered!Without(u, k)
<1>1. /\ a \in Seq(Nodes) /\ Len(a) = Len(s) - 1
      /\ \A i \in 1..(Len(s) - 1) : a[i] = IF i < k THEN s[i] ELSE s[i + 1]
  BY Shorter
<1>2. u \in Seq(T) /\ Len(u) = Len(s) /\ (\A i \in 1..Len(s) : u[i] = <<s[i], ky[s[i]]>> /\ u[i] \in T) /\ Len(s) \in Nat
  BY TaggedFacts, SeqFacts
<1>3. Len(s) - 1 \in Nat /\ k \in Int /\ \A i \in 1..(Len(s) - 1) : i \in Int /\ i \in 1..Len(s) /\ i + 1 \in 1..Len(s)
  BY <1>2
<1> HIDE DEF a, u, T
<1>4. /\ Tagged(a, ky) \in Seq(T) /\ Len(Tagged(a, ky)) = Len(a)
      /\ \A i \in 1..Len(a) : Tagged(a, ky)[i] = <<a[i], ky[a[i]]>>
  BY <1>1, TaggedFacts DEF T
<1>5. /\ v \in [1..(Len(s) - 1) -> T]
      /\ \A i \in 1..(Len(s) - 1) : v[i] = IF i < k THEN u[i] ELSE u[i + 1]
  BY <1>2, <1>3 DEF Ordered!Without
<1> HIDE DEF v
<1>6. v \in Seq(T) /\ Len(v) = Len(s) - 1
  BY ZenonT(40), <1>3, <1>5, IsSeq
<1>7. ASSUME NEW i \in 1..Len(a) PROVE Tagged(a, ky)[i] = v[i]
  <2>1. i \in 1..(Len(s) - 1) /\ i \in 1..Len(s) /\ i + 1 \in 1..Len(s)
    BY <1>1, <1>3
  <2>2. Tagged(a, ky)[i] = <<a[i], ky[a[i]]>>
    BY <1>4
  <2> QED BY <1>1, <1>2, <1>5, <2>1, <2>2
<1>8. Tagged(a, ky) = v
  BY <1>1, <1>4, <1>6, <1>7, SameSeq
<1> QED BY <1>8 DEF a, v, u

(* The linked nodes and their keys stay: the abstract buckets stutter. *)
LEMMA SameSessions ==
    ASSUME IInv, next' = next, \A b \in Buckets : \A x \in In(b) : key'[x] = key[x]
    PROVE  Sessions' = Sessions
<1>1. \A b \in Buckets : Chain(b)' = Chain(b)
  BY SameLists
<1>2. ASSUME NEW b \in Buckets PROVE Tagged(Chain(b)', key') = Tagged(Chain(b), key)
  <2>1. Chain(b) \in Seq(Nodes) /\ \A x \in Elements(Chain(b)) : key'[x] = key[x]
    BY ChainFacts
  <2>2. Tagged(Chain(b), key') = Tagged(Chain(b), key)
    BY <2>1, TaggedSame
  <2> QED BY <1>1, <2>2
<1> QED BY <1>2 DEF Sessions
(* list_add_tail of the new node inserts a session of a new key. *)
LEMMA LinkNodeMaps ==
    ASSUME IInv, LinkNode
    PROVE  Ordered!Next
<1>0. PICK b \in Buckets : at[Manager] = b
  BY Basics DEF IInv, TypeOK
<1>1. PICK x, f : x = p[Manager] /\ f = flow
  OBVIOUS
<1>2. pc[Manager] = "link" /\ list_add_tail(x, b) /\ key' = key
  BY <1>0, <1>1 DEF LinkNode, Step
<1>3. x \in Nodes /\ x \notin Linked
  BY <1>1, <1>2, Basics DEF IInv, Hands
<1>4. f \in Keys /\ b = BucketOf[f] /\ key[x] = f /\ \A y \in In(b) : key[y] # f
  BY <1>0, <1>1, <1>2 DEF IInv, Searching, Search
<1>5. key \in [Nodes -> Keys \cup {NoKey}]
  BY DEF IInv, TypeOK
<1>6. Chain(b)' = Append(Chain(b), x) /\ \A c \in Buckets : c # b => Chain(c)' = Chain(c)
  BY <1>2, <1>3, Linking
<1>7. ASSUME NEW c \in Buckets, NEW e \in Ordered!Entries(c) PROVE e[1] # x /\ e[2] # f
  <2>1. Chain(c) \in Seq(Nodes) /\ In(c) \subseteq Linked /\ \A i \in 1..Len(Chain(c)) : Chain(c)[i] \in In(c)
    BY ChainFacts, ChainStops
  <2>2. /\ Sessions[c] = Tagged(Chain(c), key) /\ DOMAIN Tagged(Chain(c), key) = 1..Len(Chain(c))
        /\ \A i \in 1..Len(Chain(c)) : Tagged(Chain(c), key)[i] = <<Chain(c)[i], key[Chain(c)[i]]>>
    BY <1>5, <2>1, TaggedFacts DEF Sessions
  <2>3. PICK i \in 1..Len(Chain(c)) : e = <<Chain(c)[i], key[Chain(c)[i]]>>
    BY <1>7, <2>2 DEF Ordered!Entries
  <2>4. Chain(c)[i] \in In(c)
    BY <2>1
  <2>5. Chain(c)[i] # x
    BY <1>3, <2>1, <2>4
  <2>6. key[Chain(c)[i]] # f
    BY <1>4, <2>4 DEF IInv, Filed
  <2> QED BY <2>3, <2>5, <2>6
<1>8. ASSUME NEW c \in Buckets
      PROVE  Tagged(Chain(c)', key') = IF c = b THEN Append(Tagged(Chain(b), key), <<x, f>>) ELSE Tagged(Chain(c), key)
  <2>1. Chain(b) \in Seq(Nodes)
    BY ChainFacts
  <2>2. Tagged(Append(Chain(b), x), key) = Append(Tagged(Chain(b), key), <<x, key[x]>>)
    BY <1>3, <1>5, <2>1, TaggedAppend
  <2> QED BY <1>2, <1>4, <1>6, <2>2
<1>9. Sessions' = [Sessions EXCEPT ![b] = Append(Sessions[b], <<x, f>>)]
  BY <1>8 DEF Sessions
<1>10. Ordered!Insert(x, f)
  BY <1>4, <1>7, <1>9 DEF Ordered!Insert
<1> QED BY <1>3, <1>4, <1>10 DEF Ordered!Next

(* list_del of a node removes its session. *)
LEMMA UnlinkMaps ==
    ASSUME IInv, NEW b \in Buckets, NEW k \in 1..Len(Chain(b)), NEW x, x = Chain(b)[k], list_del(x), key' = key
    PROVE  Ordered!Next
<1>1. key \in [Nodes -> Keys \cup {NoKey}]
  BY DEF IInv, TypeOK
<1>2. Chain(b)' = Without(Chain(b), k) /\ \A c \in Buckets : c # b => Chain(c)' = Chain(c)
  BY Unlinking
<1>3. Chain(b) \in Seq(Nodes) /\ Distinct(Chain(b))
  BY ChainFacts
<1>4. Tagged(Without(Chain(b), k), key) = Ordered!Without(Tagged(Chain(b), key), k)
  BY <1>1, <1>3, TaggedWithout
<1>5. ASSUME NEW c \in Buckets
      PROVE  Tagged(Chain(c)', key') = IF c = b THEN Ordered!Without(Tagged(Chain(b), key), k) ELSE Tagged(Chain(c), key)
  BY <1>2, <1>4
<1>6. Sessions' = [Sessions EXCEPT ![b] = Ordered!Without(Sessions[b], k)]
  BY <1>5 DEF Sessions
<1>7. k \in DOMAIN Sessions[b]
  <2>1. DOMAIN Tagged(Chain(b), key) = 1..Len(Chain(b))
    BY <1>1, <1>3, TaggedFacts
  <2> QED BY <2>1 DEF Sessions
<1>8. Ordered!Remove(b, k)
  BY <1>6 DEF Ordered!Remove
<1> QED BY <1>7, <1>8 DEF Ordered!Next

(* The manager's list_del. *)
LEMMA CloseSessionMaps ==
    ASSUME IInv, CloseSession
    PROVE  Ordered!Next
<1>0. PICK b \in Buckets : at[Manager] = b
  BY Basics DEF IInv, TypeOK
<1>1. PICK x : x = p[Manager]
  OBVIOUS
<1>2. pc[Manager] = "found" /\ list_del(x) /\ key' = key
  BY <1>1 DEF CloseSession, Step
<1>3. x \in In(b)
  BY <1>0, <1>1, <1>2 DEF IInv, Searching, Search
<1>4. PICK k \in 1..Len(Chain(b)) : x = Chain(b)[k]
  BY <1>3, ChainFacts, SeqFacts
<1> QED BY <1>2, <1>4, UnlinkMaps

(* The cleaner's list_del. *)
LEMMA DeleteNodeMaps ==
    ASSUME IInv, DeleteNode
    PROVE  Ordered!Next
<1>0. PICK b \in Buckets : at[Cleaner] = b
  BY Basics DEF IInv, TypeOK
<1>1. PICK x : x = p[Cleaner]
  OBVIOUS
<1>2. pc[Cleaner] = "visit" /\ list_del(x) /\ key' = key /\ x \in doomed
  BY <1>1 DEF DeleteNode, Step
<1>3. x # b
  BY <1>2, Basics DEF IInv, TypeOK
<1>4. PICK k \in 1..Len(Chain(b)) : x = Chain(b)[k]
  BY <1>0, <1>1, <1>2, <1>3, Visiting
<1> QED BY <1>2, <1>4, UnlinkMaps

(* What writes a key writes that of a node which is on no circle. *)
LEMMA KeysMap ==
    ASSUME IInv, NEW t \in Threads, TakeNode \/ GiveBack(t)
    PROVE  Sessions' = Sessions
<1>1. key \in [Nodes -> Keys \cup {NoKey}]
  BY DEF IInv, TypeOK
<1>2. PICK x, k : x \notin Linked /\ key' = [key EXCEPT ![x] = k] /\ next' = next
  <2>1. CASE TakeNode
    BY <2>1 DEF TakeNode, IInv, Circles
  <2>2. CASE GiveBack(t)
    <3>1. p[t] \notin Linked
      BY <2>2 DEF GiveBack, Step, IInv, Hands
    <3> QED BY <2>2, <3>1 DEF GiveBack
  <2> QED BY <2>1, <2>2
<1>3. ASSUME NEW b \in Buckets, NEW y \in In(b) PROVE key'[y] = key[y]
  <2>1. y \in Nodes /\ y # x
    BY <1>2, ChainFacts
  <2> QED BY <1>1, <1>2, <2>1
<1> QED BY <1>2, <1>3, SameSessions

(* Every step is one of the ordered buckets, or stutters. *)
LEMMA StepMaps ==
    ASSUME IInv, [Next]_vars
    PROVE  [Ordered!Next]_Sessions
<1>1. CASE LinkNode
  BY <1>1, LinkNodeMaps
<1>2. CASE CloseSession
  BY <1>2, CloseSessionMaps
<1>3. CASE DeleteNode
  BY <1>3, DeleteNodeMaps
<1>4. CASE TakeNode \/ \E t \in Threads : GiveBack(t)
  BY <1>4, KeysMap, Basics
<1>5. CASE UNCHANGED <<next, key>>
  BY <1>5, SameSessions
<1>6. LinkNode \/ CloseSession \/ DeleteNode \/ TakeNode \/ (\E t \in Threads : GiveBack(t)) \/ UNCHANGED <<next, key>>
  <2>1. ASSUME NEW k \in Keys, TakeFlow(k) PROVE UNCHANGED <<next, key>>
    BY <2>1 DEF TakeFlow, lists
  <2>2. ASSUME LockBucket \/ FindStep \/ RaiseCount \/ AppendPayload \/ UnlockBucket PROVE UNCHANGED <<next, key>>
    BY <2>2 DEF LockBucket, FindStep, RaiseCount, AppendPayload, UnlockBucket, lists
  <2>3. ASSUME NEW t \in Threads, DropCount(t) PROVE UNCHANGED <<next, key>>
    BY <2>3 DEF DropCount, lists
  <2>4. ASSUME CleanerLock \/ StartPass \/ KeepNode \/ Advance \/ CleanerUnlock PROVE UNCHANGED <<next, key>>
    BY <2>4 DEF CleanerLock, StartPass, KeepNode, Advance, CleanerUnlock, lists
  <2>5. ASSUME NEW x \in Nodes, Expire(x) PROVE UNCHANGED <<next, key>>
    BY <2>5 DEF Expire, lists
  <2>6. ASSUME UNCHANGED vars PROVE UNCHANGED <<next, key>>
    BY <2>6 DEF vars
  <2> QED BY <2>1, <2>2, <2>3, <2>4, <2>5, <2>6, Basics DEF Next, ManagerStep, CleanerStep
<1> QED BY <1>1, <1>2, <1>3, <1>4, <1>5, <1>6

(* Empty circles are empty buckets. *)
LEMMA InitMaps == Init => Ordered!Init
<1> SUFFICES ASSUME Init PROVE Ordered!Init
  OBVIOUS
<1>1. ASSUME NEW b \in Buckets PROVE Tagged(Chain(b), key) = <<>>
  <2>1. Chain(b) = <<>> /\ <<>> \in Seq(Nodes) /\ Len(<<>>) = 0
    BY EmptyChains, EmptySeq
  <2>2. key \in [Nodes -> Keys \cup {NoKey}]
    BY DEF Init
  <2>3. Tagged(<<>>, key) \in Seq(Nodes \X (Keys \cup {NoKey})) /\ Len(Tagged(<<>>, key)) = 0
    BY <2>1, <2>2, TaggedFacts
  <2> QED BY <2>1, <2>3, EmptySeq
<1> QED BY <1>1 DEF Ordered!Init, Sessions

(* The lists, cursors and locks of one manager's hash table implement      *)
(* ordered buckets with one session per key, although a node freed by the  *)
(* cleaner may be linked into another bucket before the cleaner has moved  *)
(* on.                                                                     *)
THEOREM ListsImplementBuckets == Spec => ImplementsOrderedBuckets
<1>1. Init => Ordered!Init
  BY InitMaps
<1>2. IInv /\ [Next]_vars => [Ordered!Next]_Sessions
  BY StepMaps
<1> QED BY <1>1, <1>2, Invariance, PTL DEF Spec, ImplementsOrderedBuckets, Ordered!Spec
=============================================================================
