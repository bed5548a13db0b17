--------------------------- MODULE PipelineProofs ---------------------------
(***************************************************************************)
(* For every number of threads, pools of any sizes, either build and every *)
(* sequence of reloads: packets and flow items are conserved and return to *)
(* the pool they came from, each parser queue has one sender, and a packet *)
(* knows its pool before it leaves it.                                     *)
(*                                                                         *)
(* Positions in a queue shift with every operation, so the argument is     *)
(* about sets: a queue without repetitions is the set of its elements, and *)
(* every action moves a set from one place to another.                     *)
(***************************************************************************)
EXTENDS Pipeline, SequenceTheorems, FiniteSetTheorems, TLAPS

Elements(q) == {q[i] : i \in DOMAIN q}
Distinct(q) == \A i, j \in DOMAIN q : q[i] = q[j] => i = j

(* Every item is in exactly one of the places. *)
Partition(at, items) ==
    \A x \in items : \E k \in DOMAIN at : \A j \in DOMAIN at : x \in at[j] <=> j = k

FlowPlace == ({"ppool", "fbatch"} \X Parsers) \cup ({"mqueue", "mhand"} \X Managers)
FlowsAt(pp, fb, mq, mh) ==
    [k \in FlowPlace |-> CASE k[1] = "ppool" -> Elements(pp[k[2]])
                           [] k[1] = "fbatch" -> Elements(fb[k[2]])
                           [] k[1] = "mqueue" -> Elements(mq[k[2]])
                           [] k[1] = "mhand" -> Elements(mh[k[2]])]

(* The flows whose packet has not been recycled, and those packets. *)
Owning ==
    {f \in FlowItems : \/ \E p \in Parsers : ppc[p] = "forward" /\ f \in Elements(fbatch[p])
                       \/ \E m \in Managers : f \in Elements(mqueue[m])
                       \/ \E m \in Managers : mpc[m] = "packet" /\ f \in Elements(mhand[m])}
Carried == {packet[f] : f \in Owning}

PacketPlace ==
    ({"gpool", "ghand"} \X Generators) \cup ({"pqueue", "pbatch"} \X Parsers) \cup {<<"flow", 0>>}
PacketsAt(gp, gh, pq, pb, carried) ==
    [k \in PacketPlace |-> CASE k[1] = "gpool" -> Elements(gp[k[2]])
                             [] k[1] = "ghand" -> {gh[k[2]]} \ {NoPacket}
                             [] k[1] = "pqueue" -> Elements(pq[k[2]])
                             [] k[1] = "pbatch" -> Elements(pb[k[2]])
                             [] k[1] = "flow" -> carried]

-----------------------------------------------------------------------------
(* The inductive invariant. *)

(* What each thread holds, by where it is. *)
Phases ==
    /\ \A g \in Generators : ghand[g] # NoPacket <=> gpc[g] \in {"send", "return"}
    /\ \A p \in Parsers :
         /\ ppc[p] \in {"take", "forward", "flowsback"} => pbatch[p] = <<>>
         /\ ppc[p] \in {"flows", "packets"} => Len(pbatch[p]) = Count
         /\ ppc[p] \in {"take", "flows"} => fbatch[p] = <<>>
         /\ ppc[p] = "forward" => fbatch[p] # <<>>
         /\ ppc[p] = "packets" => fbatch[p] = <<>> \/ Len(fbatch[p]) = Count
         /\ ppc[p] = "flowsback" => Len(fbatch[p]) = Count
    /\ \A m \in Managers :
         IF mpc[m] = "take" THEN mhand[m] = <<>> ELSE Len(mhand[m]) = 1

(* Which items may be where.  A generator sends to the parsers that are    *)
(* congruent to it.                                                        *)
Homes ==
    /\ \A g \in Generators : /\ \A x \in Elements(gpool[g]) : PacketOf[x] = g
                             /\ ghand[g] # NoPacket => PacketOf[ghand[g]] = g
                             /\ next_thread_id[g] % GNums = g /\ target[g] % GNums = g
    /\ \A p \in Parsers : /\ \A x \in Elements(pqueue[p]) : PacketOf[x] = p % GNums
                          /\ \A x \in Elements(pbatch[p]) : PacketOf[x] = p % GNums
                          /\ \A f \in Elements(ppool[p]) : FlowOf[f] = p
                          /\ \A f \in Elements(fbatch[p]) : FlowOf[f] = p

(* A pool is whole while it is being prepared; what has gone round is at   *)
(* its end.                                                                *)
Preparing ==
    \A g \in Generators : gpc[g] = "prepare" =>
      /\ prepared[g] < Capacity
      /\ PacketsOf(g) \subseteq Elements(gpool[g])
      /\ mode = "generator" =>
           \A i \in DOMAIN gpool[g] : i > Len(gpool[g]) - prepared[g] => pool[gpool[g][i]] = g

Prepared ==
    /\ \A x \in Packets : x \notin Elements(gpool[PacketOf[x]]) => pool[x] = PacketOf[x]
    /\ mode = "generator" =>
         \A x \in Packets : gpc[PacketOf[x]] # "prepare" => pool[x] = PacketOf[x]

FlowsApart ==
    /\ \A p \in Parsers : Distinct(ppool[p]) /\ Distinct(fbatch[p])
    /\ \A m \in Managers : Distinct(mqueue[m])
    /\ Partition(FlowsAt(ppool, fbatch, mqueue, mhand), FlowItems)

PacketsApart ==
    /\ \A g \in Generators : Distinct(gpool[g])
    /\ \A p \in Parsers : Distinct(pqueue[p]) /\ Distinct(pbatch[p])
    /\ Carried \subseteq Packets
    /\ \A f, h \in Owning : packet[f] = packet[h] => f = h
    /\ Partition(PacketsAt(gpool, ghand, pqueue, pbatch, Carried), Packets)

IInv == TypeOK /\ Phases /\ Homes /\ Preparing /\ Prepared /\ FlowsApart /\ PacketsApart

-----------------------------------------------------------------------------
(* Queues as sets. *)

(* The elements of a sequence, by their positions. *)
LEMMA ElementsOf ==
    ASSUME NEW S, NEW q \in Seq(S)
    PROVE  /\ Len(q) \in Nat /\ DOMAIN q = 1..Len(q) /\ Elements(q) \subseteq S
           /\ \A x : x \in Elements(q) <=> \E i \in 1..Len(q) : q[i] = x
           /\ q = <<>> <=> Elements(q) = {}
<1>1. Len(q) \in Nat /\ DOMAIN q = 1..Len(q) /\ \A i \in 1..Len(q) : q[i] \in S
  BY LenProperties, ElementOfSeq
<1>2. q = <<>> <=> Len(q) = 0
  BY EmptySeq
<1>3. Elements(q) \subseteq S /\ \A x : x \in Elements(q) <=> \E i \in 1..Len(q) : q[i] = x
  BY <1>1 DEF Elements
<1>4. q = <<>> => Elements(q) = {}
  BY <1>1, <1>2, <1>3
<1>5. q # <<>> => q[1] \in Elements(q)
  BY <1>1, <1>2, <1>3
<1> QED BY <1>1, <1>3, <1>4, <1>5

(* The empty queue. *)
LEMMA Nothing == Elements(<<>>) = {} /\ Distinct(<<>>) /\ Len(<<>>) = 0
<1>1. <<>> \in Seq({}) /\ Len(<<>>) = 0
  BY EmptySeq
<1>2. DOMAIN <<>> = {}
  BY <1>1, LenProperties
<1> QED BY <1>1, <1>2 DEF Elements, Distinct

(* Taking the first element. *)
LEMMA TakeHead ==
    ASSUME NEW S, NEW q \in Seq(S), q # <<>>, Distinct(q)
    PROVE  /\ Head(q) \in S /\ Head(q) \in Elements(q) /\ Head(q) = q[1]
           /\ Tail(q) \in Seq(S) /\ Len(Tail(q)) = Len(q) - 1
           /\ Distinct(Tail(q)) /\ Elements(Tail(q)) = Elements(q) \ {Head(q)}
<1>1. /\ Tail(q) \in Seq(S) /\ Head(q) \in S /\ Head(q) = q[1] /\ Len(Tail(q)) = Len(q) - 1
      /\ \A i \in 1..Len(Tail(q)) : Tail(q)[i] = q[i + 1]
  BY HeadTailProperties
<1>2. /\ Len(q) \in Nat /\ DOMAIN q = 1..Len(q) /\ DOMAIN Tail(q) = 1..Len(Tail(q))
      /\ \A x : x \in Elements(q) <=> \E i \in 1..Len(q) : q[i] = x
      /\ \A x : x \in Elements(Tail(q)) <=> \E i \in 1..Len(Tail(q)) : Tail(q)[i] = x
  BY <1>1, ElementsOf
<1>3. Len(q) # 0
  BY EmptySeq
<1>4. Head(q) \in Elements(q)
  BY <1>1, <1>2, <1>3
<1>5. \A i, j \in 1..Len(q) : q[i] = q[j] => i = j
  BY <1>2 DEF Distinct
<1>6. Distinct(Tail(q))
  <2>1. SUFFICES ASSUME NEW i \in 1..Len(Tail(q)), NEW j \in 1..Len(Tail(q)), Tail(q)[i] = Tail(q)[j]
                 PROVE  i = j
    BY <1>2 DEF Distinct
  <2>2. i + 1 \in 1..Len(q) /\ j + 1 \in 1..Len(q) /\ q[i + 1] = q[j + 1]
    BY <1>1, <1>2, <2>1
  <2> QED BY <1>5, <2>2
<1>7. ASSUME NEW x PROVE x \in Elements(Tail(q)) <=> x \in Elements(q) /\ x # Head(q)
  <2>1. ASSUME x \in Elements(Tail(q)) PROVE x \in Elements(q) /\ x # Head(q)
    <3>1. PICK i \in 1..Len(Tail(q)) : Tail(q)[i] = x
      BY <1>2, <2>1
    <3>2. i + 1 \in 1..Len(q) /\ q[i + 1] = x /\ 1 \in 1..Len(q) /\ i + 1 # 1
      BY <1>1, <1>2, <1>3, <3>1
    <3> QED BY <1>1, <1>2, <1>5, <3>2
  <2>2. ASSUME x \in Elements(q), x # Head(q) PROVE x \in Elements(Tail(q))
    <3>1. PICK i \in 1..Len(q) : q[i] = x
      BY <1>2, <2>2
    <3>2. i # 1
      BY <1>1, <2>2, <3>1
    <3>3. i - 1 \in 1..Len(Tail(q)) /\ (i - 1) + 1 = i
      BY <1>1, <1>2, <3>2
    <3>4. Tail(q)[i - 1] = x
      BY <1>1, <3>1, <3>3
    <3> QED BY <1>2, <3>3, <3>4
  <2> QED BY <2>1, <2>2
<1>8. Elements(Tail(q)) = Elements(q) \ {Head(q)}
  BY <1>7
<1> QED BY <1>1, <1>4, <1>6, <1>8

(* Adding one at the end. *)
LEMMA AddLast ==
    ASSUME NEW S, NEW q \in Seq(S), NEW x \in S, x \notin Elements(q), Distinct(q)
    PROVE  /\ Append(q, x) \in Seq(S) /\ Len(Append(q, x)) = Len(q) + 1
           /\ Distinct(Append(q, x)) /\ Elements(Append(q, x)) = Elements(q) \cup {x}
<1> DEFINE r == Append(q, x)
<1>1. /\ r \in Seq(S) /\ Len(r) = Len(q) + 1 /\ r[Len(q) + 1] = x
      /\ \A i \in 1..Len(q) : r[i] = q[i]
  BY AppendProperties
<1>2. /\ Len(q) \in Nat /\ DOMAIN q = 1..Len(q) /\ DOMAIN r = 1..Len(r)
      /\ \A y : y \in Elements(q) <=> \E i \in 1..Len(q) : q[i] = y
      /\ \A y : y \in Elements(r) <=> \E i \in 1..Len(r) : r[i] = y
  BY <1>1, ElementsOf
<1> HIDE DEF r
<1>3. \A i \in 1..Len(r) : i \in 1..Len(q) \/ i = Len(q) + 1
  BY <1>1, <1>2
<1>4. \A i \in 1..Len(q) : i \in 1..Len(r) /\ i # Len(q) + 1
  BY <1>1, <1>2
<1>5. Len(q) + 1 \in 1..Len(r)
  BY <1>1, <1>2
<1>6. \A i, j \in 1..Len(q) : q[i] = q[j] => i = j
  BY <1>2 DEF Distinct
<1>7. \A i \in 1..Len(q) : q[i] # x
  BY <1>2
<1>8. ASSUME NEW i \in 1..Len(r), NEW j \in 1..Len(r), r[i] = r[j] PROVE i = j
  BY <1>1, <1>3, <1>6, <1>7, <1>8
<1>9. ASSUME NEW y PROVE y \in Elements(r) <=> y \in Elements(q) \/ y = x
  BY <1>1, <1>2, <1>3, <1>4, <1>5
<1>10. Distinct(r) /\ Elements(r) = Elements(q) \cup {x}
  BY <1>2, <1>8, <1>9 DEF Distinct
<1> QED BY <1>1, <1>10 DEF r

(* Taking n at the front. *)
LEMMA TakeFirst ==
    ASSUME NEW S, NEW q \in Seq(S), NEW n \in Nat, n <= Len(q), Distinct(q)
    PROVE  /\ First(q, n) \in Seq(S) /\ Rest(q, n) \in Seq(S)
           /\ Len(First(q, n)) = n /\ Len(Rest(q, n)) = Len(q) - n
           /\ Distinct(First(q, n)) /\ Distinct(Rest(q, n))
           /\ Elements(First(q, n)) \subseteq Elements(q)
           /\ Elements(Rest(q, n)) = Elements(q) \ Elements(First(q, n))
<1> DEFINE a == First(q, n)
           b == Rest(q, n)
<1>1. /\ Len(q) \in Nat /\ DOMAIN q = 1..Len(q) /\ \A i \in 1..Len(q) : q[i] \in S
      /\ \A x : x \in Elements(q) <=> \E i \in 1..Len(q) : q[i] = x
  BY ElementsOf, ElementOfSeq
<1>2. /\ a \in Seq(S) /\ Len(a) = n /\ \A i \in 1..n : a[i] = q[i]
  <2>1. \A i \in 1..n : q[i] \in S
    BY <1>1
  <2>2. /\ a \in Seq(S) /\ Len(a) = IF 1 <= n THEN n - 1 + 1 ELSE 0
        /\ \A i \in 1..(n - 1 + 1) : a[i] = q[1 + i - 1]
    BY <2>1, SubSeqProperties DEF First
  <2> HIDE DEF a
  <2>3. Len(a) = n /\ n - 1 + 1 = n
    BY <2>2
  <2>4. \A i \in 1..n : 1 + i - 1 = i
    OBVIOUS
  <2> QED BY <2>2, <2>3, <2>4
<1>3. /\ b \in Seq(S) /\ Len(b) = Len(q) - n /\ \A i \in 1..(Len(q) - n) : b[i] = q[n + i]
  <2>1. \A i \in (n + 1)..Len(q) : q[i] \in S
    BY <1>1
  <2>2. /\ b \in Seq(S) /\ Len(b) = IF n + 1 <= Len(q) THEN Len(q) - (n + 1) + 1 ELSE 0
        /\ \A i \in 1..(Len(q) - (n + 1) + 1) : b[i] = q[(n + 1) + i - 1]
    BY <1>1, <2>1, SubSeqProperties DEF Rest
  <2> HIDE DEF b
  <2> DEFINE l == Len(q)
  <2>3. Len(b) = IF n + 1 <= l THEN l - (n + 1) + 1 ELSE 0
    BY <2>2
  <2>4. l \in Nat /\ n <= l
    BY <1>1
  <2> HIDE DEF l
  <2>5. Len(b) = l - n /\ l - (n + 1) + 1 = l - n
    BY <2>3, <2>4
  <2>6. \A i \in 1..(l - n) : (n + 1) + i - 1 = n + i
    BY <2>4
  <2> QED BY <2>2, <2>5, <2>6 DEF l
<1> HIDE DEF a, b
<1>4. /\ DOMAIN a = 1..n /\ \A x : x \in Elements(a) <=> \E i \in 1..n : a[i] = x
      /\ DOMAIN b = 1..(Len(q) - n) /\ \A x : x \in Elements(b) <=> \E i \in 1..(Len(q) - n) : b[i] = x
  BY <1>2, <1>3, ElementsOf
<1>5. \A i, j \in 1..Len(q) : q[i] = q[j] => i = j
  BY <1>1 DEF Distinct
<1>6. \A i \in 1..n : i \in 1..Len(q)
  BY <1>1
<1>7. \A i \in 1..(Len(q) - n) : n + i \in 1..Len(q) /\ n + i \notin 1..n
  BY <1>1
<1>8. Distinct(a)
  BY <1>2, <1>4, <1>5, <1>6 DEF Distinct
<1>9. Distinct(b)
  <2>1. SUFFICES ASSUME NEW i \in 1..(Len(q) - n), NEW j \in 1..(Len(q) - n), b[i] = b[j]
                 PROVE  i = j
    BY <1>4 DEF Distinct
  <2>2. n + i = n + j
    BY <1>3, <1>5, <1>7, <2>1
  <2> QED BY <2>2
<1>10. Elements(a) \subseteq Elements(q)
  BY <1>1, <1>2, <1>4, <1>6
<1>11. ASSUME NEW x PROVE x \in Elements(b) <=> x \in Elements(q) /\ x \notin Elements(a)
  <2>1. ASSUME x \in Elements(b) PROVE x \in Elements(q) /\ x \notin Elements(a)
    <3>1. PICK i \in 1..(Len(q) - n) : b[i] = x
      BY <1>4, <2>1
    <3>2. q[n + i] = x /\ n + i \in 1..Len(q) /\ n + i \notin 1..n
      BY <1>3, <1>7, <3>1
    <3>3. ASSUME NEW j \in 1..n, a[j] = x PROVE FALSE
      BY <1>2, <1>5, <1>6, <3>2, <3>3
    <3> QED BY <1>1, <1>4, <3>2, <3>3
  <2>2. ASSUME x \in Elements(q), x \notin Elements(a) PROVE x \in Elements(b)
    <3>1. PICK i \in 1..Len(q) : q[i] = x
      BY <1>1, <2>2
    <3>2. i \notin 1..n
      BY <1>2, <1>4, <2>2, <3>1
    <3>3. i - n \in 1..(Len(q) - n) /\ n + (i - n) = i
      BY <1>1, <3>2
    <3> QED BY <1>3, <1>4, <3>1, <3>3
  <2> QED BY <2>1, <2>2
<1>12. Elements(b) = Elements(q) \ Elements(a)
  BY <1>11
<1> QED BY <1>2, <1>3, <1>8, <1>9, <1>10, <1>12 DEF a, b

(* Adding a whole batch at the end. *)
LEMMA AddBatch ==
    ASSUME NEW S, NEW q \in Seq(S), NEW r \in Seq(S), Distinct(q), Distinct(r),
           Elements(q) \cap Elements(r) = {}
    PROVE  /\ q \o r \in Seq(S) /\ Len(q \o r) = Len(q) + Len(r)
           /\ Distinct(q \o r) /\ Elements(q \o r) = Elements(q) \cup Elements(r)
<1> DEFINE c == q \o r
<1>1. /\ c \in Seq(S) /\ Len(c) = Len(q) + Len(r)
      /\ \A i \in 1..Len(c) : c[i] = IF i <= Len(q) THEN q[i] ELSE r[i - Len(q)]
  BY ConcatProperties
<1>2. /\ Len(q) \in Nat /\ DOMAIN q = 1..Len(q) /\ Len(r) \in Nat /\ DOMAIN r = 1..Len(r)
      /\ DOMAIN c = 1..Len(c)
      /\ \A x : x \in Elements(q) <=> \E i \in 1..Len(q) : q[i] = x
      /\ \A x : x \in Elements(r) <=> \E i \in 1..Len(r) : r[i] = x
      /\ \A x : x \in Elements(c) <=> \E i \in 1..Len(c) : c[i] = x
  BY <1>1, ElementsOf
<1> HIDE DEF c
<1>3. /\ \A i, j \in 1..Len(q) : q[i] = q[j] => i = j
      /\ \A i, j \in 1..Len(r) : r[i] = r[j] => i = j
  BY <1>2 DEF Distinct
<1>4. ASSUME NEW i \in 1..Len(c)
      PROVE  \/ i \in 1..Len(q) /\ c[i] = q[i] /\ c[i] \in Elements(q)
             \/ i - Len(q) \in 1..Len(r) /\ c[i] = r[i - Len(q)] /\ c[i] \in Elements(r)
  <2>1. CASE i <= Len(q)
    <3>1. i \in 1..Len(q) /\ c[i] = q[i]
      BY <1>1, <1>2, <2>1
    <3> QED BY <1>2, <3>1
  <2>2. CASE ~(i <= Len(q))
    <3>1. i - Len(q) \in 1..Len(r) /\ c[i] = r[i - Len(q)]
      BY <1>1, <1>2, <2>2
    <3> QED BY <1>2, <3>1
  <2> QED BY <2>1, <2>2
<1>5. ASSUME NEW i \in 1..Len(q) PROVE i \in 1..Len(c) /\ c[i] = q[i]
  <2>1. i \in 1..Len(c) /\ i <= Len(q)
    BY <1>1, <1>2
  <2> QED BY <1>1, <2>1
<1>6. ASSUME NEW i \in 1..Len(r) PROVE Len(q) + i \in 1..Len(c) /\ c[Len(q) + i] = r[i]
  <2>1. Len(q) + i \in 1..Len(c) /\ ~(Len(q) + i <= Len(q)) /\ (Len(q) + i) - Len(q) = i
    BY <1>1, <1>2
  <2> QED BY <1>1, <2>1
<1>7. ASSUME NEW x PROVE x \in Elements(c) <=> x \in Elements(q) \/ x \in Elements(r)
  BY <1>2, <1>4, <1>5, <1>6
<1>8. ASSUME NEW i \in 1..Len(c), NEW j \in 1..Len(c), c[i] = c[j] PROVE i = j
  <2>1. CASE c[i] \in Elements(q)
    <3>1. /\ i \in 1..Len(q) /\ c[i] = q[i] /\ j \in 1..Len(q) /\ c[j] = q[j]
      BY <1>4, <1>8, <2>1
    <3> QED BY <1>3, <1>8, <3>1
  <2>2. CASE c[i] \notin Elements(q)
    <3>1. /\ i - Len(q) \in 1..Len(r) /\ c[i] = r[i - Len(q)]
          /\ j - Len(q) \in 1..Len(r) /\ c[j] = r[j - Len(q)]
      BY <1>4, <1>8, <2>2
    <3>2. i - Len(q) = j - Len(q)
      BY <1>3, <1>8, <3>1
    <3> QED BY <1>2, <3>2
  <2> QED BY <2>1, <2>2
<1>9. Distinct(c) /\ Elements(c) = Elements(q) \cup Elements(r)
  BY <1>2, <1>7, <1>8 DEF Distinct
<1> QED BY <1>1, <1>9 DEF c

-----------------------------------------------------------------------------
(* Moving items between places. *)

(* A set that moves from one place to another is still in one place. *)
LEMMA Transfer ==
    ASSUME NEW items, NEW A, NEW B, Partition(A, items), DOMAIN B = DOMAIN A,
           NEW from \in DOMAIN A, NEW to \in DOMAIN A, from # to, NEW X, X \subseteq A[from],
           B[from] = A[from] \ X, B[to] = A[to] \cup X,
           \A k \in DOMAIN A : k # from /\ k # to => B[k] = A[k]
    PROVE  Partition(B, items)
<1>1. SUFFICES ASSUME NEW x \in items
               PROVE  \E k \in DOMAIN B : \A j \in DOMAIN B : x \in B[j] <=> j = k
  BY DEF Partition
<1>2. PICK k \in DOMAIN A : \A j \in DOMAIN A : x \in A[j] <=> j = k
  BY DEF Partition
<1>3. CASE x \in X
  <2>1. k = from
    BY <1>2, <1>3
  <2>2. ASSUME NEW j \in DOMAIN B PROVE x \in B[j] <=> j = to
    BY <1>2, <1>3, <2>1
  <2> QED BY <2>2
<1>4. CASE x \notin X
  <2>1. ASSUME NEW j \in DOMAIN B PROVE x \in B[j] <=> j = k
    BY <1>2, <1>4
  <2> QED BY <2>1
<1> QED BY <1>3, <1>4

(* An item is not in two places. *)
LEMMA OnePlace ==
    ASSUME NEW items, NEW A, Partition(A, items), NEW x \in items,
           NEW j \in DOMAIN A, NEW k \in DOMAIN A, x \in A[j], x \in A[k]
    PROVE  j = k
BY DEF Partition

(* The places of flow items, *)
LEMMA FlowsAtEach ==
    ASSUME NEW pp, NEW fb, NEW mq, NEW mh
    PROVE  /\ DOMAIN FlowsAt(pp, fb, mq, mh) = FlowPlace
           /\ \A p \in Parsers : /\ <<"ppool", p>> \in FlowPlace /\ <<"fbatch", p>> \in FlowPlace
                                 /\ FlowsAt(pp, fb, mq, mh)[<<"ppool", p>>] = Elements(pp[p])
                                 /\ FlowsAt(pp, fb, mq, mh)[<<"fbatch", p>>] = Elements(fb[p])
           /\ \A m \in Managers : /\ <<"mqueue", m>> \in FlowPlace /\ <<"mhand", m>> \in FlowPlace
                                  /\ FlowsAt(pp, fb, mq, mh)[<<"mqueue", m>>] = Elements(mq[m])
                                  /\ FlowsAt(pp, fb, mq, mh)[<<"mhand", m>>] = Elements(mh[m])
           /\ \A k \in FlowPlace : \/ \E p \in Parsers : k = <<"ppool", p>> \/ k = <<"fbatch", p>>
                                   \/ \E m \in Managers : k = <<"mqueue", m>> \/ k = <<"mhand", m>>
<1>1. /\ \A p \in Parsers : <<"ppool", p>> \in FlowPlace /\ <<"fbatch", p>> \in FlowPlace
      /\ \A m \in Managers : <<"mqueue", m>> \in FlowPlace /\ <<"mhand", m>> \in FlowPlace
      /\ \A k \in FlowPlace : \/ \E p \in Parsers : k = <<"ppool", p>> \/ k = <<"fbatch", p>>
                              \/ \E m \in Managers : k = <<"mqueue", m>> \/ k = <<"mhand", m>>
  BY DEF FlowPlace
<1>2. DOMAIN FlowsAt(pp, fb, mq, mh) = FlowPlace
  BY DEF FlowsAt
<1>3. ASSUME NEW p \in Parsers
      PROVE  /\ FlowsAt(pp, fb, mq, mh)[<<"ppool", p>>] = Elements(pp[p])
             /\ FlowsAt(pp, fb, mq, mh)[<<"fbatch", p>>] = Elements(fb[p])
  BY <1>1 DEF FlowsAt
<1>4. ASSUME NEW m \in Managers
      PROVE  /\ FlowsAt(pp, fb, mq, mh)[<<"mqueue", m>>] = Elements(mq[m])
             /\ FlowsAt(pp, fb, mq, mh)[<<"mhand", m>>] = Elements(mh[m])
  BY <1>1 DEF FlowsAt
<1> QED BY <1>1, <1>2, <1>3, <1>4

(* and of packets. *)
LEMMA PacketsAtEach ==
    ASSUME NEW gp, NEW gh, NEW pq, NEW pb, NEW c
    PROVE  /\ DOMAIN PacketsAt(gp, gh, pq, pb, c) = PacketPlace
           /\ \A g \in Generators : /\ <<"gpool", g>> \in PacketPlace /\ <<"ghand", g>> \in PacketPlace
                                    /\ PacketsAt(gp, gh, pq, pb, c)[<<"gpool", g>>] = Elements(gp[g])
                                    /\ PacketsAt(gp, gh, pq, pb, c)[<<"ghand", g>>] = {gh[g]} \ {NoPacket}
           /\ \A p \in Parsers : /\ <<"pqueue", p>> \in PacketPlace /\ <<"pbatch", p>> \in PacketPlace
                                 /\ PacketsAt(gp, gh, pq, pb, c)[<<"pqueue", p>>] = Elements(pq[p])
                                 /\ PacketsAt(gp, gh, pq, pb, c)[<<"pbatch", p>>] = Elements(pb[p])
           /\ <<"flow", 0>> \in PacketPlace /\ PacketsAt(gp, gh, pq, pb, c)[<<"flow", 0>>] = c
           /\ \A k \in PacketPlace : \/ \E g \in Generators : k = <<"gpool", g>> \/ k = <<"ghand", g>>
                                     \/ \E p \in Parsers : k = <<"pqueue", p>> \/ k = <<"pbatch", p>>
                                     \/ k = <<"flow", 0>>
<1>1. /\ \A g \in Generators : <<"gpool", g>> \in PacketPlace /\ <<"ghand", g>> \in PacketPlace
      /\ \A p \in Parsers : <<"pqueue", p>> \in PacketPlace /\ <<"pbatch", p>> \in PacketPlace
      /\ <<"flow", 0>> \in PacketPlace
      /\ \A k \in PacketPlace : \/ \E g \in Generators : k = <<"gpool", g>> \/ k = <<"ghand", g>>
                                \/ \E p \in Parsers : k = <<"pqueue", p>> \/ k = <<"pbatch", p>>
                                \/ k = <<"flow", 0>>
  BY DEF PacketPlace
<1>2. DOMAIN PacketsAt(gp, gh, pq, pb, c) = PacketPlace
  BY DEF PacketsAt
<1>3. ASSUME NEW g \in Generators
      PROVE  /\ PacketsAt(gp, gh, pq, pb, c)[<<"gpool", g>>] = Elements(gp[g])
             /\ PacketsAt(gp, gh, pq, pb, c)[<<"ghand", g>>] = {gh[g]} \ {NoPacket}
  BY <1>1 DEF PacketsAt
<1>4. ASSUME NEW p \in Parsers
      PROVE  /\ PacketsAt(gp, gh, pq, pb, c)[<<"pqueue", p>>] = Elements(pq[p])
             /\ PacketsAt(gp, gh, pq, pb, c)[<<"pbatch", p>>] = Elements(pb[p])
  BY <1>1 DEF PacketsAt
<1>5. PacketsAt(gp, gh, pq, pb, c)[<<"flow", 0>>] = c
  BY <1>1 DEF PacketsAt
<1> QED BY <1>1, <1>2, <1>3, <1>4, <1>5

(* Rearranging the pools moves nothing. *)
LEMMA SamePackets ==
    ASSUME NEW gp, NEW gh, NEW pq, NEW pb, NEW c, NEW gp2,
           \A g \in Generators : Elements(gp2[g]) = Elements(gp[g]),
           Partition(PacketsAt(gp, gh, pq, pb, c), Packets)
    PROVE  Partition(PacketsAt(gp2, gh, pq, pb, c), Packets)
<1> DEFINE A == PacketsAt(gp, gh, pq, pb, c)
           B == PacketsAt(gp2, gh, pq, pb, c)
<1>1. /\ \A g \in Generators : A[<<"gpool", g>>] = Elements(gp[g]) /\ A[<<"ghand", g>>] = {gh[g]} \ {NoPacket}
      /\ \A p \in Parsers : A[<<"pqueue", p>>] = Elements(pq[p]) /\ A[<<"pbatch", p>>] = Elements(pb[p])
      /\ A[<<"flow", 0>>] = c
  BY PacketsAtEach
<1>2. /\ \A g \in Generators : B[<<"gpool", g>>] = Elements(gp2[g]) /\ B[<<"ghand", g>>] = {gh[g]} \ {NoPacket}
      /\ \A p \in Parsers : B[<<"pqueue", p>>] = Elements(pq[p]) /\ B[<<"pbatch", p>>] = Elements(pb[p])
      /\ B[<<"flow", 0>>] = c
  BY PacketsAtEach
<1>3. \A k \in PacketPlace : \/ \E g \in Generators : k = <<"gpool", g>> \/ k = <<"ghand", g>>
                             \/ \E p \in Parsers : k = <<"pqueue", p>> \/ k = <<"pbatch", p>>
                             \/ k = <<"flow", 0>>
  BY PacketsAtEach
<1>4. DOMAIN A = PacketPlace /\ DOMAIN B = PacketPlace
  BY PacketsAtEach
<1> HIDE DEF A, B
<1>5. ASSUME NEW k \in PacketPlace PROVE A[k] = B[k]
  <2>1. CASE \E g \in Generators : k = <<"gpool", g>> \/ k = <<"ghand", g>>
    BY ZenonT(40), <1>1, <1>2, <2>1
  <2>2. CASE \E p \in Parsers : k = <<"pqueue", p>> \/ k = <<"pbatch", p>>
    BY <1>1, <1>2, <2>2
  <2>3. CASE k = <<"flow", 0>>
    BY <1>1, <1>2, <2>3
  <2> QED BY <1>3, <2>1, <2>2, <2>3
<1>6. Partition(A, Packets)
  BY DEF A
<1>7. Partition(B, Packets)
  BY <1>4, <1>5, <1>6 DEF Partition
<1> QED BY <1>7 DEF B

(* What place k holds, E before, once X has moved. *)
Moved(k, E, from, to, X) == IF k = from THEN E \ X ELSE IF k = to THEN E \cup X ELSE E

FlowsMoved(pp, fb, mq, mh, pp2, fb2, mq2, mh2, from, to, X) ==
    /\ from \in FlowPlace /\ to \in FlowPlace /\ from # to
    /\ X \subseteq FlowsAt(pp, fb, mq, mh)[from]
    /\ \A p \in Parsers :
         /\ Elements(pp2[p]) = Moved(<<"ppool", p>>, Elements(pp[p]), from, to, X)
         /\ Elements(fb2[p]) = Moved(<<"fbatch", p>>, Elements(fb[p]), from, to, X)
    /\ \A m \in Managers :
         /\ Elements(mq2[m]) = Moved(<<"mqueue", m>>, Elements(mq[m]), from, to, X)
         /\ Elements(mh2[m]) = Moved(<<"mhand", m>>, Elements(mh[m]), from, to, X)

PacketsMoved(gp, gh, pq, pb, c, gp2, gh2, pq2, pb2, c2, from, to, X) ==
    /\ from \in PacketPlace /\ to \in PacketPlace /\ from # to
    /\ X \subseteq PacketsAt(gp, gh, pq, pb, c)[from]
    /\ \A g \in Generators :
         /\ Elements(gp2[g]) = Moved(<<"gpool", g>>, Elements(gp[g]), from, to, X)
         /\ {gh2[g]} \ {NoPacket} = Moved(<<"ghand", g>>, {gh[g]} \ {NoPacket}, from, to, X)
    /\ \A p \in Parsers :
         /\ Elements(pq2[p]) = Moved(<<"pqueue", p>>, Elements(pq[p]), from, to, X)
         /\ Elements(pb2[p]) = Moved(<<"pbatch", p>>, Elements(pb[p]), from, to, X)
    /\ c2 = Moved(<<"flow", 0>>, c, from, to, X)

(* Flow items that move, *)
LEMMA MoveFlows ==
    ASSUME NEW pp, NEW fb, NEW mq, NEW mh, NEW pp2, NEW fb2, NEW mq2, NEW mh2,
           NEW from, NEW to, NEW X,
           FlowsMoved(pp, fb, mq, mh, pp2, fb2, mq2, mh2, from, to, X),
           Partition(FlowsAt(pp, fb, mq, mh), FlowItems)
    PROVE  Partition(FlowsAt(pp2, fb2, mq2, mh2), FlowItems)
<1> DEFINE A == FlowsAt(pp, fb, mq, mh)
           B == FlowsAt(pp2, fb2, mq2, mh2)
<1>1. /\ \A p \in Parsers : A[<<"ppool", p>>] = Elements(pp[p]) /\ A[<<"fbatch", p>>] = Elements(fb[p])
      /\ \A m \in Managers : A[<<"mqueue", m>>] = Elements(mq[m]) /\ A[<<"mhand", m>>] = Elements(mh[m])
  BY FlowsAtEach
<1>2. /\ \A p \in Parsers : B[<<"ppool", p>>] = Elements(pp2[p]) /\ B[<<"fbatch", p>>] = Elements(fb2[p])
      /\ \A m \in Managers : B[<<"mqueue", m>>] = Elements(mq2[m]) /\ B[<<"mhand", m>>] = Elements(mh2[m])
  BY FlowsAtEach
<1>3. /\ DOMAIN A = FlowPlace /\ DOMAIN B = FlowPlace
      /\ \A k \in FlowPlace : \/ \E p \in Parsers : k = <<"ppool", p>> \/ k = <<"fbatch", p>>
                              \/ \E m \in Managers : k = <<"mqueue", m>> \/ k = <<"mhand", m>>
  BY FlowsAtEach
<1>4. /\ Partition(A, FlowItems) /\ X \subseteq A[from]
      /\ from \in FlowPlace /\ to \in FlowPlace /\ from # to
  BY DEF FlowsMoved
<1> HIDE DEF A, B
<1>5. ASSUME NEW k \in FlowPlace PROVE B[k] = Moved(k, A[k], from, to, X)
  <2>a. \A p \in Parsers :
          /\ Elements(pp2[p]) = Moved(<<"ppool", p>>, Elements(pp[p]), from, to, X)
          /\ Elements(fb2[p]) = Moved(<<"fbatch", p>>, Elements(fb[p]), from, to, X)
    BY DEF FlowsMoved
  <2>b. \A m \in Managers :
          /\ Elements(mq2[m]) = Moved(<<"mqueue", m>>, Elements(mq[m]), from, to, X)
          /\ Elements(mh2[m]) = Moved(<<"mhand", m>>, Elements(mh[m]), from, to, X)
    BY DEF FlowsMoved
  <2>1. CASE \E p \in Parsers : k = <<"ppool", p>> \/ k = <<"fbatch", p>>
    BY ZenonT(40), <1>1, <1>2, <2>a, <2>1
  <2>2. CASE \E m \in Managers : k = <<"mqueue", m>> \/ k = <<"mhand", m>>
    BY ZenonT(40), <1>1, <1>2, <2>b, <2>2
  <2> QED BY <1>3, <2>1, <2>2
<1>6. /\ B[from] = A[from] \ X /\ B[to] = A[to] \cup X
      /\ \A k \in FlowPlace : k # from /\ k # to => B[k] = A[k]
  BY <1>4, <1>5 DEF Moved
<1>7. Partition(B, FlowItems)
  BY <1>3, <1>4, <1>6, Transfer
<1> QED BY <1>7 DEF B

(* and packets. *)
LEMMA MovePackets ==
    ASSUME NEW gp, NEW gh, NEW pq, NEW pb, NEW c, NEW gp2, NEW gh2, NEW pq2, NEW pb2, NEW c2,
           NEW from, NEW to, NEW X,
           PacketsMoved(gp, gh, pq, pb, c, gp2, gh2, pq2, pb2, c2, from, to, X),
           Partition(PacketsAt(gp, gh, pq, pb, c), Packets)
    PROVE  Partition(PacketsAt(gp2, gh2, pq2, pb2, c2), Packets)
<1> DEFINE A == PacketsAt(gp, gh, pq, pb, c)
           B == PacketsAt(gp2, gh2, pq2, pb2, c2)
<1>1. /\ \A g \in Generators : A[<<"gpool", g>>] = Elements(gp[g]) /\ A[<<"ghand", g>>] = {gh[g]} \ {NoPacket}
      /\ \A p \in Parsers : A[<<"pqueue", p>>] = Elements(pq[p]) /\ A[<<"pbatch", p>>] = Elements(pb[p])
      /\ A[<<"flow", 0>>] = c
  BY PacketsAtEach
<1>2. /\ \A g \in Generators : B[<<"gpool", g>>] = Elements(gp2[g]) /\ B[<<"ghand", g>>] = {gh2[g]} \ {NoPacket}
      /\ \A p \in Parsers : B[<<"pqueue", p>>] = Elements(pq2[p]) /\ B[<<"pbatch", p>>] = Elements(pb2[p])
      /\ B[<<"flow", 0>>] = c2
  BY PacketsAtEach
<1>3. /\ DOMAIN A = PacketPlace /\ DOMAIN B = PacketPlace
      /\ \A k \in PacketPlace : \/ \E g \in Generators : k = <<"gpool", g>> \/ k = <<"ghand", g>>
                                \/ \E p \in Parsers : k = <<"pqueue", p>> \/ k = <<"pbatch", p>>
                                \/ k = <<"flow", 0>>
  BY PacketsAtEach
<1>4. /\ Partition(A, Packets) /\ X \subseteq A[from]
      /\ from \in PacketPlace /\ to \in PacketPlace /\ from # to
  BY DEF PacketsMoved
<1> HIDE DEF A, B
<1>5. ASSUME NEW k \in PacketPlace PROVE B[k] = Moved(k, A[k], from, to, X)
  <2>a. /\ \A g \in Generators :
             /\ Elements(gp2[g]) = Moved(<<"gpool", g>>, Elements(gp[g]), from, to, X)
             /\ {gh2[g]} \ {NoPacket} = Moved(<<"ghand", g>>, {gh[g]} \ {NoPacket}, from, to, X)
        /\ c2 = Moved(<<"flow", 0>>, c, from, to, X)
    BY DEF PacketsMoved
  <2>b. \A p \in Parsers :
          /\ Elements(pq2[p]) = Moved(<<"pqueue", p>>, Elements(pq[p]), from, to, X)
          /\ Elements(pb2[p]) = Moved(<<"pbatch", p>>, Elements(pb[p]), from, to, X)
    BY DEF PacketsMoved
  <2>1. CASE \E g \in Generators : k = <<"gpool", g>> \/ k = <<"ghand", g>>
    BY ZenonT(40), <1>1, <1>2, <2>a, <2>1
  <2>2. CASE \E p \in Parsers : k = <<"pqueue", p>> \/ k = <<"pbatch", p>>
    BY ZenonT(40), <1>1, <1>2, <2>b, <2>2
  <2>3. CASE k = <<"flow", 0>>
    BY <1>1, <1>2, <2>a, <2>3
  <2> QED BY <1>3, <2>1, <2>2, <2>3
<1>6. /\ B[from] = A[from] \ X /\ B[to] = A[to] \cup X
      /\ \A k \in PacketPlace : k # from /\ k # to => B[k] = A[k]
  BY <1>4, <1>5 DEF Moved
<1>7. Partition(B, Packets)
  BY <1>3, <1>4, <1>6, Transfer
<1> QED BY <1>7 DEF B

-----------------------------------------------------------------------------
(* What the invariant says of one item. *)

(* A flow item is in one place, *)
LEMMA FlowOnce ==
    ASSUME IInv, NEW f \in FlowItems
    PROVE  /\ \A p \in Parsers, m \in Managers :
                /\ f \in Elements(ppool[p]) => f \notin Elements(mqueue[m]) /\ f \notin Elements(mhand[m])
                /\ f \in Elements(fbatch[p]) => f \notin Elements(mqueue[m]) /\ f \notin Elements(mhand[m])
           /\ \A p, q \in Parsers :
                /\ f \in Elements(ppool[p]) => f \notin Elements(fbatch[q])
                /\ f \in Elements(fbatch[p]) /\ f \in Elements(fbatch[q]) => p = q
           /\ \A m, n \in Managers :
                /\ f \in Elements(mqueue[m]) => f \notin Elements(mhand[n])
                /\ f \in Elements(mhand[m]) /\ f \in Elements(mhand[n]) => m = n
<1> DEFINE A == FlowsAt(ppool, fbatch, mqueue, mhand)
<1>1. /\ DOMAIN A = FlowPlace
      /\ \A o \in Parsers : /\ <<"ppool", o>> \in FlowPlace /\ <<"fbatch", o>> \in FlowPlace
                            /\ A[<<"ppool", o>>] = Elements(ppool[o])
                            /\ A[<<"fbatch", o>>] = Elements(fbatch[o])
      /\ \A o \in Managers : /\ <<"mqueue", o>> \in FlowPlace /\ <<"mhand", o>> \in FlowPlace
                             /\ A[<<"mqueue", o>>] = Elements(mqueue[o])
                             /\ A[<<"mhand", o>>] = Elements(mhand[o])
  BY FlowsAtEach
<1>2. Partition(A, FlowItems)
  BY DEF IInv, FlowsApart
<1> HIDE DEF A
<1>3. \A j, k \in FlowPlace : f \in A[j] /\ f \in A[k] => j = k
  BY <1>1, <1>2, OnePlace
<1>4. ASSUME NEW p \in Parsers, NEW m \in Managers
      PROVE  /\ f \in Elements(ppool[p]) => f \notin Elements(mqueue[m]) /\ f \notin Elements(mhand[m])
             /\ f \in Elements(fbatch[p]) => f \notin Elements(mqueue[m]) /\ f \notin Elements(mhand[m])
  BY <1>1, <1>3
<1>5. ASSUME NEW p \in Parsers, NEW q \in Parsers
      PROVE  /\ f \in Elements(ppool[p]) => f \notin Elements(fbatch[q])
             /\ f \in Elements(fbatch[p]) /\ f \in Elements(fbatch[q]) => p = q
  BY <1>1, <1>3
<1>6. ASSUME NEW m \in Managers, NEW n \in Managers
      PROVE  /\ f \in Elements(mqueue[m]) => f \notin Elements(mhand[n])
             /\ f \in Elements(mhand[m]) /\ f \in Elements(mhand[n]) => m = n
  BY <1>1, <1>3
<1> QED BY <1>4, <1>5, <1>6

(* and so is a packet. *)
LEMMA PacketOnce ==
    ASSUME IInv, NEW x \in Packets, NEW g \in Generators, NEW h \in Generators,
           NEW p \in Parsers, NEW q \in Parsers
    PROVE  /\ x \in Elements(gpool[g]) => /\ x # ghand[h] /\ x \notin Elements(pqueue[p])
                                         /\ x \notin Elements(pbatch[p]) /\ x \notin Carried
           /\ x = ghand[g] => /\ x \notin Elements(pqueue[p]) /\ x \notin Elements(pbatch[p])
                              /\ x \notin Carried
           /\ x \in Elements(pqueue[p]) => x \notin Elements(pbatch[q]) /\ x \notin Carried
           /\ x \in Elements(pbatch[p]) => x \notin Carried
<1> DEFINE A == PacketsAt(gpool, ghand, pqueue, pbatch, Carried)
<1>1. /\ DOMAIN A = PacketPlace
      /\ \A o \in Generators : /\ <<"gpool", o>> \in PacketPlace /\ <<"ghand", o>> \in PacketPlace
                               /\ A[<<"gpool", o>>] = Elements(gpool[o])
                               /\ A[<<"ghand", o>>] = {ghand[o]} \ {NoPacket}
      /\ \A o \in Parsers : /\ <<"pqueue", o>> \in PacketPlace /\ <<"pbatch", o>> \in PacketPlace
                            /\ A[<<"pqueue", o>>] = Elements(pqueue[o])
                            /\ A[<<"pbatch", o>>] = Elements(pbatch[o])
      /\ <<"flow", 0>> \in PacketPlace /\ A[<<"flow", 0>>] = Carried
  BY PacketsAtEach
<1>2. Partition(A, Packets) /\ x # NoPacket
  BY PipelineAssumption DEF IInv, PacketsApart
<1> HIDE DEF A
<1>3. \A j, k \in PacketPlace : x \in A[j] /\ x \in A[k] => j = k
  BY <1>1, <1>2, OnePlace
<1>4. \A o \in Generators : x = ghand[o] => x \in A[<<"ghand", o>>]
  BY <1>1, <1>2
<1> USE <1>1, <1>3, <1>4
<1>5. ASSUME x \in Elements(gpool[g])
      PROVE  /\ x # ghand[h] /\ x \notin Elements(pqueue[p])
             /\ x \notin Elements(pbatch[p]) /\ x \notin Carried
  <2>1. <<"gpool", g>> # <<"ghand", h>> /\ <<"gpool", g>> # <<"pqueue", p>>
    OBVIOUS
  <2>2. <<"gpool", g>> # <<"pbatch", p>> /\ <<"gpool", g>> # <<"flow", 0>>
    OBVIOUS
  <2>3. x \in A[<<"gpool", g>>]
    BY <1>5
  <2>4. x \notin A[<<"ghand", h>>] /\ x \notin A[<<"pqueue", p>>]
    BY <2>1, <2>3
  <2>5. x \notin A[<<"pbatch", p>>] /\ x \notin A[<<"flow", 0>>]
    BY <2>2, <2>3
  <2> QED BY <2>4, <2>5
<1>6. ASSUME x = ghand[g]
      PROVE  /\ x \notin Elements(pqueue[p]) /\ x \notin Elements(pbatch[p])
             /\ x \notin Carried
  <2>1. /\ <<"ghand", g>> # <<"pqueue", p>> /\ <<"ghand", g>> # <<"pbatch", p>>
        /\ <<"ghand", g>> # <<"flow", 0>>
    OBVIOUS
  <2>2. x \in A[<<"ghand", g>>]
    BY <1>6
  <2>3. x \notin A[<<"pqueue", p>>] /\ x \notin A[<<"pbatch", p>>] /\ x \notin A[<<"flow", 0>>]
    BY <2>1, <2>2
  <2> QED BY <2>3
<1>7. /\ x \in Elements(pqueue[p]) => x \notin Elements(pbatch[q]) /\ x \notin Carried
      /\ x \in Elements(pbatch[p]) => x \notin Carried
  <2>1. <<"pqueue", p>> # <<"pbatch", q>> /\ <<"pqueue", p>> # <<"flow", 0>>
    OBVIOUS
  <2>2. <<"pbatch", p>> # <<"flow", 0>>
    OBVIOUS
  <2>3. x \in A[<<"pqueue", p>>] => x \notin A[<<"pbatch", q>>] /\ x \notin A[<<"flow", 0>>]
    BY <2>1
  <2>4. x \in A[<<"pbatch", p>>] => x \notin A[<<"flow", 0>>]
    BY <2>2
  <2> QED BY <2>3, <2>4
<1> QED BY <1>5, <1>6, <1>7

(* A packet outside its pool knows it, and that pool has been prepared. *)
LEMMA KnowsHome ==
    ASSUME IInv, NEW x \in Packets, x \notin Elements(gpool[PacketOf[x]])
    PROVE  /\ PacketOf[x] \in Generators /\ pool[x] = PacketOf[x]
           /\ gpc[PacketOf[x]] # "prepare"
<1>1. PacketOf[x] \in Generators /\ x \in PacketsOf(PacketOf[x])
  BY PipelineAssumption DEF PacketsOf
<1>2. pool[x] = PacketOf[x]
  BY DEF IInv, Prepared
<1>3. gpc[PacketOf[x]] # "prepare"
  BY <1>1 DEF IInv, Preparing
<1> QED BY <1>1, <1>2, <1>3

-----------------------------------------------------------------------------
(* What groups of actions leave alone. *)

(* Flow items, *)
LEMMA FlowsKept ==
    ASSUME IInv, UNCHANGED <<ppool, fbatch, mqueue, mhand>>
    PROVE  FlowsApart'
BY DEF IInv, FlowsApart

(* the packets they carry, *)
LEMMA CarriedKept ==
    ASSUME UNCHANGED <<fbatch, ppc, mqueue, mpc, mhand>>
    PROVE  Owning' = Owning /\ (packet' = packet => Carried' = Carried)
<1>1. Owning' = Owning
  BY DEF Owning
<1> QED BY <1>1 DEF Carried

(* and the pools that are being prepared. *)
LEMMA PreparationKept ==
    ASSUME IInv, UNCHANGED <<pool, prepared, mode>>,
           \A g \in Generators : gpc'[g] = "prepare" <=> gpc[g] = "prepare",
           \A g \in Generators : gpc[g] = "prepare" => gpool'[g] = gpool[g],
           \A x \in Packets : x \notin Elements(gpool'[PacketOf[x]]) =>
             x \notin Elements(gpool[PacketOf[x]]) \/ pool[x] = PacketOf[x]
    PROVE  Preparing' /\ Prepared'
<1>1. Preparing'
  BY DEF IInv, Preparing
<1>2. \A x \in Packets : PacketOf[x] \in Generators
  BY PipelineAssumption
<1>3. Prepared'
  BY <1>2 DEF IInv, Prepared
<1> QED BY <1>1, <1>3

-----------------------------------------------------------------------------
(* packet_generator *)

(* Both generators fill the head of their pool and put it at the end. *)
LEMMA RotateStep ==
    ASSUME IInv, NEW g \in Generators, Rotate(g, Capacity),
           \/ mode = "generator" /\ pool' = [pool EXCEPT ![Head(gpool[g])] = g]
           \/ mode = "collector" /\ pool' = pool
    PROVE  IInv'
<1> USE DEF IInv
<1> DEFINE q == gpool[g]
           x == Head(q)
           r == Append(Tail(q), x)
           n == prepared[g]
<1>1. /\ gpc[g] = "prepare" /\ gpool' = [gpool EXCEPT ![g] = r]
      /\ prepared' = [prepared EXCEPT ![g] = n + 1]
      /\ gpc' = IF n + 1 = Capacity THEN [gpc EXCEPT ![g] = "take"] ELSE gpc
      /\ UNCHANGED <<ppool, pqueue, mqueue, ghand, next_thread_id, target, mode,
                     parVars, manVars, depth>>
  BY DEF Rotate, Goto
<1>2. UNCHANGED <<pbatch, fbatch, ppc, packet, mhand, mpc>>
  BY <1>1 DEF parVars, manVars
<1>3. /\ gpool \in [Generators -> Seq(Packets)] /\ q \in Seq(Packets) /\ Distinct(q)
      /\ Len(q) <= Capacity /\ gpc \in [Generators -> {"prepare", "take", "send", "return"}]
      /\ prepared \in [Generators -> 0..Capacity] /\ n \in 0..Capacity /\ n < Capacity
      /\ Capacity \in Nat /\ pool \in [Packets -> Generators \cup {NoPool}]
      /\ PacketsOf(g) \subseteq Elements(q) /\ \A y \in Elements(q) : PacketOf[y] = g
  BY ZenonT(40), <1>1, PipelineAssumption DEF TypeOK, PacketsApart, Preparing, Homes
<1>4. q # <<>>
  <2>1. Cardinality(PacketsOf(g)) # 0
    BY PipelineAssumption
  <2>2. PacketsOf(g) # {}
    BY <2>1, FS_EmptySet
  <2> QED BY <1>3, <2>2, Nothing
<1>5. /\ x \in Packets /\ x \in Elements(q) /\ Tail(q) \in Seq(Packets) /\ Len(Tail(q)) = Len(q) - 1
      /\ Distinct(Tail(q)) /\ Elements(Tail(q)) = Elements(q) \ {x}
  BY <1>3, <1>4, TakeHead
<1>6. /\ r \in Seq(Packets) /\ Len(r) = Len(Tail(q)) + 1 /\ Distinct(r)
      /\ Elements(r) = Elements(Tail(q)) \cup {x}
  <2>1. x \notin Elements(Tail(q))
    BY <1>5
  <2> DEFINE t == Tail(q)
  <2>2. t \in Seq(Packets) /\ Distinct(t) /\ x \notin Elements(t) /\ x \in Packets
    BY <1>5, <2>1
  <2> HIDE DEF x, q, t
  <2>3. /\ Append(t, x) \in Seq(Packets) /\ Len(Append(t, x)) = Len(t) + 1
        /\ Distinct(Append(t, x)) /\ Elements(Append(t, x)) = Elements(t) \cup {x}
    BY <2>2, AddLast
  <2> QED BY <2>3 DEF t
<1>7. Len(q) \in Nat /\ Len(r) = Len(q) /\ Elements(r) = Elements(q) /\ PacketOf[x] = g
  BY <1>3, <1>5, <1>6, LenProperties
<1>8. /\ DOMAIN r = 1..Len(q) /\ r[Len(q)] = x /\ DOMAIN q = 1..Len(q)
      /\ \A i \in 1..Len(q) : i # Len(q) => i + 1 \in DOMAIN q /\ r[i] = q[i + 1]
  <2>1. /\ \A i \in 1..Len(Tail(q)) : Tail(q)[i] = q[i + 1]
    BY <1>3, <1>4, HeadTailProperties
  <2>2. /\ \A i \in 1..Len(Tail(q)) : r[i] = Tail(q)[i]
        /\ r[Len(Tail(q)) + 1] = x
    BY <1>5, AppendProperties
  <2>3. DOMAIN r = 1..Len(q) /\ DOMAIN q = 1..Len(q)
    BY <1>3, <1>6, <1>7, LenProperties
  <2>4. Len(Tail(q)) + 1 = Len(q) /\ Len(Tail(q)) = Len(q) - 1
    BY <1>5, <1>7
  <2>5. r[Len(q)] = x
    BY <2>2, <2>4
  <2>6. ASSUME NEW i \in 1..Len(q), i # Len(q)
        PROVE  i + 1 \in 1..Len(q) /\ i \in 1..Len(Tail(q))
    BY <1>7, <2>4, <2>6
  <2> QED BY <2>1, <2>2, <2>3, <2>5, <2>6
<1> HIDE DEF q, x, r, n
<1>9. /\ gpool'[g] = r /\ prepared'[g] = n + 1
      /\ \A h \in Generators : h # g => /\ gpool'[h] = gpool[h] /\ prepared'[h] = prepared[h]
                                       /\ gpc'[h] = gpc[h]
      /\ gpc'[g] = IF n + 1 = Capacity THEN "take" ELSE "prepare"
  BY <1>1, <1>3
<1>10. \A h \in Generators : Elements(gpool'[h]) = Elements(gpool[h])
  BY <1>7, <1>9 DEF q
<1>11. /\ pool' \in [Packets -> Generators \cup {NoPool}]
       /\ \A y \in Packets : pool'[y] = pool[y] \/ (y = x /\ pool'[y] = g)
       /\ mode = "generator" => pool'[x] = g
  BY <1>3, <1>5 DEF x, q
<1>12. TypeOK'
  <2>1. gpool' \in [Generators -> Seq(Packets)]
    BY <1>1, <1>3, <1>6
  <2>2. \A h \in Generators : Len(gpool'[h]) <= Capacity
    BY <1>3, <1>7, <1>9 DEF TypeOK
  <2>3. prepared' \in [Generators -> 0..Capacity]
    <3>1. n + 1 \in 0..Capacity
      BY <1>3
    <3> QED BY <1>1, <1>3, <3>1
  <2>4. gpc' \in [Generators -> {"prepare", "take", "send", "return"}]
    BY <1>1, <1>3
  <2> QED BY <1>1, <1>2, <1>11, <2>1, <2>2, <2>3, <2>4 DEF TypeOK
<1>13. Phases'
  <2>1. \A h \in Generators : ghand'[h] # NoPacket <=> gpc'[h] \in {"send", "return"}
    BY <1>1, <1>9 DEF Phases
  <2> QED BY <1>2, <2>1 DEF Phases
<1>14. Homes'
  <2>1. UNCHANGED <<ghand, next_thread_id, target, pqueue, pbatch, ppool, fbatch>>
    BY <1>1, <1>2
  <2> QED BY <1>10, <2>1 DEF Homes
<1>15. ASSUME mode = "generator", NEW i \in DOMAIN r, i > Len(r) - (n + 1)
       PROVE  pool'[r[i]] = g
  <2>1. CASE i = Len(q)
    BY <1>8, <1>11, <1>15, <2>1
  <2>2. CASE i # Len(q)
    <3>1. i + 1 \in DOMAIN q /\ r[i] = q[i + 1]
      BY <1>8, <2>2
    <3>2. i + 1 > Len(q) - n
      <4>1. i \in 1..Len(q) /\ Len(q) \in Nat /\ n \in 0..Capacity /\ Capacity \in Nat
        BY <1>3, <1>7, <1>8
      <4>2. i > Len(q) - (n + 1)
        BY <1>7, <1>15
      <4> QED BY <4>1, <4>2
    <3>3. pool[q[i + 1]] = g
      BY <1>1, <1>15, <3>1, <3>2 DEF Preparing, q, n
    <3>4. q[i + 1] \in Packets
      BY <1>3, <1>8, <3>1, ElementOfSeq
    <3> QED BY <1>11, <3>1, <3>3, <3>4
  <2> QED BY <2>1, <2>2
<1>16. Preparing'
  <2>1. SUFFICES ASSUME NEW h \in Generators, gpc'[h] = "prepare"
                 PROVE  /\ prepared'[h] < Capacity
                        /\ PacketsOf(h) \subseteq Elements(gpool'[h])
                        /\ mode' = "generator" =>
                             \A i \in DOMAIN gpool'[h] :
                               i > Len(gpool'[h]) - prepared'[h] => pool'[gpool'[h][i]] = h
    BY DEF Preparing
  <2>2. CASE h = g
    <3>1. n + 1 < Capacity
      BY <1>3, <1>9, <2>1, <2>2
    <3> QED BY <1>1, <1>3, <1>7, <1>9, <1>15, <2>2, <3>1
  <2>3. CASE h # g
    <3>1. gpc[h] = "prepare" /\ gpool'[h] = gpool[h] /\ prepared'[h] = prepared[h] /\ mode' = mode
      BY <1>1, <1>9, <2>1, <2>3
    <3>2. \A i \in DOMAIN gpool[h] : gpool[h][i] \in Packets /\ gpool[h][i] # x
      <4>1. \A i \in DOMAIN gpool[h] : gpool[h][i] \in Elements(gpool[h])
        BY DEF Elements
      <4>2. Elements(gpool[h]) \subseteq Packets
        BY <1>3, ElementsOf
      <4> QED BY <1>7, <2>3, <4>1, <4>2 DEF Homes
    <3>3. \A i \in DOMAIN gpool[h] : pool'[gpool[h][i]] = pool[gpool[h][i]]
      BY <1>11, <3>2
    <3> QED BY <3>1, <3>3 DEF Preparing
  <2> QED BY <2>2, <2>3
<1>17. Prepared'
  <2>1. ASSUME NEW y \in Packets, y \notin Elements(gpool'[PacketOf[y]]) PROVE pool'[y] = PacketOf[y]
    <3>1. PacketOf[y] \in Generators
      BY PipelineAssumption
    <3>2. y \notin Elements(gpool[PacketOf[y]])
      BY <1>10, <2>1, <3>1
    <3>3. pool[y] = PacketOf[y]
      BY <3>2 DEF Prepared
    <3> QED BY <1>7, <1>11, <3>3
  <2>2. ASSUME mode = "generator", NEW y \in Packets, gpc'[PacketOf[y]] # "prepare"
        PROVE  pool'[y] = PacketOf[y]
    <3>1. PacketOf[y] \in Generators
      BY PipelineAssumption
    <3>2. CASE PacketOf[y] = g
      <4>1. n + 1 = Capacity
        BY <1>9, <2>2, <3>2
      <4>2. y \in Elements(r)
        BY <1>3, <1>7, <3>2 DEF PacketsOf
      <4>3. PICK i \in DOMAIN r : r[i] = y
        BY <4>2 DEF Elements
      <4>4. i > Len(r) - (n + 1)
        <5>1. i \in 1..Len(q) /\ Len(q) \in Nat /\ Len(q) <= Capacity /\ Len(r) = Len(q)
          BY <1>3, <1>7, <1>8, <4>3
        <5>2. i > Len(q) - Capacity
          BY <1>3, <5>1
        <5> QED BY <4>1, <5>1, <5>2
      <4> QED BY <1>15, <2>2, <3>2, <4>3, <4>4
    <3>3. CASE PacketOf[y] # g
      <4>1. gpc[PacketOf[y]] # "prepare"
        BY <1>9, <2>2, <3>1, <3>3
      <4>2. pool[y] = PacketOf[y] /\ y # x
        BY <1>7, <2>2, <3>3, <4>1 DEF Prepared
      <4> QED BY <1>11, <4>2
    <3> QED BY <3>2, <3>3
  <2> QED BY <1>1, <2>1, <2>2 DEF Prepared
<1>18. FlowsApart'
  BY <1>1, <1>2, FlowsKept
<1>19. PacketsApart'
  <2>1. Owning' = Owning /\ Carried' = Carried /\ packet' = packet
    BY <1>1, <1>2, CarriedKept
  <2>2. \A h \in Generators : Distinct(gpool'[h])
    BY <1>6, <1>9 DEF PacketsApart
  <2>3. Partition(PacketsAt(gpool', ghand, pqueue, pbatch, Carried), Packets)
    BY <1>10, SamePackets DEF PacketsApart
  <2> QED BY <1>1, <1>2, <2>1, <2>2, <2>3 DEF PacketsApart
<1> QED BY <1>12, <1>13, <1>14, <1>16, <1>17, <1>18, <1>19

(* A whole modulus more leaves the remainder. *)
LEMMA ModShift ==
    ASSUME NEW m \in Nat \ {0}, NEW n \in Nat PROVE (n + m) % m = n % m
<1> DEFINE a == (n + m) \div m
           b == n \div m
           r == (n + m) % m
           t == n % m
           d == a - b - 1
<1>1. /\ a \in Int /\ b \in Int /\ r \in 0..(m - 1) /\ t \in 0..(m - 1)
      /\ n + m = m * a + r /\ n = m * b + t
  BY SMT
<1> HIDE DEF a, b, r, t
<1>2. d \in Int /\ m * d = t - r
  BY <1>1, SMT
<1> HIDE DEF d
<1>3. d # 0 => m * d >= m \/ m * d <= -m
  BY <1>2, SMT
<1>4. t - r < m /\ t - r > -m
  BY <1>1
<1>5. d = 0
  BY <1>2, <1>3, <1>4
<1>6. t = r
  BY <1>1, <1>2, <1>5
<1> QED BY <1>6 DEF t, r

(* A generator stays with the parsers congruent to it. *)
LEMMA NextParserCongruent ==
    ASSUME NEW g \in Generators, NEW n \in Parsers, n % GNums = g
    PROVE  /\ NextParser(g, n) \in Parsers /\ NextParser(g, n) % GNums = g
           /\ g \in Parsers /\ g % GNums = g
<1>1. /\ GNums \in Nat /\ GNums > 0 /\ PNums \in Nat /\ GNums <= PNums
      /\ g \in Nat /\ g < GNums /\ n \in Nat /\ n < PNums
  BY PipelineAssumption DEF Generators, Parsers
<1>2. g % GNums = g /\ g \in Parsers
  BY <1>1 DEF Parsers
<1>3. (n + GNums) % GNums = n % GNums
  <2>1. GNums \in Nat \ {0}
    BY <1>1
  <2> QED BY <1>1, <2>1, ModShift
<1>4. n + GNums < PNums => n + GNums \in Parsers
  BY <1>1 DEF Parsers
<1> QED BY <1>2, <1>3, <1>4 DEF NextParser

(* The head of the pool leaves it and is in its generator's hand. *)
LEMMA TakePacketStep ==
    ASSUME IInv, NEW g \in Generators, TakePacket(g),
           \/ mode = "generator" /\ pool' = pool
           \/ mode = "collector" /\ pool' = [pool EXCEPT ![Head(gpool[g])] = g]
    PROVE  IInv'
<1> USE DEF IInv
<1> DEFINE q == gpool[g]
           x == Head(q)
           t == Tail(q)
<1>1. /\ gpc[g] = "take" /\ q # <<>> /\ gpool' = [gpool EXCEPT ![g] = t]
      /\ ghand' = [ghand EXCEPT ![g] = x]
      /\ \/ /\ target' = [target EXCEPT ![g] = next_thread_id[g]]
            /\ next_thread_id' = [next_thread_id EXCEPT ![g] = NextParser(g, next_thread_id[g])]
            /\ gpc' = [gpc EXCEPT ![g] = "send"]
         \/ /\ gpc' = [gpc EXCEPT ![g] = "return"]
            /\ UNCHANGED <<target, next_thread_id>>
      /\ UNCHANGED <<ppool, pqueue, mqueue, prepared, mode, depth>>
      /\ UNCHANGED <<pbatch, fbatch, ppc, packet, mhand, mpc>>
  BY DEF TakePacket, Goto, parVars, manVars
<1>2. /\ gpool \in [Generators -> Seq(Packets)] /\ q \in Seq(Packets) /\ Distinct(q)
      /\ Len(q) <= Capacity /\ gpc \in [Generators -> {"prepare", "take", "send", "return"}]
      /\ ghand \in [Generators -> Packets \cup {NoPacket}]
      /\ pool \in [Packets -> Generators \cup {NoPool}]
      /\ next_thread_id \in [Generators -> Parsers] /\ target \in [Generators -> Parsers]
      /\ Capacity \in Nat /\ \A y \in Elements(q) : PacketOf[y] = g
      /\ ghand[g] = NoPacket
  <2>1. ghand[g] = NoPacket
    BY <1>1 DEF Phases
  <2>2. Distinct(q) /\ \A y \in Elements(q) : PacketOf[y] = g
    BY DEF PacketsApart, Homes
  <2> QED BY <2>1, <2>2, PipelineAssumption DEF TypeOK
<1>3. /\ x \in Packets /\ x \in Elements(q) /\ t \in Seq(Packets) /\ Len(t) = Len(q) - 1
      /\ Distinct(t) /\ Elements(t) = Elements(q) \ {x}
  BY <1>1, <1>2, TakeHead
<1>4. PacketOf[x] = g /\ x # NoPacket /\ Len(q) \in Nat
  BY <1>2, <1>3, PipelineAssumption, LenProperties
<1> HIDE DEF q, x, t
<1>5. /\ gpool'[g] = t /\ ghand'[g] = x /\ gpc'[g] \in {"send", "return"}
      /\ \A h \in Generators : h # g => /\ gpool'[h] = gpool[h] /\ ghand'[h] = ghand[h]
                                       /\ gpc'[h] = gpc[h] /\ target'[h] = target[h]
                                       /\ next_thread_id'[h] = next_thread_id[h]
  BY <1>1, <1>2
<1>6. /\ next_thread_id' \in [Generators -> Parsers] /\ target' \in [Generators -> Parsers]
      /\ next_thread_id'[g] % GNums = g /\ target'[g] % GNums = g
  <2>1. next_thread_id[g] \in Parsers /\ next_thread_id[g] % GNums = g /\ target[g] % GNums = g
    BY <1>2 DEF Homes
  <2>2. /\ NextParser(g, next_thread_id[g]) \in Parsers
        /\ NextParser(g, next_thread_id[g]) % GNums = g
    BY <2>1, NextParserCongruent
  <2>3. CASE /\ target' = [target EXCEPT ![g] = next_thread_id[g]]
             /\ next_thread_id' = [next_thread_id EXCEPT ![g] = NextParser(g, next_thread_id[g])]
    BY <1>2, <2>1, <2>2, <2>3
  <2>4. CASE UNCHANGED <<target, next_thread_id>>
    BY <1>2, <2>1, <2>4
  <2> QED BY <1>1, <2>3, <2>4
<1>7. /\ pool' \in [Packets -> Generators \cup {NoPool}]
      /\ \A y \in Packets : y # x => pool'[y] = pool[y]
      /\ pool'[x] = g
  <2>1. mode = "generator" => pool[x] = g
    BY <1>1, <1>3, <1>4 DEF Prepared
  <2> QED BY <1>2, <1>3, <2>1 DEF x, q
<1>8. TypeOK'
  <2>1. gpool' \in [Generators -> Seq(Packets)] /\ ghand' \in [Generators -> Packets \cup {NoPacket}]
    BY <1>1, <1>2, <1>3
  <2>2. \A h \in Generators : Len(gpool'[h]) <= Capacity
    <3>1. Len(t) <= Capacity
      BY <1>2, <1>3, <1>4
    <3> QED BY <1>5, <3>1 DEF TypeOK
  <2>3. gpc' \in [Generators -> {"prepare", "take", "send", "return"}]
    BY <1>1, <1>2
  <2> QED BY <1>1, <1>6, <1>7, <2>1, <2>2, <2>3 DEF TypeOK
<1>9. Phases'
  <2>1. \A h \in Generators : ghand'[h] # NoPacket <=> gpc'[h] \in {"send", "return"}
    BY <1>4, <1>5 DEF Phases
  <2> QED BY <1>1, <2>1 DEF Phases
<1>10. Homes'
  <2>1. \A h \in Generators : /\ \A y \in Elements(gpool'[h]) : PacketOf[y] = h
                              /\ ghand'[h] # NoPacket => PacketOf[ghand'[h]] = h
                              /\ next_thread_id'[h] % GNums = h /\ target'[h] % GNums = h
    <3>1. ASSUME NEW h \in Generators, h # g
          PROVE  /\ \A y \in Elements(gpool'[h]) : PacketOf[y] = h
                 /\ ghand'[h] # NoPacket => PacketOf[ghand'[h]] = h
                 /\ next_thread_id'[h] % GNums = h /\ target'[h] % GNums = h
      BY <1>5, <3>1 DEF Homes
    <3>2. \A y \in Elements(gpool'[g]) : PacketOf[y] = g
      BY <1>2, <1>3, <1>5
    <3> QED BY <1>4, <1>5, <1>6, <3>1, <3>2
  <2> QED BY <1>1, <2>1 DEF Homes
<1>11. Preparing'
  <2>1. SUFFICES ASSUME NEW h \in Generators, gpc'[h] = "prepare"
                 PROVE  /\ prepared'[h] < Capacity
                        /\ PacketsOf(h) \subseteq Elements(gpool'[h])
                        /\ mode' = "generator" =>
                             \A i \in DOMAIN gpool'[h] :
                               i > Len(gpool'[h]) - prepared'[h] => pool'[gpool'[h][i]] = h
    BY DEF Preparing
  <2>2. h # g /\ gpc[h] = "prepare" /\ gpool'[h] = gpool[h] /\ prepared' = prepared /\ mode' = mode
    BY <1>1, <1>5, <2>1
  <2>3. \A i \in DOMAIN gpool[h] : gpool[h][i] \in Packets /\ gpool[h][i] # x
    <3>1. \A i \in DOMAIN gpool[h] : gpool[h][i] \in Elements(gpool[h])
      BY DEF Elements
    <3>2. Elements(gpool[h]) \subseteq Packets
      BY <1>2, ElementsOf
    <3> QED BY <1>4, <2>2, <3>1, <3>2 DEF Homes
  <2>4. \A i \in DOMAIN gpool[h] : pool'[gpool[h][i]] = pool[gpool[h][i]]
    BY <1>7, <2>3
  <2> QED BY <2>2, <2>4 DEF Preparing
<1>12. Prepared'
  <2>1. ASSUME NEW y \in Packets, y \notin Elements(gpool'[PacketOf[y]]) PROVE pool'[y] = PacketOf[y]
    <3>1. PacketOf[y] \in Generators
      BY PipelineAssumption
    <3>2. CASE y = x
      BY <1>4, <1>7, <3>2
    <3>3. CASE y # x
      <4>1. y \notin Elements(gpool[PacketOf[y]])
        BY <1>3, <1>5, <2>1, <3>1, <3>3 DEF q
      <4> QED BY <1>7, <3>3, <4>1 DEF Prepared
    <3> QED BY <3>2, <3>3
  <2>2. ASSUME mode = "generator", NEW y \in Packets, gpc'[PacketOf[y]] # "prepare"
        PROVE  pool'[y] = PacketOf[y]
    <3>1. PacketOf[y] \in Generators
      BY PipelineAssumption
    <3>2. gpc[PacketOf[y]] # "prepare"
      BY <1>1, <1>5, <2>2, <3>1
    <3>3. pool[y] = PacketOf[y]
      BY <2>2, <3>2 DEF Prepared
    <3> QED BY <1>4, <1>7, <3>3
  <2> QED BY <1>1, <2>1, <2>2 DEF Prepared
<1>13. FlowsApart'
  BY <1>1, FlowsKept
<1>14. PacketsApart'
  <2>1. Owning' = Owning /\ Carried' = Carried /\ packet' = packet
    BY <1>1, CarriedKept
  <2>2. \A h \in Generators : Distinct(gpool'[h])
    BY <1>3, <1>5 DEF PacketsApart
  <2> DEFINE from == <<"gpool", g>>
             to == <<"ghand", g>>
             X == {x}
  <2>3. /\ from \in PacketPlace /\ to \in PacketPlace /\ from # to
        /\ X \subseteq PacketsAt(gpool, ghand, pqueue, pbatch, Carried)[from]
    BY <1>3, PacketsAtEach DEF q
  <2>4. ASSUME NEW h \in Generators
        PROVE  /\ Elements(gpool'[h]) = Moved(<<"gpool", h>>, Elements(gpool[h]), from, to, X)
               /\ {ghand'[h]} \ {NoPacket} = Moved(<<"ghand", h>>, {ghand[h]} \ {NoPacket}, from, to, X)
    BY ZenonT(40), <1>2, <1>3, <1>4, <1>5 DEF Moved, q
  <2>5. ASSUME NEW p \in Parsers
        PROVE  /\ Elements(pqueue'[p]) = Moved(<<"pqueue", p>>, Elements(pqueue[p]), from, to, X)
               /\ Elements(pbatch'[p]) = Moved(<<"pbatch", p>>, Elements(pbatch[p]), from, to, X)
    BY <1>1 DEF Moved
  <2>6. Carried' = Moved(<<"flow", 0>>, Carried, from, to, X)
    BY <2>1 DEF Moved
  <2>7. Partition(PacketsAt(gpool, ghand, pqueue, pbatch, Carried), Packets)
    BY DEF PacketsApart
  <2> HIDE DEF from, to, X
  <2>8. Partition(PacketsAt(gpool', ghand', pqueue', pbatch', Carried'), Packets)
    <3>1. PacketsMoved(gpool, ghand, pqueue, pbatch, Carried,
                       gpool', ghand', pqueue', pbatch', Carried', from, to, X)
      BY <2>3, <2>4, <2>5, <2>6 DEF PacketsMoved
    <3> QED BY <2>7, <3>1, MovePackets
  <2> QED BY <1>1, <2>1, <2>2, <2>8 DEF PacketsApart
<1> QED BY <1>8, <1>9, <1>10, <1>11, <1>12, <1>13, <1>14

(* Packets that arrive in their pool leave it in order. *)
LEMMA PoolGains ==
    ASSUME IInv, NEW h \in Generators, NEW r \in Seq(Packets), NEW X,
           gpool' = [gpool EXCEPT ![h] = r], Len(r) <= Capacity, Distinct(r),
           Elements(r) = Elements(gpool[h]) \cup X, \A x \in X : PacketOf[x] = h,
           gpc[h] # "prepare", UNCHANGED <<pool, prepared, mode>>,
           \A g \in Generators : gpc'[g] = "prepare" <=> gpc[g] = "prepare"
    PROVE  /\ gpool' \in [Generators -> Seq(Packets)]
           /\ \A g \in Generators : /\ Len(gpool'[g]) <= Capacity /\ Distinct(gpool'[g])
                                    /\ \A x \in Elements(gpool'[g]) : PacketOf[x] = g
                                    /\ Elements(gpool'[g]) = IF g = h THEN Elements(gpool[g]) \cup X
                                                             ELSE Elements(gpool[g])
           /\ Preparing' /\ Prepared'
<1>1. gpool \in [Generators -> Seq(Packets)] /\ \A g \in Generators : Len(gpool[g]) <= Capacity
  BY DEF IInv, TypeOK
<1>2. gpool'[h] = r /\ \A g \in Generators : g # h => gpool'[g] = gpool[g]
  BY <1>1
<1>3. gpool' \in [Generators -> Seq(Packets)]
  BY <1>1
<1>4. \A g \in Generators : Len(gpool'[g]) <= Capacity /\ Distinct(gpool'[g])
  BY <1>1, <1>2 DEF IInv, PacketsApart
<1>5. \A g \in Generators : Elements(gpool'[g]) = IF g = h THEN Elements(gpool[g]) \cup X
                                                  ELSE Elements(gpool[g])
  <2>1. Elements(gpool'[h]) = Elements(gpool[h]) \cup X
    BY <1>2
  <2>2. ASSUME NEW g \in Generators, g # h PROVE Elements(gpool'[g]) = Elements(gpool[g])
    BY <1>2, <2>2
  <2> QED BY <2>1, <2>2
<1>6. \A g \in Generators : \A x \in Elements(gpool'[g]) : PacketOf[x] = g
  BY <1>5 DEF IInv, Homes
<1>7. \A g \in Generators : gpc[g] = "prepare" => gpool'[g] = gpool[g]
  BY <1>2
<1>8. ASSUME NEW x \in Packets, x \notin Elements(gpool'[PacketOf[x]])
      PROVE  x \notin Elements(gpool[PacketOf[x]])
  <2>1. PacketOf[x] \in Generators
    BY PipelineAssumption
  <2> QED BY <1>5, <1>8, <2>1
<1>9. Preparing' /\ Prepared'
  BY <1>7, <1>8, PreparationKept
<1> QED BY <1>3, <1>4, <1>5, <1>6, <1>9

(* The places of a parser, *)
LEMMA AtParser ==
    ASSUME NEW p \in Parsers
    PROVE  /\ <<"pqueue", p>> \in PacketPlace /\ <<"pbatch", p>> \in PacketPlace
           /\ PacketsAt(gpool, ghand, pqueue, pbatch, Carried)[<<"pqueue", p>>] = Elements(pqueue[p])
           /\ PacketsAt(gpool, ghand, pqueue, pbatch, Carried)[<<"pbatch", p>>] = Elements(pbatch[p])
           /\ <<"ppool", p>> \in FlowPlace /\ <<"fbatch", p>> \in FlowPlace
           /\ FlowsAt(ppool, fbatch, mqueue, mhand)[<<"ppool", p>>] = Elements(ppool[p])
           /\ FlowsAt(ppool, fbatch, mqueue, mhand)[<<"fbatch", p>>] = Elements(fbatch[p])
<1>1. /\ <<"pqueue", p>> \in PacketPlace /\ <<"pbatch", p>> \in PacketPlace
      /\ <<"ppool", p>> \in FlowPlace /\ <<"fbatch", p>> \in FlowPlace
  BY DEF PacketPlace, FlowPlace
<1>2. /\ PacketsAt(gpool, ghand, pqueue, pbatch, Carried)[<<"pqueue", p>>] = Elements(pqueue[p])
      /\ PacketsAt(gpool, ghand, pqueue, pbatch, Carried)[<<"pbatch", p>>] = Elements(pbatch[p])
  BY <1>1 DEF PacketsAt
<1>3. /\ FlowsAt(ppool, fbatch, mqueue, mhand)[<<"ppool", p>>] = Elements(ppool[p])
      /\ FlowsAt(ppool, fbatch, mqueue, mhand)[<<"fbatch", p>>] = Elements(fbatch[p])
  BY <1>1 DEF FlowsAt
<1> QED BY <1>1, <1>2, <1>3

(* a manager, *)
LEMMA AtManager ==
    ASSUME NEW m \in Managers
    PROVE  /\ <<"mqueue", m>> \in FlowPlace /\ <<"mhand", m>> \in FlowPlace
           /\ FlowsAt(ppool, fbatch, mqueue, mhand)[<<"mqueue", m>>] = Elements(mqueue[m])
           /\ FlowsAt(ppool, fbatch, mqueue, mhand)[<<"mhand", m>>] = Elements(mhand[m])
<1>1. <<"mqueue", m>> \in FlowPlace /\ <<"mhand", m>> \in FlowPlace
  BY DEF FlowPlace
<1> QED BY <1>1 DEF FlowsAt

(* and a generator's hand. *)
LEMMA HandPlace ==
    ASSUME NEW g \in Generators, ghand[g] # NoPacket
    PROVE  {ghand[g]} \subseteq PacketsAt(gpool, ghand, pqueue, pbatch, Carried)[<<"ghand", g>>]
<1> DEFINE A == PacketsAt(gpool, ghand, pqueue, pbatch, Carried)
<1>1. A[<<"ghand", g>>] = {ghand[g]} \ {NoPacket}
  <2>1. <<"ghand", g>> \in PacketPlace
    BY DEF PacketPlace
  <2> QED BY <2>1 DEF PacketsAt
<1> HIDE DEF A
<1>2. {ghand[g]} \subseteq A[<<"ghand", g>>]
  BY <1>1
<1> QED BY <1>2 DEF A

(* The packet in hand goes to a queue of the generator's own. *)
LEMMA SendPacketStep ==
    ASSUME IInv, NEW g \in Generators, SendPacket(g)
    PROVE  IInv'
<1> USE DEF IInv
<1> DEFINE x == ghand[g]
           t == target[g]
           q == pqueue[t]
           r == Append(q, x)
<1>1. /\ gpc[g] = "send" /\ Len(q) + 1 <= Capacity /\ pqueue' = [pqueue EXCEPT ![t] = r]
      /\ ghand' = [ghand EXCEPT ![g] = NoPacket] /\ target' = [target EXCEPT ![g] = g]
      /\ gpc' = [gpc EXCEPT ![g] = "take"]
      /\ UNCHANGED <<gpool, ppool, mqueue, prepared, next_thread_id, pool, mode, depth>>
      /\ UNCHANGED <<pbatch, fbatch, ppc, packet, mhand, mpc>>
  BY DEF SendPacket, Room, Goto, parVars, manVars
<1>2. /\ pqueue \in [Parsers -> Seq(Packets)] /\ gpc \in [Generators -> {"prepare", "take", "send", "return"}]
      /\ ghand \in [Generators -> Packets \cup {NoPacket}] /\ target \in [Generators -> Parsers]
      /\ t \in Parsers /\ t % GNums = g /\ q \in Seq(Packets) /\ Distinct(q)
      /\ x # NoPacket /\ x \in Packets /\ PacketOf[x] = g
  <2>1. x # NoPacket
    BY <1>1 DEF Phases
  <2>2. ghand \in [Generators -> Packets \cup {NoPacket}] /\ target \in [Generators -> Parsers]
    BY DEF TypeOK
  <2>3. x \in Packets /\ PacketOf[x] = g /\ t \in Parsers /\ t % GNums = g
    BY <2>1, <2>2 DEF Homes
  <2>4. Distinct(q)
    BY <2>3 DEF PacketsApart
  <2> QED BY <2>1, <2>2, <2>3, <2>4 DEF TypeOK
<1>3. x \notin Elements(q)
  BY <1>2, PacketOnce
<1>4. g \in Parsers /\ g % GNums = g
  BY <1>2, NextParserCongruent
<1> HIDE DEF x, t, q
<1>5. r \in Seq(Packets) /\ Len(r) = Len(q) + 1 /\ Distinct(r) /\ Elements(r) = Elements(q) \cup {x}
  BY <1>2, <1>3, AddLast
<1> HIDE DEF r
<1>6. /\ pqueue'[t] = r /\ \A p \in Parsers : p # t => pqueue'[p] = pqueue[p]
      /\ ghand'[g] = NoPacket /\ gpc'[g] = "take" /\ target'[g] = g
      /\ \A h \in Generators : h # g => ghand'[h] = ghand[h] /\ gpc'[h] = gpc[h] /\ target'[h] = target[h]
  BY <1>1, <1>2
<1>7. TypeOK'
  <2>1. pqueue' \in [Parsers -> Seq(Packets)] /\ ghand' \in [Generators -> Packets \cup {NoPacket}]
    BY <1>1, <1>2, <1>5
  <2>2. \A p \in Parsers : Len(pqueue'[p]) <= Capacity
    <3>1. Len(r) <= Capacity
      BY <1>1, <1>5
    <3> QED BY <1>6, <3>1 DEF TypeOK
  <2>3. target' \in [Generators -> Parsers] /\ gpc' \in [Generators -> {"prepare", "take", "send", "return"}]
    BY <1>1, <1>2, <1>4
  <2> QED BY <1>1, <2>1, <2>2, <2>3 DEF TypeOK
<1>8. Phases'
  <2>1. \A h \in Generators : ghand'[h] # NoPacket <=> gpc'[h] \in {"send", "return"}
    BY <1>6 DEF Phases
  <2> QED BY <1>1, <2>1 DEF Phases
<1>9. Homes'
  <2>1. \A h \in Generators : /\ ghand'[h] # NoPacket => PacketOf[ghand'[h]] = h
                              /\ target'[h] % GNums = h
    BY <1>4, <1>6 DEF Homes
  <2>2. \A p \in Parsers : \A y \in Elements(pqueue'[p]) : PacketOf[y] = p % GNums
    BY ZenonT(40), <1>2, <1>5, <1>6 DEF Homes, q
  <2> QED BY <1>1, <2>1, <2>2 DEF Homes
<1>10. Preparing' /\ Prepared'
  <2>1. \A h \in Generators : gpc'[h] = "prepare" <=> gpc[h] = "prepare"
    BY <1>1, <1>6
  <2> QED BY <1>1, <2>1, PreparationKept
<1>11. FlowsApart'
  BY <1>1, FlowsKept
<1>12. PacketsApart'
  <2>1. Owning' = Owning /\ Carried' = Carried /\ packet' = packet
    BY <1>1, CarriedKept
  <2>2. \A p \in Parsers : Distinct(pqueue'[p])
    BY <1>5, <1>6 DEF PacketsApart
  <2> DEFINE from == <<"ghand", g>>
             to == <<"pqueue", t>>
             X == {x}
  <2>3. /\ from \in PacketPlace /\ to \in PacketPlace /\ from # to
        /\ X \subseteq PacketsAt(gpool, ghand, pqueue, pbatch, Carried)[from]
    <3>1. from \in PacketPlace /\ to \in PacketPlace
      BY <1>2, PacketsAtEach
    <3>2. X \subseteq PacketsAt(gpool, ghand, pqueue, pbatch, Carried)[from]
      BY <1>2, HandPlace DEF x
    <3> QED BY <1>2, <3>1, <3>2 DEF x
  <2>4. ASSUME NEW h \in Generators
        PROVE  /\ Elements(gpool'[h]) = Moved(<<"gpool", h>>, Elements(gpool[h]), from, to, X)
               /\ {ghand'[h]} \ {NoPacket} = Moved(<<"ghand", h>>, {ghand[h]} \ {NoPacket}, from, to, X)
    BY <1>1, <1>6 DEF Moved, x
  <2>5. ASSUME NEW p \in Parsers
        PROVE  /\ Elements(pqueue'[p]) = Moved(<<"pqueue", p>>, Elements(pqueue[p]), from, to, X)
               /\ Elements(pbatch'[p]) = Moved(<<"pbatch", p>>, Elements(pbatch[p]), from, to, X)
    <3>1. Elements(pqueue'[p]) = IF p = t THEN Elements(pqueue[p]) \cup X ELSE Elements(pqueue[p])
      BY <1>5, <1>6 DEF q
    <3> HIDE DEF X
    <3>2. <<"pqueue", p>> # from /\ (<<"pqueue", p>> = to <=> p = t)
      OBVIOUS
    <3> QED BY <1>1, <3>1, <3>2 DEF Moved
  <2>6. Carried' = Moved(<<"flow", 0>>, Carried, from, to, X)
    BY <2>1 DEF Moved
  <2>7. Partition(PacketsAt(gpool, ghand, pqueue, pbatch, Carried), Packets)
    BY DEF PacketsApart
  <2> HIDE DEF from, to, X
  <2>8. Partition(PacketsAt(gpool', ghand', pqueue', pbatch', Carried'), Packets)
    <3>1. PacketsMoved(gpool, ghand, pqueue, pbatch, Carried,
                       gpool', ghand', pqueue', pbatch', Carried', from, to, X)
      BY <2>3, <2>4, <2>5, <2>6 DEF PacketsMoved
    <3> QED BY <2>7, <3>1, MovePackets
  <2> QED BY <1>1, <2>1, <2>2, <2>8 DEF PacketsApart
<1> QED BY <1>7, <1>8, <1>9, <1>10, <1>11, <1>12

(* The packet in hand goes back to the pool it names, the generator's own. *)
LEMMA ReturnPacketStep ==
    ASSUME IInv, NEW g \in Generators, ReturnPacket(g)
    PROVE  IInv'
<1> USE DEF IInv
<1> DEFINE x == ghand[g]
           q == gpool[g]
           r == Append(q, x)
<1>1. /\ gpc[g] = "return" /\ Len(gpool[pool[x]]) + 1 <= Capacity
      /\ gpool' = [gpool EXCEPT ![pool[x]] = Append(gpool[pool[x]], x)]
      /\ ghand' = [ghand EXCEPT ![g] = NoPacket] /\ gpc' = [gpc EXCEPT ![g] = "take"]
      /\ UNCHANGED <<ppool, pqueue, mqueue, prepared, next_thread_id, target, pool, mode, depth>>
      /\ UNCHANGED <<pbatch, fbatch, ppc, packet, mhand, mpc>>
  BY DEF ReturnPacket, Room, Goto, parVars, manVars
<1>2. /\ gpool \in [Generators -> Seq(Packets)] /\ gpc \in [Generators -> {"prepare", "take", "send", "return"}]
      /\ ghand \in [Generators -> Packets \cup {NoPacket}] /\ q \in Seq(Packets) /\ Distinct(q)
      /\ x # NoPacket /\ x \in Packets /\ PacketOf[x] = g
  <2>1. x # NoPacket
    BY <1>1 DEF Phases
  <2>2. ghand \in [Generators -> Packets \cup {NoPacket}]
    BY DEF TypeOK
  <2>3. x \in Packets /\ PacketOf[x] = g
    BY <2>1, <2>2 DEF Homes
  <2>4. Distinct(q)
    BY DEF PacketsApart
  <2> QED BY <2>1, <2>2, <2>3, <2>4 DEF TypeOK
<1>3. x \notin Elements(q)
  <2>1. PICK p \in Parsers : TRUE
    BY PipelineAssumption DEF Parsers
  <2> QED BY <1>2, <2>1, PacketOnce
<1>4. pool[x] = g
  BY <1>2, <1>3, KnowsHome
<1> HIDE DEF x, q
<1>5. r \in Seq(Packets) /\ Len(r) = Len(q) + 1 /\ Distinct(r) /\ Elements(r) = Elements(q) \cup {x}
  BY <1>2, <1>3, AddLast
<1>6. gpool' = [gpool EXCEPT ![g] = r] /\ Len(r) <= Capacity
  BY <1>1, <1>4, <1>5 DEF q
<1> HIDE DEF r
<1>7. /\ ghand'[g] = NoPacket /\ gpc'[g] = "take"
      /\ \A h \in Generators : h # g => ghand'[h] = ghand[h] /\ gpc'[h] = gpc[h]
  BY <1>1, <1>2
<1> DEFINE X == {x}
<1>8. Elements(r) = Elements(gpool[g]) \cup X /\ \A y \in X : PacketOf[y] = g
  BY <1>2, <1>5 DEF q
<1> HIDE DEF X
<1>9. /\ gpool' \in [Generators -> Seq(Packets)]
      /\ \A h \in Generators : /\ Len(gpool'[h]) <= Capacity /\ Distinct(gpool'[h])
                               /\ \A y \in Elements(gpool'[h]) : PacketOf[y] = h
                               /\ Elements(gpool'[h]) = IF h = g THEN Elements(gpool[h]) \cup X
                                                        ELSE Elements(gpool[h])
      /\ Preparing' /\ Prepared'
  <2>1. gpc[g] # "prepare" /\ \A h \in Generators : gpc'[h] = "prepare" <=> gpc[h] = "prepare"
    BY <1>1, <1>7
  <2>2. UNCHANGED <<pool, prepared, mode>>
    BY <1>1
  <2> QED BY <1>5, <1>6, <1>8, <2>1, <2>2, PoolGains
<1>10. TypeOK'
  <2>1. ghand' \in [Generators -> Packets \cup {NoPacket}] /\ gpc' \in [Generators -> {"prepare", "take", "send", "return"}]
    BY <1>1, <1>2
  <2> QED BY <1>1, <1>9, <2>1 DEF TypeOK
<1>11. Phases'
  <2>1. \A h \in Generators : ghand'[h] # NoPacket <=> gpc'[h] \in {"send", "return"}
    BY <1>7 DEF Phases
  <2> QED BY <1>1, <2>1 DEF Phases
<1>12. Homes'
  <2>1. \A h \in Generators : ghand'[h] # NoPacket => PacketOf[ghand'[h]] = h
    BY <1>7 DEF Homes
  <2> QED BY <1>1, <1>9, <2>1 DEF Homes
<1>13. FlowsApart'
  BY <1>1, FlowsKept
<1>14. PacketsApart'
  <2>1. Owning' = Owning /\ Carried' = Carried /\ packet' = packet
    BY <1>1, CarriedKept
  <2> DEFINE from == <<"ghand", g>>
             to == <<"gpool", g>>
  <2>3. /\ from \in PacketPlace /\ to \in PacketPlace /\ from # to
        /\ X \subseteq PacketsAt(gpool, ghand, pqueue, pbatch, Carried)[from]
    BY <1>2, PacketsAtEach DEF x, X
  <2>4. ASSUME NEW h \in Generators
        PROVE  /\ Elements(gpool'[h]) = Moved(<<"gpool", h>>, Elements(gpool[h]), from, to, X)
               /\ {ghand'[h]} \ {NoPacket} = Moved(<<"ghand", h>>, {ghand[h]} \ {NoPacket}, from, to, X)
    BY <1>7, <1>9 DEF Moved, x, X
  <2>5. ASSUME NEW p \in Parsers
        PROVE  /\ Elements(pqueue'[p]) = Moved(<<"pqueue", p>>, Elements(pqueue[p]), from, to, X)
               /\ Elements(pbatch'[p]) = Moved(<<"pbatch", p>>, Elements(pbatch[p]), from, to, X)
    BY <1>1 DEF Moved
  <2>6. Carried' = Moved(<<"flow", 0>>, Carried, from, to, X)
    BY <2>1 DEF Moved
  <2>7. Partition(PacketsAt(gpool, ghand, pqueue, pbatch, Carried), Packets)
    BY DEF PacketsApart
  <2> HIDE DEF from, to
  <2>8. Partition(PacketsAt(gpool', ghand', pqueue', pbatch', Carried'), Packets)
    <3>1. PacketsMoved(gpool, ghand, pqueue, pbatch, Carried,
                       gpool', ghand', pqueue', pbatch', Carried', from, to, X)
      BY <2>3, <2>4, <2>5, <2>6 DEF PacketsMoved
    <3> QED BY <2>7, <3>1, MovePackets
  <2> QED BY <1>1, <1>9, <2>1, <2>8 DEF PacketsApart
<1> QED BY <1>9, <1>10, <1>11, <1>12, <1>13, <1>14

-----------------------------------------------------------------------------
(* packet_parser_loop *)

(* A batch is there when the dequeue function returns one, in either build. *)
LEMMA BatchThere ==
    ASSUME NEW S, NEW q \in Seq(S), HasBatch(q)
    PROVE  Count \in Nat /\ Count >= 1 /\ Len(q) \in Nat /\ Count <= Len(q)
<1>1. Count \in Nat /\ Count >= 1 /\ Len(q) \in Nat
  BY PipelineAssumption, LenProperties
<1> QED BY <1>1 DEF HasBatch

(* The parsers and managers leave the generators alone. *)
LEMMA GeneratorsKept ==
    ASSUME IInv, UNCHANGED <<gpool, pool, prepared, mode, gpc>>
    PROVE  Preparing' /\ Prepared'
BY PreparationKept

(* A queue's head of COUNT packets becomes the batch. *)
LEMMA TakeBatchStep ==
    ASSUME IInv, NEW p \in Parsers, TakeBatch(p)
    PROVE  IInv'
<1> USE DEF IInv
<1> DEFINE q == pqueue[p]
           a == First(q, Count)
           b == Rest(q, Count)
<1>1. /\ ppc[p] = "take" /\ HasBatch(q) /\ pbatch' = [pbatch EXCEPT ![p] = a]
      /\ pqueue' = [pqueue EXCEPT ![p] = b]
      /\ \/ ppc' = [ppc EXCEPT ![p] = "flows"]
         \/ ppc' = [ppc EXCEPT ![p] = "packets"]
      /\ UNCHANGED <<gpool, ppool, mqueue, fbatch, packet, mhand, mpc, depth>>
      /\ UNCHANGED <<ghand, gpc, prepared, next_thread_id, target, pool, mode>>
  BY DEF TakeBatch, Goto, genVars, manVars
<1>2. /\ pqueue \in [Parsers -> Seq(Packets)] /\ pbatch \in [Parsers -> Seq(Packets)]
      /\ ppc \in [Parsers -> {"take", "flows", "forward", "packets", "flowsback"}]
      /\ q \in Seq(Packets) /\ Distinct(q) /\ Len(q) <= Capacity
      /\ pbatch[p] = <<>> /\ fbatch[p] = <<>>
  <2>1. pbatch[p] = <<>> /\ fbatch[p] = <<>>
    BY <1>1 DEF Phases
  <2>2. Distinct(q)
    BY DEF PacketsApart
  <2> QED BY <2>1, <2>2 DEF TypeOK
<1>3. Count \in Nat /\ Count >= 1 /\ Len(q) \in Nat /\ Count <= Len(q) /\ Capacity \in Nat
  BY <1>1, <1>2, BatchThere, PipelineAssumption
<1>4. /\ a \in Seq(Packets) /\ b \in Seq(Packets) /\ Len(a) = Count /\ Len(b) = Len(q) - Count
      /\ Distinct(a) /\ Distinct(b) /\ Elements(a) \subseteq Elements(q)
      /\ Elements(b) = Elements(q) \ Elements(a)
  <2>1. q \in Seq(Packets) /\ Count \in Nat /\ Count <= Len(q) /\ Distinct(q)
    BY <1>2, <1>3
  <2> HIDE DEF IInv, q, a, b
  <2>2. /\ First(q, Count) \in Seq(Packets) /\ Rest(q, Count) \in Seq(Packets)
        /\ Len(First(q, Count)) = Count /\ Len(Rest(q, Count)) = Len(q) - Count
        /\ Distinct(First(q, Count)) /\ Distinct(Rest(q, Count))
        /\ Elements(First(q, Count)) \subseteq Elements(q)
        /\ Elements(Rest(q, Count)) = Elements(q) \ Elements(First(q, Count))
    BY <2>1, TakeFirst
  <2> QED BY <2>2 DEF a, b
<1> HIDE DEF q, a, b
<1>5. /\ pqueue'[p] = b /\ pbatch'[p] = a /\ ppc'[p] \in {"flows", "packets"}
      /\ \A o \in Parsers : o # p => pqueue'[o] = pqueue[o] /\ pbatch'[o] = pbatch[o] /\ ppc'[o] = ppc[o]
  BY <1>1, <1>2
<1>6. TypeOK'
  <2>1. pqueue' \in [Parsers -> Seq(Packets)] /\ pbatch' \in [Parsers -> Seq(Packets)]
    BY <1>1, <1>2, <1>4
  <2>2. \A o \in Parsers : Len(pqueue'[o]) <= Capacity
    <3>1. Len(b) <= Capacity
      BY <1>2, <1>3, <1>4
    <3> QED BY <1>5, <3>1 DEF TypeOK
  <2>3. ppc' \in [Parsers -> {"take", "flows", "forward", "packets", "flowsback"}]
    BY <1>1, <1>2
  <2> QED BY <1>1, <2>1, <2>2, <2>3 DEF TypeOK
<1>7. Phases'
  <2>1. ASSUME NEW o \in Parsers
        PROVE  /\ ppc'[o] \in {"take", "forward", "flowsback"} => pbatch'[o] = <<>>
               /\ ppc'[o] \in {"flows", "packets"} => Len(pbatch'[o]) = Count
               /\ ppc'[o] \in {"take", "flows"} => fbatch'[o] = <<>>
               /\ ppc'[o] = "forward" => fbatch'[o] # <<>>
               /\ ppc'[o] = "packets" => fbatch'[o] = <<>> \/ Len(fbatch'[o]) = Count
               /\ ppc'[o] = "flowsback" => Len(fbatch'[o]) = Count
    <3>1. CASE o = p
      BY <1>1, <1>2, <1>4, <1>5, <3>1
    <3>2. CASE o # p
      BY <1>1, <1>5, <3>2 DEF Phases
    <3> QED BY <3>1, <3>2
  <2> QED BY <1>1, <2>1 DEF Phases
<1>8. Homes'
  <2>1. \A o \in Parsers : /\ \A x \in Elements(pqueue'[o]) : PacketOf[x] = o % GNums
                           /\ \A x \in Elements(pbatch'[o]) : PacketOf[x] = o % GNums
    BY <1>4, <1>5 DEF Homes, q
  <2> QED BY <1>1, <2>1 DEF Homes
<1>9. Preparing' /\ Prepared'
  BY <1>1, GeneratorsKept
<1>10. FlowsApart'
  BY <1>1, FlowsKept
<1>11. PacketsApart'
  <2>1. Owning' = Owning
    <3>1. \A o \in Parsers : ppc'[o] = "forward" <=> ppc[o] = "forward"
      BY <1>1, <1>5
    <3> QED BY <1>1, <3>1 DEF Owning
  <2>2. Carried' = Carried
    BY <1>1, <2>1 DEF Carried
  <2>3. \A o \in Parsers : Distinct(pqueue'[o]) /\ Distinct(pbatch'[o])
    BY <1>4, <1>5 DEF PacketsApart
  <2> DEFINE from == <<"pqueue", p>>
             to == <<"pbatch", p>>
             X == Elements(a)
  <2>4. /\ from \in PacketPlace /\ to \in PacketPlace /\ from # to
        /\ X \subseteq PacketsAt(gpool, ghand, pqueue, pbatch, Carried)[from]
    BY <1>4, AtParser DEF q
  <2>5. Elements(pbatch[p]) = {}
    BY <1>2, Nothing
  <2>6. ASSUME NEW g \in Generators
        PROVE  /\ Elements(gpool'[g]) = Moved(<<"gpool", g>>, Elements(gpool[g]), from, to, X)
               /\ {ghand'[g]} \ {NoPacket} = Moved(<<"ghand", g>>, {ghand[g]} \ {NoPacket}, from, to, X)
    BY <1>1 DEF Moved
  <2>7. ASSUME NEW o \in Parsers
        PROVE  /\ Elements(pqueue'[o]) = Moved(<<"pqueue", o>>, Elements(pqueue[o]), from, to, X)
               /\ Elements(pbatch'[o]) = Moved(<<"pbatch", o>>, Elements(pbatch[o]), from, to, X)
    BY <1>4, <1>5, <2>5 DEF Moved, q
  <2>8. Carried' = Moved(<<"flow", 0>>, Carried, from, to, X)
    BY <2>2 DEF Moved
  <2> HIDE DEF from, to, X
  <2>9. Partition(PacketsAt(gpool', ghand', pqueue', pbatch', Carried'), Packets)
    <3>1. PacketsMoved(gpool, ghand, pqueue, pbatch, Carried,
                       gpool', ghand', pqueue', pbatch', Carried', from, to, X)
      BY <2>4, <2>6, <2>7, <2>8 DEF PacketsMoved
    <3>2. Partition(PacketsAt(gpool, ghand, pqueue, pbatch, Carried), Packets)
      BY DEF PacketsApart
    <3> QED BY <3>1, <3>2, MovePackets
  <2> QED BY <1>1, <2>1, <2>2, <2>3, <2>9 DEF PacketsApart
<1> QED BY <1>6, <1>7, <1>8, <1>9, <1>10, <1>11

(* What the packets' places depend on. *)
LEMMA PacketsKept ==
    ASSUME IInv, UNCHANGED <<gpool, ghand, pqueue, pbatch>>, Owning' = Owning,
           \A f \in Owning : packet'[f] = packet[f]
    PROVE  PacketsApart'
<1>1. Carried' = Carried
  BY DEF Carried
<1> QED BY <1>1 DEF IInv, PacketsApart

(* The first flow of the batch goes to a manager. *)
LEMMA ForwardFlowStep ==
    ASSUME IInv, NEW p \in Parsers, NEW m \in Managers, ForwardFlow(p, m)
    PROVE  IInv'
<1> USE DEF IInv
<1> DEFINE q == fbatch[p]
           f == Head(q)
           t == Tail(q)
           e == mqueue[m]
           r == Append(e, f)
<1>1. /\ ppc[p] = "forward" /\ Len(e) + 1 <= Capacity /\ mqueue' = [mqueue EXCEPT ![m] = r]
      /\ fbatch' = [fbatch EXCEPT ![p] = t]
      /\ ppc' = IF Len(q) = 1 THEN [ppc EXCEPT ![p] = "take"] ELSE ppc
      /\ UNCHANGED <<gpool, ppool, pqueue, pbatch, packet, mhand, mpc, depth>>
      /\ UNCHANGED <<ghand, gpc, prepared, next_thread_id, target, pool, mode>>
  BY DEF ForwardFlow, Room, Goto, genVars, manVars
<1>2. /\ fbatch \in [Parsers -> Seq(FlowItems)] /\ mqueue \in [Managers -> Seq(FlowItems)]
      /\ ppc \in [Parsers -> {"take", "flows", "forward", "packets", "flowsback"}]
      /\ q \in Seq(FlowItems) /\ Distinct(q) /\ e \in Seq(FlowItems) /\ Distinct(e)
      /\ q # <<>> /\ pbatch[p] = <<>>
  <2>1. q # <<>> /\ pbatch[p] = <<>>
    BY <1>1 DEF Phases
  <2>2. Distinct(q) /\ Distinct(e)
    BY DEF FlowsApart
  <2> QED BY <2>1, <2>2 DEF TypeOK
<1>3. /\ f \in FlowItems /\ f \in Elements(q) /\ t \in Seq(FlowItems) /\ Len(t) = Len(q) - 1
      /\ Distinct(t) /\ Elements(t) = Elements(q) \ {f}
  BY <1>2, TakeHead
<1>4. f \notin Elements(e)
  <2> HIDE DEF IInv
  <2>1. f \in FlowItems /\ f \in Elements(fbatch[p])
    BY <1>3
  <2>2. f \in Elements(fbatch[p]) => f \notin Elements(mqueue[m])
    BY <2>1, FlowOnce
  <2> QED BY <2>1, <2>2
<1>5. (Len(q) = 1 <=> t = <<>>) /\ (t = <<>> <=> Elements(t) = {})
  <2>1. Len(q) \in Nat /\ (t = <<>> <=> Len(t) = 0)
    BY <1>2, <1>3, LenProperties, EmptySeq
  <2>2. t = <<>> <=> Elements(t) = {}
    BY <1>3, ElementsOf
  <2>3. Len(q) = 1 <=> Len(t) = 0
    BY <1>3, <2>1
  <2> QED BY <2>1, <2>2, <2>3
<1> HIDE DEF q, f, t, e
<1>6. r \in Seq(FlowItems) /\ Len(r) = Len(e) + 1 /\ Distinct(r) /\ Elements(r) = Elements(e) \cup {f}
  BY <1>2, <1>3, <1>4, AddLast
<1> HIDE DEF r
<1>7. /\ mqueue'[m] = r /\ \A n \in Managers : n # m => mqueue'[n] = mqueue[n]
      /\ fbatch'[p] = t /\ ppc'[p] = IF t = <<>> THEN "take" ELSE "forward"
      /\ \A o \in Parsers : o # p => fbatch'[o] = fbatch[o] /\ ppc'[o] = ppc[o]
  BY <1>1, <1>2, <1>5
<1>8. TypeOK'
  <2>1. fbatch' \in [Parsers -> Seq(FlowItems)] /\ mqueue' \in [Managers -> Seq(FlowItems)]
    BY <1>1, <1>2, <1>3, <1>6
  <2>2. \A n \in Managers : Len(mqueue'[n]) <= Capacity
    <3>1. Len(r) <= Capacity
      BY <1>1, <1>6
    <3> QED BY <1>7, <3>1 DEF TypeOK
  <2>3. ppc' \in [Parsers -> {"take", "flows", "forward", "packets", "flowsback"}]
    BY <1>1, <1>2
  <2> QED BY <1>1, <2>1, <2>2, <2>3 DEF TypeOK
<1>9. Phases'
  <2>1. ASSUME NEW o \in Parsers
        PROVE  /\ ppc'[o] \in {"take", "forward", "flowsback"} => pbatch'[o] = <<>>
               /\ ppc'[o] \in {"flows", "packets"} => Len(pbatch'[o]) = Count
               /\ ppc'[o] \in {"take", "flows"} => fbatch'[o] = <<>>
               /\ ppc'[o] = "forward" => fbatch'[o] # <<>>
               /\ ppc'[o] = "packets" => fbatch'[o] = <<>> \/ Len(fbatch'[o]) = Count
               /\ ppc'[o] = "flowsback" => Len(fbatch'[o]) = Count
    <3>1. CASE o = p
      BY <1>1, <1>2, <1>7, <3>1
    <3>2. CASE o # p
      BY <1>1, <1>7, <3>2 DEF Phases
    <3> QED BY <3>1, <3>2
  <2> QED BY <1>1, <2>1 DEF Phases
<1>10. Homes'
  <2>1. \A o \in Parsers : \A x \in Elements(fbatch'[o]) : FlowOf[x] = o
    BY <1>3, <1>7 DEF Homes, q
  <2> QED BY <1>1, <2>1 DEF Homes
<1>11. Preparing' /\ Prepared'
  BY <1>1, GeneratorsKept
<1>12. FlowsApart'
  <2>1. /\ \A o \in Parsers : Distinct(fbatch'[o]) /\ Distinct(ppool'[o])
        /\ \A n \in Managers : Distinct(mqueue'[n])
    BY <1>1, <1>3, <1>6, <1>7 DEF FlowsApart
  <2> DEFINE from == <<"fbatch", p>>
             to == <<"mqueue", m>>
             X == {f}
  <2>2. /\ from \in FlowPlace /\ to \in FlowPlace /\ from # to
        /\ X \subseteq FlowsAt(ppool, fbatch, mqueue, mhand)[from]
    BY <1>3, AtParser, AtManager DEF q
  <2>3. ASSUME NEW o \in Parsers
        PROVE  /\ Elements(ppool'[o]) = Moved(<<"ppool", o>>, Elements(ppool[o]), from, to, X)
               /\ Elements(fbatch'[o]) = Moved(<<"fbatch", o>>, Elements(fbatch[o]), from, to, X)
    <3>1. Elements(fbatch'[o]) = IF o = p THEN Elements(fbatch[o]) \ X ELSE Elements(fbatch[o])
      BY <1>3, <1>7 DEF q
    <3> HIDE DEF X
    <3>2. <<"fbatch", o>> # to /\ (<<"fbatch", o>> = from <=> o = p)
      OBVIOUS
    <3> QED BY <1>1, <3>1, <3>2 DEF Moved
  <2>4. ASSUME NEW n \in Managers
        PROVE  /\ Elements(mqueue'[n]) = Moved(<<"mqueue", n>>, Elements(mqueue[n]), from, to, X)
               /\ Elements(mhand'[n]) = Moved(<<"mhand", n>>, Elements(mhand[n]), from, to, X)
    <3>1. Elements(mqueue'[n]) = IF n = m THEN Elements(mqueue[n]) \cup X ELSE Elements(mqueue[n])
      BY <1>6, <1>7 DEF e
    <3> HIDE DEF X
    <3>2. <<"mqueue", n>> # from /\ (<<"mqueue", n>> = to <=> n = m)
      OBVIOUS
    <3> QED BY <1>1, <3>1, <3>2 DEF Moved
  <2> HIDE DEF from, to, X
  <2>5. Partition(FlowsAt(ppool', fbatch', mqueue', mhand'), FlowItems)
    <3>1. FlowsMoved(ppool, fbatch, mqueue, mhand, ppool', fbatch', mqueue', mhand', from, to, X)
      BY <2>2, <2>3, <2>4 DEF FlowsMoved
    <3>2. Partition(FlowsAt(ppool, fbatch, mqueue, mhand), FlowItems)
      BY DEF FlowsApart
    <3> QED BY <3>1, <3>2, MoveFlows
  <2> QED BY <2>1, <2>5 DEF FlowsApart
<1>13. Owning' = Owning
  <2>1. ASSUME NEW y
        PROVE  (\E o \in Parsers : ppc'[o] = "forward" /\ y \in Elements(fbatch'[o]))
                 \/ (\E n \in Managers : y \in Elements(mqueue'[n]))
               <=> (\E o \in Parsers : ppc[o] = "forward" /\ y \in Elements(fbatch[o]))
                 \/ (\E n \in Managers : y \in Elements(mqueue[n]))
    <3>1. CASE y = f
      BY <1>1, <1>3, <1>6, <1>7, <3>1 DEF q
    <3>2. CASE y # f
      <4>1. \A o \in Parsers : ppc'[o] = "forward" /\ y \in Elements(fbatch'[o])
                               <=> ppc[o] = "forward" /\ y \in Elements(fbatch[o])
        BY <1>1, <1>3, <1>5, <1>7, <3>2 DEF q
      <4>2. \A n \in Managers : y \in Elements(mqueue'[n]) <=> y \in Elements(mqueue[n])
        BY <1>6, <1>7, <3>2 DEF e
      <4> QED BY <4>1, <4>2
    <3> QED BY <3>1, <3>2
  <2>2. UNCHANGED <<mpc, mhand>>
    BY <1>1
  <2> QED BY <2>1, <2>2 DEF Owning
<1>14. PacketsApart'
  BY <1>1, <1>13, PacketsKept
<1> QED BY <1>8, <1>9, <1>10, <1>11, <1>12, <1>14

(* A batch goes back to the pool its first packet names, home of them all. *)
LEMMA ReturnBatchStep ==
    ASSUME IInv, NEW p \in Parsers, ReturnBatch(p)
    PROVE  IInv'
<1> USE DEF IInv
<1> DEFINE e == pbatch[p]
           h == p % GNums
           q == gpool[h]
           r == q \o e
           X == Elements(e)
<1>1. /\ ppc[p] = "packets" /\ Len(gpool[pool[e[1]]]) + Count <= Capacity
      /\ gpool' = [gpool EXCEPT ![pool[e[1]]] = gpool[pool[e[1]]] \o e]
      /\ pbatch' = [pbatch EXCEPT ![p] = <<>>]
      /\ ppc' = [ppc EXCEPT ![p] = IF fbatch[p] = <<>> THEN "take" ELSE "flowsback"]
      /\ UNCHANGED <<ppool, pqueue, mqueue, fbatch, packet, mhand, mpc, depth>>
      /\ UNCHANGED <<ghand, gpc, prepared, next_thread_id, target, pool, mode>>
  BY DEF ReturnBatch, Room, Goto, genVars, manVars
<1>2. /\ gpool \in [Generators -> Seq(Packets)] /\ pbatch \in [Parsers -> Seq(Packets)]
      /\ ppc \in [Parsers -> {"take", "flows", "forward", "packets", "flowsback"}]
      /\ e \in Seq(Packets) /\ Distinct(e) /\ Len(e) = Count /\ Count \in Nat /\ Count >= 1
      /\ \A x \in X : x \in Packets /\ PacketOf[x] = h
      /\ fbatch[p] = <<>> \/ Len(fbatch[p]) = Count
  <2>1. Len(e) = Count /\ (fbatch[p] = <<>> \/ Len(fbatch[p]) = Count)
    BY <1>1 DEF Phases
  <2>2. Distinct(e) /\ \A x \in X : PacketOf[x] = h
    BY DEF PacketsApart, Homes
  <2>3. e \in Seq(Packets)
    BY DEF TypeOK
  <2>4. X \subseteq Packets
    BY <2>3, ElementsOf
  <2>5. Count \in Nat /\ Count >= 1
    BY PipelineAssumption
  <2> QED BY <2>1, <2>2, <2>3, <2>4, <2>5 DEF TypeOK
<1>3. e[1] \in X
  <2>1. 1 \in 1..Len(e) /\ DOMAIN e = 1..Len(e)
    BY <1>2, LenProperties
  <2> HIDE DEF e
  <2> QED BY <2>1 DEF Elements
<1>4. h \in Generators
  BY <1>2, <1>3, PipelineAssumption
<1>5. \A x \in X : x \notin Elements(q)
  <2> HIDE DEF h, e
  <2>1. ASSUME NEW x \in X PROVE x \notin Elements(gpool[h])
    <3>1. x \in Packets /\ x \in Elements(pbatch[p])
      BY <1>2 DEF e
    <3> HIDE DEF X
    <3> QED BY <1>4, <3>1, PacketOnce
  <2> QED BY <2>1
<1>6. pool[e[1]] = h /\ gpc[h] # "prepare"
  <2> DEFINE x == e[1]
  <2>1. x \in Packets /\ PacketOf[x] = h /\ x \notin Elements(gpool[PacketOf[x]])
    BY <1>2, <1>3, <1>5
  <2> HIDE DEF x, h
  <2>2. pool[x] = h /\ gpc[h] # "prepare"
    BY <2>1, KnowsHome
  <2> QED BY <2>2 DEF x
<1>7. q \in Seq(Packets) /\ Distinct(q)
  BY <1>2, <1>4 DEF PacketsApart
<1> HIDE DEF e, h, q
<1>8. r \in Seq(Packets) /\ Len(r) = Len(q) + Len(e) /\ Distinct(r) /\ Elements(r) = Elements(q) \cup Elements(e)
  <2>1. /\ q \in Seq(Packets) /\ e \in Seq(Packets) /\ Distinct(q) /\ Distinct(e)
        /\ Elements(q) \cap Elements(e) = {}
    BY <1>2, <1>5, <1>7
  <2> HIDE DEF IInv
  <2>2. /\ q \o e \in Seq(Packets) /\ Len(q \o e) = Len(q) + Len(e)
        /\ Distinct(q \o e) /\ Elements(q \o e) = Elements(q) \cup Elements(e)
    BY ONLY <2>1, AddBatch
  <2> QED BY <2>2
<1>9. gpool' = [gpool EXCEPT ![h] = r] /\ Len(r) <= Capacity
  BY <1>1, <1>2, <1>6, <1>8 DEF q
<1> HIDE DEF r
<1>10. Elements(r) = Elements(gpool[h]) \cup X /\ \A x \in X : PacketOf[x] = h
  BY <1>2, <1>8 DEF q
<1> HIDE DEF X
<1>11. /\ gpool' \in [Generators -> Seq(Packets)]
       /\ \A g \in Generators : /\ Len(gpool'[g]) <= Capacity /\ Distinct(gpool'[g])
                                /\ \A x \in Elements(gpool'[g]) : PacketOf[x] = g
                                /\ Elements(gpool'[g]) = IF g = h THEN Elements(gpool[g]) \cup X
                                                         ELSE Elements(gpool[g])
       /\ Preparing' /\ Prepared'
  <2>1. UNCHANGED <<pool, prepared, mode>> /\ \A g \in Generators : gpc'[g] = "prepare" <=> gpc[g] = "prepare"
    BY <1>1
  <2> QED BY <1>4, <1>6, <1>8, <1>9, <1>10, <2>1, PoolGains
<1>12. /\ pbatch'[p] = <<>> /\ ppc'[p] = IF fbatch[p] = <<>> THEN "take" ELSE "flowsback"
       /\ \A o \in Parsers : o # p => pbatch'[o] = pbatch[o] /\ ppc'[o] = ppc[o]
  BY <1>1, <1>2
<1>13. TypeOK'
  <2>1. pbatch' \in [Parsers -> Seq(Packets)]
    <3>1. <<>> \in Seq(Packets)
      BY EmptySeq
    <3> QED BY <1>1, <1>2, <3>1
  <2>2. ppc' \in [Parsers -> {"take", "flows", "forward", "packets", "flowsback"}]
    BY <1>1, <1>2
  <2> QED BY <1>1, <1>11, <2>1, <2>2 DEF TypeOK
<1>14. Phases'
  <2>1. ASSUME NEW o \in Parsers
        PROVE  /\ ppc'[o] \in {"take", "forward", "flowsback"} => pbatch'[o] = <<>>
               /\ ppc'[o] \in {"flows", "packets"} => Len(pbatch'[o]) = Count
               /\ ppc'[o] \in {"take", "flows"} => fbatch'[o] = <<>>
               /\ ppc'[o] = "forward" => fbatch'[o] # <<>>
               /\ ppc'[o] = "packets" => fbatch'[o] = <<>> \/ Len(fbatch'[o]) = Count
               /\ ppc'[o] = "flowsback" => Len(fbatch'[o]) = Count
    <3>1. CASE o = p
      BY <1>1, <1>2, <1>12, <3>1
    <3>2. CASE o # p
      BY <1>1, <1>12, <3>2 DEF Phases
    <3> QED BY <3>1, <3>2
  <2> QED BY <1>1, <2>1 DEF Phases
<1>15. Homes'
  <2>1. \A o \in Parsers : \A x \in Elements(pbatch'[o]) : PacketOf[x] = o % GNums
    BY <1>12, Nothing DEF Homes
  <2> QED BY <1>1, <1>11, <2>1 DEF Homes
<1>16. FlowsApart'
  BY <1>1, FlowsKept
<1>17. PacketsApart'
  <2>1. Owning' = Owning
    <3>1. \A o \in Parsers : ppc'[o] = "forward" <=> ppc[o] = "forward"
      BY <1>1, <1>12
    <3> QED BY <1>1, <3>1 DEF Owning
  <2>2. Carried' = Carried
    BY <1>1, <2>1 DEF Carried
  <2>3. \A o \in Parsers : Distinct(pqueue'[o]) /\ Distinct(pbatch'[o])
    BY <1>1, <1>12, Nothing DEF PacketsApart
  <2> DEFINE from == <<"pbatch", p>>
             to == <<"gpool", h>>
  <2>4. /\ from \in PacketPlace /\ to \in PacketPlace /\ from # to
        /\ X \subseteq PacketsAt(gpool, ghand, pqueue, pbatch, Carried)[from]
    <3>1. to \in PacketPlace
      BY <1>4 DEF PacketPlace
    <3> QED BY <3>1, AtParser DEF X, e
  <2>5. ASSUME NEW g \in Generators
        PROVE  /\ Elements(gpool'[g]) = Moved(<<"gpool", g>>, Elements(gpool[g]), from, to, X)
               /\ {ghand'[g]} \ {NoPacket} = Moved(<<"ghand", g>>, {ghand[g]} \ {NoPacket}, from, to, X)
    BY <1>1, <1>11 DEF Moved
  <2>6. ASSUME NEW o \in Parsers
        PROVE  /\ Elements(pqueue'[o]) = Moved(<<"pqueue", o>>, Elements(pqueue[o]), from, to, X)
               /\ Elements(pbatch'[o]) = Moved(<<"pbatch", o>>, Elements(pbatch[o]), from, to, X)
    <3>1. Elements(pbatch'[o]) = IF o = p THEN Elements(pbatch[o]) \ X ELSE Elements(pbatch[o])
      BY <1>12, Nothing DEF X, e
    <3>2. <<"pbatch", o>> # to /\ (<<"pbatch", o>> = from <=> o = p)
      OBVIOUS
    <3> QED BY <1>1, <3>1, <3>2 DEF Moved
  <2>7. Carried' = Moved(<<"flow", 0>>, Carried, from, to, X)
    BY <2>2 DEF Moved
  <2> HIDE DEF from, to
  <2>8. Partition(PacketsAt(gpool', ghand', pqueue', pbatch', Carried'), Packets)
    <3>1. PacketsMoved(gpool, ghand, pqueue, pbatch, Carried,
                       gpool', ghand', pqueue', pbatch', Carried', from, to, X)
      BY <2>4, <2>5, <2>6, <2>7 DEF PacketsMoved
    <3>2. Partition(PacketsAt(gpool, ghand, pqueue, pbatch, Carried), Packets)
      BY DEF PacketsApart
    <3> QED BY <3>1, <3>2, MovePackets
  <2> QED BY <1>1, <1>11, <2>1, <2>2, <2>3, <2>8 DEF PacketsApart
<1> QED BY <1>11, <1>13, <1>14, <1>15, <1>16, <1>17

(* A batch of flow items, whose packets have gone back, returns to its pool. *)
LEMMA ReturnFlowsStep ==
    ASSUME IInv, NEW p \in Parsers, ReturnFlows(p)
    PROVE  IInv'
<1> USE DEF IInv
<1> DEFINE e == fbatch[p]
           q == ppool[p]
           r == q \o e
           X == Elements(e)
<1>1. /\ ppc[p] = "flowsback" /\ Len(q) + Count <= Capacity /\ ppool' = [ppool EXCEPT ![p] = r]
      /\ packet' = [f \in FlowItems |-> IF \E k \in 1..Count : e[k] = f THEN NoPacket ELSE packet[f]]
      /\ fbatch' = [fbatch EXCEPT ![p] = <<>>] /\ ppc' = [ppc EXCEPT ![p] = "take"]
      /\ UNCHANGED <<gpool, pqueue, mqueue, pbatch, mhand, mpc, depth>>
      /\ UNCHANGED <<ghand, gpc, prepared, next_thread_id, target, pool, mode>>
  BY DEF ReturnFlows, Room, Goto, genVars, manVars
<1>2. /\ ppool \in [Parsers -> Seq(FlowItems)] /\ fbatch \in [Parsers -> Seq(FlowItems)]
      /\ ppc \in [Parsers -> {"take", "flows", "forward", "packets", "flowsback"}]
      /\ packet \in [FlowItems -> Packets \cup {NoPacket}]
      /\ e \in Seq(FlowItems) /\ q \in Seq(FlowItems) /\ Distinct(e) /\ Distinct(q)
      /\ Len(e) = Count /\ pbatch[p] = <<>>
  <2>1. Len(e) = Count /\ pbatch[p] = <<>>
    BY <1>1 DEF Phases
  <2>2. Distinct(e) /\ Distinct(q)
    BY DEF FlowsApart
  <2> QED BY <2>1, <2>2 DEF TypeOK
<1>3. X \subseteq FlowItems /\ \A f : f \in X <=> \E k \in 1..Count : e[k] = f
  BY <1>2, ElementsOf
<1>4. \A f \in X : /\ f \notin Elements(q) /\ \A o \in Parsers : f \in Elements(fbatch[o]) => o = p
                   /\ \A m \in Managers : f \notin Elements(mqueue[m]) /\ f \notin Elements(mhand[m])
  <2>1. ASSUME NEW f \in X
        PROVE  /\ f \notin Elements(ppool[p]) /\ \A o \in Parsers : f \in Elements(fbatch[o]) => o = p
               /\ \A m \in Managers : f \notin Elements(mqueue[m]) /\ f \notin Elements(mhand[m])
    <3>1. f \in FlowItems /\ f \in Elements(fbatch[p])
      BY <1>3
    <3> HIDE DEF X
    <3> QED BY <3>1, FlowOnce
  <2> QED BY <2>1
<1>5. \A f \in X : f \notin Owning
  <2> HIDE DEF X
  <2> QED BY <1>1, <1>4 DEF Owning
<1> HIDE DEF e, q
<1>6. /\ r \in Seq(FlowItems) /\ Len(r) = Len(q) + Len(e)
      /\ Distinct(r) /\ Elements(r) = Elements(q) \cup Elements(e)
  <2>1. /\ q \in Seq(FlowItems) /\ e \in Seq(FlowItems) /\ Distinct(q) /\ Distinct(e)
        /\ Elements(q) \cap Elements(e) = {}
    BY <1>2, <1>4
  <2> HIDE DEF IInv
  <2>2. /\ q \o e \in Seq(FlowItems) /\ Len(q \o e) = Len(q) + Len(e)
        /\ Distinct(q \o e) /\ Elements(q \o e) = Elements(q) \cup Elements(e)
    BY ONLY <2>1, AddBatch
  <2> QED BY <2>2
<1>7. Len(r) <= Capacity /\ Elements(r) = Elements(q) \cup X
  BY <1>1, <1>2, <1>6
<1> HIDE DEF r, X
<1>8. /\ ppool'[p] = r /\ fbatch'[p] = <<>> /\ ppc'[p] = "take"
      /\ \A o \in Parsers : o # p => ppool'[o] = ppool[o] /\ fbatch'[o] = fbatch[o] /\ ppc'[o] = ppc[o]
      /\ \A f \in FlowItems : f \notin X => packet'[f] = packet[f]
  BY <1>1, <1>2, <1>3
<1>9. TypeOK'
  <2>1. ppool' \in [Parsers -> Seq(FlowItems)] /\ fbatch' \in [Parsers -> Seq(FlowItems)]
    <3>1. <<>> \in Seq(FlowItems)
      BY EmptySeq
    <3> QED BY <1>1, <1>2, <1>6, <3>1
  <2>2. \A o \in Parsers : Len(ppool'[o]) <= Capacity
    BY <1>7, <1>8 DEF TypeOK
  <2>3. packet' \in [FlowItems -> Packets \cup {NoPacket}]
    BY <1>1, <1>2
  <2>4. ppc' \in [Parsers -> {"take", "flows", "forward", "packets", "flowsback"}]
    BY <1>1, <1>2
  <2> QED BY <1>1, <2>1, <2>2, <2>3, <2>4 DEF TypeOK
<1>10. Phases'
  <2>1. ASSUME NEW o \in Parsers
        PROVE  /\ ppc'[o] \in {"take", "forward", "flowsback"} => pbatch'[o] = <<>>
               /\ ppc'[o] \in {"flows", "packets"} => Len(pbatch'[o]) = Count
               /\ ppc'[o] \in {"take", "flows"} => fbatch'[o] = <<>>
               /\ ppc'[o] = "forward" => fbatch'[o] # <<>>
               /\ ppc'[o] = "packets" => fbatch'[o] = <<>> \/ Len(fbatch'[o]) = Count
               /\ ppc'[o] = "flowsback" => Len(fbatch'[o]) = Count
    <3>1. CASE o = p
      BY <1>1, <1>2, <1>8, <3>1
    <3>2. CASE o # p
      BY <1>1, <1>8, <3>2 DEF Phases
    <3> QED BY <3>1, <3>2
  <2> QED BY <1>1, <2>1 DEF Phases
<1>11. Homes'
  <2>1. \A o \in Parsers : \A f \in Elements(fbatch'[o]) : FlowOf[f] = o
    BY <1>8, Nothing DEF Homes
  <2>2. \A o \in Parsers : \A f \in Elements(ppool'[o]) : FlowOf[f] = o
    <3>1. \A f \in Elements(r) : FlowOf[f] = p
      BY <1>7 DEF Homes, X, e, q
    <3> QED BY <1>8, <3>1 DEF Homes
  <2> QED BY <1>1, <2>1, <2>2 DEF Homes
<1>12. Preparing' /\ Prepared'
  BY <1>1, GeneratorsKept
<1>13. FlowsApart'
  <2>1. /\ \A o \in Parsers : Distinct(fbatch'[o]) /\ Distinct(ppool'[o])
        /\ \A m \in Managers : Distinct(mqueue'[m])
    BY <1>1, <1>6, <1>8, Nothing DEF FlowsApart
  <2> DEFINE from == <<"fbatch", p>>
             to == <<"ppool", p>>
  <2>2. /\ from \in FlowPlace /\ to \in FlowPlace /\ from # to
        /\ X \subseteq FlowsAt(ppool, fbatch, mqueue, mhand)[from]
    BY AtParser DEF X, e
  <2>3. ASSUME NEW o \in Parsers
        PROVE  /\ Elements(ppool'[o]) = Moved(<<"ppool", o>>, Elements(ppool[o]), from, to, X)
               /\ Elements(fbatch'[o]) = Moved(<<"fbatch", o>>, Elements(fbatch[o]), from, to, X)
    <3>1. Elements(ppool'[o]) = IF o = p THEN Elements(ppool[o]) \cup X ELSE Elements(ppool[o])
      BY <1>7, <1>8 DEF q
    <3>2. Elements(fbatch'[o]) = IF o = p THEN Elements(fbatch[o]) \ X ELSE Elements(fbatch[o])
      BY <1>8, Nothing DEF X, e
    <3>3. /\ <<"ppool", o>> # from /\ (<<"ppool", o>> = to <=> o = p)
          /\ <<"fbatch", o>> # to /\ (<<"fbatch", o>> = from <=> o = p)
      OBVIOUS
    <3> QED BY <3>1, <3>2, <3>3 DEF Moved
  <2>4. ASSUME NEW m \in Managers
        PROVE  /\ Elements(mqueue'[m]) = Moved(<<"mqueue", m>>, Elements(mqueue[m]), from, to, X)
               /\ Elements(mhand'[m]) = Moved(<<"mhand", m>>, Elements(mhand[m]), from, to, X)
    BY <1>1 DEF Moved
  <2> HIDE DEF from, to
  <2>5. Partition(FlowsAt(ppool', fbatch', mqueue', mhand'), FlowItems)
    <3>1. FlowsMoved(ppool, fbatch, mqueue, mhand, ppool', fbatch', mqueue', mhand', from, to, X)
      BY <2>2, <2>3, <2>4 DEF FlowsMoved
    <3>2. Partition(FlowsAt(ppool, fbatch, mqueue, mhand), FlowItems)
      BY DEF FlowsApart
    <3> QED BY <3>1, <3>2, MoveFlows
  <2> QED BY <2>1, <2>5 DEF FlowsApart
<1>14. Owning' = Owning
  <2>1. \A o \in Parsers : ppc'[o] = "forward" <=> ppc[o] = "forward"
    BY <1>1, <1>8
  <2>2. \A o \in Parsers : ppc[o] = "forward" => fbatch'[o] = fbatch[o]
    BY <1>1, <1>8
  <2>3. UNCHANGED <<mpc, mhand, mqueue>>
    BY <1>1
  <2> QED BY <2>1, <2>2, <2>3 DEF Owning
<1>15. PacketsApart'
  <2>1. \A f \in Owning : packet'[f] = packet[f]
    BY <1>5, <1>8 DEF Owning
  <2> QED BY <1>1, <1>14, <2>1, PacketsKept
<1> QED BY <1>9, <1>10, <1>11, <1>12, <1>13, <1>15

(* COUNT flow items are filled with the COUNT packets of the batch; with    *)
(* pipe_depth > 3 they own them from now on.                                *)
LEMMA TakeFlowsStep ==
    ASSUME IInv, NEW p \in Parsers, TakeFlows(p)
    PROVE  IInv'
<1> USE DEF IInv
<1> DEFINE e == pbatch[p]
           q == ppool[p]
           a == First(q, Count)
           b == Rest(q, Count)
           X == Elements(a)
<1>1. /\ ppc[p] = "flows" /\ HasBatch(q) /\ ppool' = [ppool EXCEPT ![p] = b]
      /\ packet' = [f \in FlowItems |-> IF \E k \in 1..Count : a[k] = f
                      THEN e[CHOOSE k \in 1..Count : a[k] = f] ELSE packet[f]]
      /\ fbatch' = [fbatch EXCEPT ![p] = a]
      /\ \/ ppc' = [ppc EXCEPT ![p] = "forward"] /\ pbatch' = [pbatch EXCEPT ![p] = <<>>]
         \/ ppc' = [ppc EXCEPT ![p] = "packets"] /\ pbatch' = pbatch
      /\ UNCHANGED <<gpool, pqueue, mqueue, mhand, mpc, depth>>
      /\ UNCHANGED <<ghand, gpc, prepared, next_thread_id, target, pool, mode>>
  BY DEF TakeFlows, Goto, genVars, manVars
<1>2. /\ ppool \in [Parsers -> Seq(FlowItems)] /\ fbatch \in [Parsers -> Seq(FlowItems)]
      /\ pbatch \in [Parsers -> Seq(Packets)]
      /\ ppc \in [Parsers -> {"take", "flows", "forward", "packets", "flowsback"}]
      /\ packet \in [FlowItems -> Packets \cup {NoPacket}]
      /\ e \in Seq(Packets) /\ q \in Seq(FlowItems) /\ Distinct(e) /\ Distinct(q)
      /\ Len(e) = Count /\ fbatch[p] = <<>> /\ Len(q) <= Capacity
  <2>1. Len(e) = Count /\ fbatch[p] = <<>>
    BY <1>1 DEF Phases
  <2>2. Distinct(e) /\ Distinct(q)
    BY DEF FlowsApart, PacketsApart
  <2> QED BY <2>1, <2>2 DEF TypeOK
<1>3. Count \in Nat /\ Count >= 1 /\ Len(q) \in Nat /\ Count <= Len(q) /\ Capacity \in Nat
  BY <1>1, <1>2, BatchThere, PipelineAssumption
<1>4. /\ a \in Seq(FlowItems) /\ b \in Seq(FlowItems) /\ Len(a) = Count /\ Len(b) = Len(q) - Count
      /\ Distinct(a) /\ Distinct(b) /\ Elements(a) \subseteq Elements(q)
      /\ Elements(b) = Elements(q) \ Elements(a)
  <2>1. q \in Seq(FlowItems) /\ Count \in Nat /\ Count <= Len(q) /\ Distinct(q)
    BY <1>2, <1>3
  <2> HIDE DEF IInv, q, a, b
  <2>2. /\ First(q, Count) \in Seq(FlowItems) /\ Rest(q, Count) \in Seq(FlowItems)
        /\ Len(First(q, Count)) = Count /\ Len(Rest(q, Count)) = Len(q) - Count
        /\ Distinct(First(q, Count)) /\ Distinct(Rest(q, Count))
        /\ Elements(First(q, Count)) \subseteq Elements(q)
        /\ Elements(Rest(q, Count)) = Elements(q) \ Elements(First(q, Count))
    BY ONLY <2>1, TakeFirst
  <2> QED BY <2>2 DEF a, b
<1> HIDE DEF a, b
<1>5. /\ X \subseteq FlowItems /\ \A f : f \in X <=> \E k \in 1..Count : a[k] = f
      /\ \A j, k \in 1..Count : a[j] = a[k] => j = k
  <2>1. DOMAIN a = 1..Count
    BY <1>4, LenProperties
  <2>2. X \subseteq FlowItems /\ \A f : f \in X <=> \E k \in 1..Count : a[k] = f
    BY <1>4, ElementsOf
  <2>3. \A j, k \in 1..Count : a[j] = a[k] => j = k
    BY <1>4, <2>1 DEF Distinct
  <2> QED BY <2>2, <2>3
<1>6. /\ \A x : x \in Elements(e) <=> \E k \in 1..Count : e[k] = x
      /\ \A k \in 1..Count : e[k] \in Packets
      /\ \A j, k \in 1..Count : e[j] = e[k] => j = k
  <2>1. DOMAIN e = 1..Count
    BY <1>2, LenProperties
  <2>2. \A k \in 1..Count : e[k] \in Packets
    BY <1>2, ElementOfSeq
  <2>3. \A x : x \in Elements(e) <=> \E k \in 1..Count : e[k] = x
    BY <1>2, ElementsOf
  <2> QED BY <1>2, <2>1, <2>2, <2>3 DEF Distinct
<1>7. \A f \in X : f \notin Owning
  <2>1. ASSUME NEW f \in X PROVE f \notin Owning
    <3>1. f \in FlowItems /\ f \in Elements(ppool[p])
      BY <1>4, <1>5
    <3> HIDE DEF X
    <3>2. /\ \A o \in Parsers : f \notin Elements(fbatch[o])
          /\ \A m \in Managers : f \notin Elements(mqueue[m]) /\ f \notin Elements(mhand[m])
      BY <3>1, FlowOnce
    <3> QED BY <3>2 DEF Owning
  <2> QED BY <2>1
<1> HIDE DEF e, q, X
<1>8. /\ packet' \in [FlowItems -> Packets \cup {NoPacket}]
      /\ \A k \in 1..Count : packet'[a[k]] = e[k]
      /\ \A f \in FlowItems : f \notin X => packet'[f] = packet[f]
  <2>1. ASSUME NEW k \in 1..Count
        PROVE  a[k] \in FlowItems /\ (CHOOSE j \in 1..Count : a[j] = a[k]) = k
    <3>1. a[k] \in X
      BY <1>5
    <3>2. (CHOOSE j \in 1..Count : a[j] = a[k]) \in 1..Count /\ a[CHOOSE j \in 1..Count : a[j] = a[k]] = a[k]
      OBVIOUS
    <3> QED BY <1>5, <3>1, <3>2
  <2>2. \A k \in 1..Count : packet'[a[k]] = e[k]
    BY <1>1, <2>1
  <2>3. \A f \in FlowItems : f \notin X => packet'[f] = packet[f]
    BY <1>1, <1>5
  <2>4. ASSUME NEW f \in FlowItems PROVE packet'[f] \in Packets \cup {NoPacket}
    <3>1. CASE f \in X
      BY <1>5, <1>6, <2>2, <3>1
    <3>2. CASE f \notin X
      BY <1>2, <2>3, <3>2
    <3> QED BY <3>1, <3>2
  <2>5. DOMAIN packet' = FlowItems /\ packet' = [f \in FlowItems |-> packet'[f]]
    BY <1>1
  <2> QED BY <2>2, <2>3, <2>4, <2>5
<1>9. /\ ppool'[p] = b /\ fbatch'[p] = a
      /\ \A o \in Parsers : o # p => /\ ppool'[o] = ppool[o] /\ fbatch'[o] = fbatch[o]
                                    /\ ppc'[o] = ppc[o] /\ pbatch'[o] = pbatch[o]
      /\ \/ ppc'[p] = "forward" /\ pbatch'[p] = <<>>
         \/ ppc'[p] = "packets" /\ pbatch' = pbatch
  BY <1>1, <1>2
<1>10. TypeOK'
  <2>1. ppool' \in [Parsers -> Seq(FlowItems)] /\ fbatch' \in [Parsers -> Seq(FlowItems)]
    BY <1>1, <1>2, <1>4
  <2>2. \A o \in Parsers : Len(ppool'[o]) <= Capacity
    <3>1. Len(b) <= Capacity
      BY <1>2, <1>3, <1>4
    <3> QED BY <1>9, <3>1 DEF TypeOK
  <2>3. ppc' \in [Parsers -> {"take", "flows", "forward", "packets", "flowsback"}]
    BY <1>1, <1>2
  <2>4. pbatch' \in [Parsers -> Seq(Packets)]
    <3>1. <<>> \in Seq(Packets)
      BY EmptySeq
    <3> QED BY <1>1, <1>2, <3>1
  <2> QED BY <1>1, <1>8, <2>1, <2>2, <2>3, <2>4 DEF TypeOK
<1>11. Phases'
  <2>1. ASSUME NEW o \in Parsers
        PROVE  /\ ppc'[o] \in {"take", "forward", "flowsback"} => pbatch'[o] = <<>>
               /\ ppc'[o] \in {"flows", "packets"} => Len(pbatch'[o]) = Count
               /\ ppc'[o] \in {"take", "flows"} => fbatch'[o] = <<>>
               /\ ppc'[o] = "forward" => fbatch'[o] # <<>>
               /\ ppc'[o] = "packets" => fbatch'[o] = <<>> \/ Len(fbatch'[o]) = Count
               /\ ppc'[o] = "flowsback" => Len(fbatch'[o]) = Count
    <3>1. CASE o = p
      <4>1. a # <<>>
        BY <1>3, <1>4, Nothing
      <4>2. Len(pbatch[p]) = Count
        BY <1>2 DEF e
      <4> QED BY <1>4, <1>9, <3>1, <4>1, <4>2
    <3>2. CASE o # p
      BY <1>9, <3>2 DEF Phases
    <3> QED BY <3>1, <3>2
  <2> QED BY <1>1, <2>1 DEF Phases
<1>12. Homes'
  <2>1. \A o \in Parsers : \A x \in Elements(pbatch'[o]) : PacketOf[x] = o % GNums
    BY <1>9, Nothing DEF Homes
  <2>2. \A f \in Elements(q) : FlowOf[f] = p
    BY DEF Homes, q
  <2>3. \A o \in Parsers : \A f \in Elements(fbatch'[o]) : FlowOf[f] = o
    BY <1>4, <1>9, <2>2 DEF Homes
  <2>4. \A o \in Parsers : \A f \in Elements(ppool'[o]) : FlowOf[f] = o
    BY <1>4, <1>9, <2>2 DEF Homes
  <2> QED BY <1>1, <2>1, <2>3, <2>4 DEF Homes
<1>13. Preparing' /\ Prepared'
  BY <1>1, GeneratorsKept
<1>14. FlowsApart'
  <2>1. /\ \A o \in Parsers : Distinct(fbatch'[o]) /\ Distinct(ppool'[o])
        /\ \A m \in Managers : Distinct(mqueue'[m])
    BY <1>1, <1>4, <1>9 DEF FlowsApart
  <2> DEFINE from == <<"ppool", p>>
             to == <<"fbatch", p>>
  <2>2. /\ from \in FlowPlace /\ to \in FlowPlace /\ from # to
        /\ X \subseteq FlowsAt(ppool, fbatch, mqueue, mhand)[from]
    BY <1>4, AtParser DEF X, q
  <2>3. ASSUME NEW o \in Parsers
        PROVE  /\ Elements(ppool'[o]) = Moved(<<"ppool", o>>, Elements(ppool[o]), from, to, X)
               /\ Elements(fbatch'[o]) = Moved(<<"fbatch", o>>, Elements(fbatch[o]), from, to, X)
    <3>1. Elements(ppool'[o]) = IF o = p THEN Elements(ppool[o]) \ X ELSE Elements(ppool[o])
      BY <1>4, <1>9 DEF q, X
    <3>2. Elements(fbatch'[o]) = IF o = p THEN Elements(fbatch[o]) \cup X ELSE Elements(fbatch[o])
      BY <1>2, <1>9, Nothing DEF X
    <3>3. /\ <<"ppool", o>> # to /\ (<<"ppool", o>> = from <=> o = p)
          /\ <<"fbatch", o>> # from /\ (<<"fbatch", o>> = to <=> o = p)
      OBVIOUS
    <3> QED BY <3>1, <3>2, <3>3 DEF Moved
  <2>4. ASSUME NEW m \in Managers
        PROVE  /\ Elements(mqueue'[m]) = Moved(<<"mqueue", m>>, Elements(mqueue[m]), from, to, X)
               /\ Elements(mhand'[m]) = Moved(<<"mhand", m>>, Elements(mhand[m]), from, to, X)
    BY <1>1 DEF Moved
  <2> HIDE DEF from, to
  <2>5. Partition(FlowsAt(ppool', fbatch', mqueue', mhand'), FlowItems)
    <3>1. FlowsMoved(ppool, fbatch, mqueue, mhand, ppool', fbatch', mqueue', mhand', from, to, X)
      BY <2>2, <2>3, <2>4 DEF FlowsMoved
    <3>2. Partition(FlowsAt(ppool, fbatch, mqueue, mhand), FlowItems)
      BY DEF FlowsApart
    <3> QED BY <3>1, <3>2, MoveFlows
  <2> QED BY <2>1, <2>5 DEF FlowsApart
<1>15. \A f \in Owning : f \in FlowItems /\ packet'[f] = packet[f]
  BY <1>7, <1>8 DEF Owning
<1>16. CASE ppc'[p] = "packets" /\ pbatch' = pbatch
  <2>1. Owning' = Owning
    <3>1. \A o \in Parsers : ppc'[o] = "forward" <=> ppc[o] = "forward"
      BY <1>1, <1>9, <1>16
    <3>2. \A o \in Parsers : ppc[o] = "forward" => fbatch'[o] = fbatch[o]
      BY <1>1, <1>9
    <3>3. UNCHANGED <<mpc, mhand, mqueue>>
      BY <1>1
    <3> QED BY <3>1, <3>2, <3>3 DEF Owning
  <2>2. PacketsApart'
    BY <1>1, <1>15, <1>16, <2>1, PacketsKept
  <2> QED BY <1>10, <1>11, <1>12, <1>13, <1>14, <2>2
<1>17. CASE ppc'[p] = "forward" /\ pbatch'[p] = <<>>
  <2> DEFINE Y == Elements(e)
  <2>1. ASSUME NEW f PROVE f \in Owning' <=> f \in Owning \/ f \in X
    <3>1. \A o \in Parsers : o # p => (ppc'[o] = "forward" /\ f \in Elements(fbatch'[o])
                                       <=> ppc[o] = "forward" /\ f \in Elements(fbatch[o]))
      BY <1>9
    <3>2. /\ ppc'[p] = "forward" /\ f \in Elements(fbatch'[p]) <=> f \in X
          /\ ppc[p] # "forward"
      BY <1>1, <1>9, <1>17 DEF X
    <3>3. UNCHANGED <<mpc, mhand, mqueue>> /\ X \subseteq FlowItems
      BY <1>1, <1>5
    <3> QED BY <3>1, <3>2, <3>3 DEF Owning
  <2>2. \A f \in X : \E k \in 1..Count : f = a[k] /\ packet'[f] = e[k]
    BY <1>5, <1>8
  <2>3. Carried' = Carried \cup Y
    <3>1. ASSUME NEW z PROVE z \in Carried' <=> z \in Carried \/ z \in Y
      <4>1. ASSUME z \in Carried' PROVE z \in Carried \/ z \in Y
        <5>1. PICK f \in Owning' : z = packet'[f]
          BY <4>1 DEF Carried
        <5>2. CASE f \in Owning
          BY <1>15, <5>1, <5>2 DEF Carried
        <5>3. CASE f \in X
          BY <1>6, <2>2, <5>1, <5>3
        <5> QED BY <2>1, <5>1, <5>2, <5>3
      <4>2. ASSUME z \in Carried PROVE z \in Carried'
        BY <1>15, <2>1, <4>2 DEF Carried
      <4>3. ASSUME z \in Y PROVE z \in Carried'
        <5>1. PICK k \in 1..Count : e[k] = z
          BY <1>6, <4>3
        <5>2. a[k] \in X /\ packet'[a[k]] = z
          BY <1>5, <1>8, <5>1
        <5> QED BY <2>1, <5>2 DEF Carried
      <4> QED BY <4>1, <4>2, <4>3
    <3> QED BY <3>1
  <2>4. \A x \in Y : x \in Packets /\ x \notin Carried
    <3>1. ASSUME NEW x \in Y PROVE x \in Packets /\ x \notin Carried
      <4>1. x \in Packets /\ x \in Elements(pbatch[p])
        BY <1>6 DEF e
      <4>2. PICK g \in Generators : TRUE
        BY PipelineAssumption DEF Generators
      <4> HIDE DEF Y
      <4> QED BY <4>1, <4>2, PacketOnce
    <3> QED BY <3>1
  <2>5. \A f, h \in Owning' : packet'[f] = packet'[h] => f = h
    <3>1. \A f, h \in Owning : packet[f] = packet[h] => f = h
      BY DEF PacketsApart
    <3>2. \A f \in Owning : packet'[f] \in Carried
      BY <1>15 DEF Carried
    <3>3. \A f \in X : packet'[f] \in Y
      BY <1>6, <2>2
    <3>4. \A f, h \in X : packet'[f] = packet'[h] => f = h
      BY <1>6, <2>2
    <3> HIDE DEF Y
    <3> QED BY <1>15, <2>1, <2>4, <3>1, <3>2, <3>3, <3>4
  <2>6. Carried' \subseteq Packets
    BY <2>3, <2>4 DEF PacketsApart
  <2>7. \A o \in Parsers : Distinct(pqueue'[o]) /\ Distinct(pbatch'[o])
    BY <1>1, <1>9, <1>17, Nothing DEF PacketsApart
  <2> HIDE DEF Y
  <2> DEFINE from == <<"pbatch", p>>
             to == <<"flow", 0>>
  <2>8. /\ from \in PacketPlace /\ to \in PacketPlace /\ from # to
        /\ Y \subseteq PacketsAt(gpool, ghand, pqueue, pbatch, Carried)[from]
    <3>1. to \in PacketPlace
      BY DEF PacketPlace
    <3> QED BY <3>1, AtParser DEF Y, e
  <2>9. ASSUME NEW g \in Generators
        PROVE  /\ Elements(gpool'[g]) = Moved(<<"gpool", g>>, Elements(gpool[g]), from, to, Y)
               /\ {ghand'[g]} \ {NoPacket} = Moved(<<"ghand", g>>, {ghand[g]} \ {NoPacket}, from, to, Y)
    BY <1>1 DEF Moved
  <2>10. ASSUME NEW o \in Parsers
         PROVE  /\ Elements(pqueue'[o]) = Moved(<<"pqueue", o>>, Elements(pqueue[o]), from, to, Y)
                /\ Elements(pbatch'[o]) = Moved(<<"pbatch", o>>, Elements(pbatch[o]), from, to, Y)
    <3>1. Elements(pbatch'[o]) = IF o = p THEN Elements(pbatch[o]) \ Y ELSE Elements(pbatch[o])
      BY <1>9, <1>17, Nothing DEF Y, e
    <3>2. <<"pbatch", o>> # to /\ (<<"pbatch", o>> = from <=> o = p)
      OBVIOUS
    <3> QED BY <1>1, <3>1, <3>2 DEF Moved
  <2>11. Carried' = Moved(<<"flow", 0>>, Carried, from, to, Y)
    BY <2>3 DEF Moved
  <2> HIDE DEF from, to
  <2>12. Partition(PacketsAt(gpool', ghand', pqueue', pbatch', Carried'), Packets)
    <3>1. PacketsMoved(gpool, ghand, pqueue, pbatch, Carried,
                       gpool', ghand', pqueue', pbatch', Carried', from, to, Y)
      BY <2>8, <2>9, <2>10, <2>11 DEF PacketsMoved
    <3>2. Partition(PacketsAt(gpool, ghand, pqueue, pbatch, Carried), Packets)
      BY DEF PacketsApart
    <3> QED BY <3>1, <3>2, MovePackets
  <2>13. PacketsApart'
    BY <1>1, <2>5, <2>6, <2>7, <2>12 DEF PacketsApart
  <2> QED BY <1>10, <1>11, <1>12, <1>13, <1>14, <2>13
<1> QED BY <1>9, <1>16, <1>17

-----------------------------------------------------------------------------
(* packet_manager_loop *)

(* A hand holds one item. *)
LEMMA OneInHand ==
    ASSUME NEW S
    PROVE  /\ \A x \in S : <<x>> \in Seq(S) /\ Len(<<x>>) = 1 /\ Elements(<<x>>) = {x}
           /\ \A q \in Seq(S) : Len(q) = 1 => q[1] \in S /\ Elements(q) = {q[1]}
<1>1. ASSUME NEW x \in S PROVE <<x>> \in Seq(S) /\ Len(<<x>>) = 1 /\ <<x>>[1] = x
  OBVIOUS
<1>2. ASSUME NEW q \in Seq(S), Len(q) = 1 PROVE q[1] \in S /\ Elements(q) = {q[1]}
  <2>1. 1 \in 1..Len(q) /\ q[1] \in S
    BY <1>2, ElementOfSeq
  <2>2. \A y : y \in Elements(q) <=> \E i \in 1..Len(q) : q[i] = y
    BY ElementsOf
  <2>3. \A i \in 1..Len(q) : i = 1
    BY <1>2
  <2>4. ASSUME NEW y PROVE y \in Elements(q) <=> y = q[1]
    BY <2>1, <2>2, <2>3
  <2> QED BY <2>1, <2>4
<1>3. ASSUME NEW x \in S PROVE Elements(<<x>>) = {x}
  <2> DEFINE q == <<x>>
  <2>1. q \in Seq(S) /\ Len(q) = 1 /\ q[1] = x
    BY <1>1
  <2> HIDE DEF q
  <2>2. Elements(q) = {x}
    BY <1>2, <2>1
  <2> QED BY <2>2 DEF q
<1> QED BY <1>1, <1>2, <1>3

(* A manager takes a flow in hand, and its packet with it. *)
LEMMA TakeFlowStep ==
    ASSUME IInv, NEW m \in Managers, TakeFlow(m)
    PROVE  IInv'
<1> USE DEF IInv
<1> DEFINE q == mqueue[m]
           f == Head(q)
           t == Tail(q)
           hand == <<f>>
<1>1. /\ mpc[m] = "take" /\ q # <<>> /\ mhand' = [mhand EXCEPT ![m] = hand]
      /\ mqueue' = [mqueue EXCEPT ![m] = t] /\ mpc' = [mpc EXCEPT ![m] = "packet"]
      /\ UNCHANGED <<gpool, ppool, pqueue, pbatch, fbatch, ppc, packet, depth>>
      /\ UNCHANGED <<ghand, gpc, prepared, next_thread_id, target, pool, mode>>
  BY DEF TakeFlow, Goto, genVars, parVars
<1>2. /\ mqueue \in [Managers -> Seq(FlowItems)] /\ mhand \in [Managers -> Seq(FlowItems)]
      /\ mpc \in [Managers -> {"take", "packet", "flow"}]
      /\ q \in Seq(FlowItems) /\ Distinct(q) /\ Len(q) <= Capacity /\ mhand[m] = <<>>
  <2>1. mhand[m] = <<>>
    BY <1>1 DEF Phases
  <2>2. Distinct(q)
    BY DEF FlowsApart
  <2> QED BY <2>1, <2>2 DEF TypeOK
<1>3. /\ f \in FlowItems /\ f \in Elements(q) /\ t \in Seq(FlowItems) /\ Len(t) = Len(q) - 1
      /\ Distinct(t) /\ Elements(t) = Elements(q) \ {f}
  BY <1>1, <1>2, TakeHead
<1>4. Elements(mhand[m]) = {} /\ Len(q) \in Nat /\ Capacity \in Nat
  BY <1>2, Nothing, LenProperties, PipelineAssumption
<1> HIDE DEF q, f, t
<1>5. hand \in Seq(FlowItems) /\ Len(hand) = 1 /\ Elements(hand) = {f}
  BY <1>3, OneInHand
<1> HIDE DEF hand
<1>6. /\ mqueue'[m] = t /\ mhand'[m] = hand /\ mpc'[m] = "packet"
      /\ \A n \in Managers : n # m => mqueue'[n] = mqueue[n] /\ mhand'[n] = mhand[n] /\ mpc'[n] = mpc[n]
  BY <1>1, <1>2
<1>7. TypeOK'
  <2>1. mqueue' \in [Managers -> Seq(FlowItems)] /\ mhand' \in [Managers -> Seq(FlowItems)]
    BY <1>1, <1>2, <1>3, <1>5
  <2>2. \A n \in Managers : Len(mqueue'[n]) <= Capacity
    <3>1. Len(t) <= Capacity
      BY <1>2, <1>3, <1>4
    <3> QED BY <1>6, <3>1 DEF TypeOK
  <2>3. mpc' \in [Managers -> {"take", "packet", "flow"}]
    BY <1>1, <1>2
  <2> QED BY <1>1, <2>1, <2>2, <2>3 DEF TypeOK
<1>8. Phases'
  <2>1. \A n \in Managers : IF mpc'[n] = "take" THEN mhand'[n] = <<>> ELSE Len(mhand'[n]) = 1
    BY <1>5, <1>6 DEF Phases
  <2> QED BY <1>1, <2>1 DEF Phases
<1>9. Homes'
  BY <1>1 DEF Homes
<1>10. Preparing' /\ Prepared'
  BY <1>1, GeneratorsKept
<1>11. FlowsApart'
  <2>1. /\ \A o \in Parsers : Distinct(fbatch'[o]) /\ Distinct(ppool'[o])
        /\ \A n \in Managers : Distinct(mqueue'[n])
    BY <1>1, <1>3, <1>6 DEF FlowsApart
  <2> DEFINE from == <<"mqueue", m>>
             to == <<"mhand", m>>
             X == {f}
  <2>2. /\ from \in FlowPlace /\ to \in FlowPlace /\ from # to
        /\ X \subseteq FlowsAt(ppool, fbatch, mqueue, mhand)[from]
    BY <1>3, AtManager DEF q
  <2>3. ASSUME NEW o \in Parsers
        PROVE  /\ Elements(ppool'[o]) = Moved(<<"ppool", o>>, Elements(ppool[o]), from, to, X)
               /\ Elements(fbatch'[o]) = Moved(<<"fbatch", o>>, Elements(fbatch[o]), from, to, X)
    BY <1>1 DEF Moved
  <2>4. ASSUME NEW n \in Managers
        PROVE  /\ Elements(mqueue'[n]) = Moved(<<"mqueue", n>>, Elements(mqueue[n]), from, to, X)
               /\ Elements(mhand'[n]) = Moved(<<"mhand", n>>, Elements(mhand[n]), from, to, X)
    <3>1. Elements(mqueue'[n]) = IF n = m THEN Elements(mqueue[n]) \ X ELSE Elements(mqueue[n])
      BY <1>3, <1>6 DEF q
    <3>2. Elements(mhand'[n]) = IF n = m THEN Elements(mhand[n]) \cup X ELSE Elements(mhand[n])
      BY <1>4, <1>5, <1>6
    <3> HIDE DEF X
    <3>3. /\ <<"mqueue", n>> # to /\ (<<"mqueue", n>> = from <=> n = m)
          /\ <<"mhand", n>> # from /\ (<<"mhand", n>> = to <=> n = m)
      OBVIOUS
    <3> QED BY <3>1, <3>2, <3>3 DEF Moved
  <2> HIDE DEF from, to, X
  <2>5. Partition(FlowsAt(ppool', fbatch', mqueue', mhand'), FlowItems)
    <3>1. FlowsMoved(ppool, fbatch, mqueue, mhand, ppool', fbatch', mqueue', mhand', from, to, X)
      BY <2>2, <2>3, <2>4 DEF FlowsMoved
    <3>2. Partition(FlowsAt(ppool, fbatch, mqueue, mhand), FlowItems)
      BY DEF FlowsApart
    <3> QED BY <3>1, <3>2, MoveFlows
  <2> QED BY <2>1, <2>5 DEF FlowsApart
<1>12. Owning' = Owning
  <2>1. ASSUME NEW y
        PROVE  (\E n \in Managers : y \in Elements(mqueue'[n]))
                 \/ (\E n \in Managers : mpc'[n] = "packet" /\ y \in Elements(mhand'[n]))
               <=> (\E n \in Managers : y \in Elements(mqueue[n]))
                 \/ (\E n \in Managers : mpc[n] = "packet" /\ y \in Elements(mhand[n]))
    <3>1. CASE y = f
      BY <1>3, <1>5, <1>6, <3>1 DEF q
    <3>2. CASE y # f
      <4>1. \A n \in Managers : y \in Elements(mqueue'[n]) <=> y \in Elements(mqueue[n])
        BY <1>3, <1>6, <3>2 DEF q
      <4>2. \A n \in Managers : mpc'[n] = "packet" /\ y \in Elements(mhand'[n])
                                <=> mpc[n] = "packet" /\ y \in Elements(mhand[n])
        BY <1>4, <1>5, <1>6, <3>2
      <4> QED BY <4>1, <4>2
    <3> QED BY <3>1, <3>2
  <2>2. UNCHANGED <<ppc, fbatch>>
    BY <1>1
  <2> QED BY <2>1, <2>2 DEF Owning
<1>13. PacketsApart'
  BY <1>1, <1>12, PacketsKept
<1> QED BY <1>7, <1>8, <1>9, <1>10, <1>11, <1>13

(* The flow in hand goes to the pool it came from; its packet is gone. *)
LEMMA RecycleFlowStep ==
    ASSUME IInv, NEW m \in Managers, RecycleFlow(m)
    PROVE  IInv'
<1> USE DEF IInv
<1> DEFINE f == mhand[m][1]
           p == FlowOf[f]
           q == ppool[p]
           r == Append(q, f)
<1>1. /\ mpc[m] = "flow" /\ Len(q) + 1 <= Capacity /\ ppool' = [ppool EXCEPT ![p] = r]
      /\ packet' = [packet EXCEPT ![f] = NoPacket] /\ mhand' = [mhand EXCEPT ![m] = <<>>]
      /\ mpc' = [mpc EXCEPT ![m] = "take"]
      /\ UNCHANGED <<gpool, pqueue, mqueue, pbatch, fbatch, ppc, depth>>
      /\ UNCHANGED <<ghand, gpc, prepared, next_thread_id, target, pool, mode>>
  BY DEF RecycleFlow, Room, Goto, genVars
<1>2. /\ ppool \in [Parsers -> Seq(FlowItems)] /\ mhand \in [Managers -> Seq(FlowItems)]
      /\ mpc \in [Managers -> {"take", "packet", "flow"}]
      /\ packet \in [FlowItems -> Packets \cup {NoPacket}]
      /\ mhand[m] \in Seq(FlowItems) /\ Len(mhand[m]) = 1
  <2>1. Len(mhand[m]) = 1
    BY <1>1 DEF Phases
  <2> QED BY <2>1 DEF TypeOK
<1>3. f \in FlowItems /\ Elements(mhand[m]) = {f} /\ p \in Parsers
  BY <1>2, OneInHand, PipelineAssumption
<1>4. /\ \A o \in Parsers : f \notin Elements(ppool[o]) /\ f \notin Elements(fbatch[o])
      /\ \A n \in Managers : f \notin Elements(mqueue[n]) /\ (f \in Elements(mhand[n]) => n = m)
  <2>1. f \in FlowItems /\ f \in Elements(mhand[m])
    BY <1>3
  <2> HIDE DEF f
  <2> QED BY <2>1, FlowOnce
<1>5. q \in Seq(FlowItems) /\ Distinct(q) /\ f \notin Elements(q)
  <2>1. Distinct(q)
    BY <1>3 DEF FlowsApart
  <2> QED BY <1>2, <1>3, <1>4, <2>1
<1>6. f \notin Owning
  <2> HIDE DEF f
  <2> QED BY <1>1, <1>4 DEF Owning
<1> HIDE DEF f, p, q
<1>7. r \in Seq(FlowItems) /\ Len(r) = Len(q) + 1 /\ Distinct(r) /\ Elements(r) = Elements(q) \cup {f}
  BY <1>3, <1>5, AddLast
<1> HIDE DEF r
<1>8. /\ ppool'[p] = r /\ \A o \in Parsers : o # p => ppool'[o] = ppool[o]
      /\ mhand'[m] = <<>> /\ mpc'[m] = "take"
      /\ \A n \in Managers : n # m => mhand'[n] = mhand[n] /\ mpc'[n] = mpc[n]
      /\ \A y \in FlowItems : y # f => packet'[y] = packet[y]
  BY <1>1, <1>2, <1>3
<1>9. TypeOK'
  <2>1. ppool' \in [Parsers -> Seq(FlowItems)] /\ mhand' \in [Managers -> Seq(FlowItems)]
    <3>1. <<>> \in Seq(FlowItems)
      BY EmptySeq
    <3> QED BY <1>1, <1>2, <1>7, <3>1
  <2>2. \A o \in Parsers : Len(ppool'[o]) <= Capacity
    <3>1. Len(r) <= Capacity
      BY <1>1, <1>7
    <3> QED BY <1>8, <3>1 DEF TypeOK
  <2>3. mpc' \in [Managers -> {"take", "packet", "flow"}] /\ packet' \in [FlowItems -> Packets \cup {NoPacket}]
    BY <1>1, <1>2
  <2> QED BY <1>1, <2>1, <2>2, <2>3 DEF TypeOK
<1>10. Phases'
  <2>1. \A n \in Managers : IF mpc'[n] = "take" THEN mhand'[n] = <<>> ELSE Len(mhand'[n]) = 1
    BY <1>8 DEF Phases
  <2> QED BY <1>1, <2>1 DEF Phases
<1>11. Homes'
  <2>1. \A o \in Parsers : \A y \in Elements(ppool'[o]) : FlowOf[y] = o
    BY <1>7, <1>8 DEF Homes, q, p
  <2> QED BY <1>1, <2>1 DEF Homes
<1>12. Preparing' /\ Prepared'
  BY <1>1, GeneratorsKept
<1>13. FlowsApart'
  <2>1. /\ \A o \in Parsers : Distinct(fbatch'[o]) /\ Distinct(ppool'[o])
        /\ \A n \in Managers : Distinct(mqueue'[n])
    BY <1>1, <1>7, <1>8 DEF FlowsApart
  <2> DEFINE from == <<"mhand", m>>
             to == <<"ppool", p>>
             X == {f}
  <2>2. /\ from \in FlowPlace /\ to \in FlowPlace /\ from # to
        /\ X \subseteq FlowsAt(ppool, fbatch, mqueue, mhand)[from]
    BY <1>3, AtManager, AtParser
  <2>3. ASSUME NEW o \in Parsers
        PROVE  /\ Elements(ppool'[o]) = Moved(<<"ppool", o>>, Elements(ppool[o]), from, to, X)
               /\ Elements(fbatch'[o]) = Moved(<<"fbatch", o>>, Elements(fbatch[o]), from, to, X)
    <3>1. Elements(ppool'[o]) = IF o = p THEN Elements(ppool[o]) \cup X ELSE Elements(ppool[o])
      BY <1>7, <1>8 DEF q
    <3> HIDE DEF X
    <3>2. <<"ppool", o>> # from /\ (<<"ppool", o>> = to <=> o = p)
      OBVIOUS
    <3> QED BY <1>1, <3>1, <3>2 DEF Moved
  <2>4. ASSUME NEW n \in Managers
        PROVE  /\ Elements(mqueue'[n]) = Moved(<<"mqueue", n>>, Elements(mqueue[n]), from, to, X)
               /\ Elements(mhand'[n]) = Moved(<<"mhand", n>>, Elements(mhand[n]), from, to, X)
    <3>1. Elements(mhand'[n]) = IF n = m THEN Elements(mhand[n]) \ X ELSE Elements(mhand[n])
      BY <1>3, <1>8, Nothing
    <3> HIDE DEF X
    <3>2. <<"mhand", n>> # to /\ (<<"mhand", n>> = from <=> n = m)
      OBVIOUS
    <3> QED BY <1>1, <3>1, <3>2 DEF Moved
  <2> HIDE DEF from, to, X
  <2>5. Partition(FlowsAt(ppool', fbatch', mqueue', mhand'), FlowItems)
    <3>1. FlowsMoved(ppool, fbatch, mqueue, mhand, ppool', fbatch', mqueue', mhand', from, to, X)
      BY <2>2, <2>3, <2>4 DEF FlowsMoved
    <3>2. Partition(FlowsAt(ppool, fbatch, mqueue, mhand), FlowItems)
      BY DEF FlowsApart
    <3> QED BY <3>1, <3>2, MoveFlows
  <2> QED BY <2>1, <2>5 DEF FlowsApart
<1>14. Owning' = Owning
  <2>1. \A n \in Managers : mpc'[n] = "packet" <=> mpc[n] = "packet"
    BY <1>1, <1>8
  <2>2. \A n \in Managers : mpc[n] = "packet" => mhand'[n] = mhand[n]
    BY <1>1, <1>8
  <2>3. UNCHANGED <<ppc, fbatch, mqueue>>
    BY <1>1
  <2> QED BY <2>1, <2>2, <2>3 DEF Owning
<1>15. PacketsApart'
  <2>1. \A y \in Owning : packet'[y] = packet[y]
    BY <1>6, <1>8 DEF Owning
  <2> QED BY <1>1, <1>14, <2>1, PacketsKept
<1> QED BY <1>9, <1>10, <1>11, <1>12, <1>13, <1>15

(* The packet of the flow in hand goes back; the flow no longer owns it. *)
LEMMA RecyclePacketStep ==
    ASSUME IInv, NEW m \in Managers, RecyclePacket(m)
    PROVE  IInv'
<1> USE DEF IInv
<1> DEFINE f == mhand[m][1]
           x == packet[f]
           h == PacketOf[x]
           q == gpool[h]
           r == Append(q, x)
           X == {x}
<1>1. /\ mpc[m] = "packet" /\ Len(gpool[pool[x]]) + 1 <= Capacity
      /\ gpool' = [gpool EXCEPT ![pool[x]] = Append(gpool[pool[x]], x)]
      /\ mpc' = [mpc EXCEPT ![m] = "flow"]
      /\ UNCHANGED <<ppool, pqueue, mqueue, mhand, pbatch, fbatch, ppc, packet, depth>>
      /\ UNCHANGED <<ghand, gpc, prepared, next_thread_id, target, pool, mode>>
  BY DEF RecyclePacket, Room, Goto, genVars, parVars
<1>2. /\ gpool \in [Generators -> Seq(Packets)] /\ mpc \in [Managers -> {"take", "packet", "flow"}]
      /\ mhand[m] \in Seq(FlowItems) /\ Len(mhand[m]) = 1
  <2>1. Len(mhand[m]) = 1
    BY <1>1 DEF Phases
  <2> QED BY <2>1 DEF TypeOK
<1>3. f \in FlowItems /\ Elements(mhand[m]) = {f}
  BY <1>2, OneInHand
<1>4. /\ \A o \in Parsers : f \notin Elements(fbatch[o])
      /\ \A n \in Managers : f \notin Elements(mqueue[n]) /\ (f \in Elements(mhand[n]) => n = m)
  <2>1. f \in FlowItems /\ f \in Elements(mhand[m])
    BY <1>3
  <2> HIDE DEF f
  <2> QED BY <2>1, FlowOnce
<1>5. f \in Owning
  <2> HIDE DEF f
  <2> QED BY <1>1, <1>3 DEF Owning
<1>6. x \in Carried /\ x \in Packets
  BY <1>5 DEF Carried, PacketsApart
<1>7. x \notin Elements(q) /\ h \in Generators
  <2>1. PICK o \in Parsers : TRUE
    BY PipelineAssumption DEF Parsers
  <2>2. h \in Generators
    BY <1>6, PipelineAssumption
  <2> HIDE DEF f, x, h
  <2> QED BY <1>6, <2>1, <2>2, PacketOnce
<1>8. pool[x] = h /\ gpc[h] # "prepare"
  <2> HIDE DEF f, x
  <2> QED BY <1>6, <1>7, KnowsHome
<1>9. q \in Seq(Packets) /\ Distinct(q)
  <2> HIDE DEF f, x, h
  <2> QED BY <1>2, <1>7 DEF PacketsApart
<1> HIDE DEF f, x, h, q
<1>10. r \in Seq(Packets) /\ Len(r) = Len(q) + 1 /\ Distinct(r) /\ Elements(r) = Elements(q) \cup {x}
  BY <1>6, <1>7, <1>9, AddLast
<1>11. gpool' = [gpool EXCEPT ![h] = r] /\ Len(r) <= Capacity
  BY <1>1, <1>8, <1>10 DEF q
<1> HIDE DEF r
<1>12. Elements(r) = Elements(gpool[h]) \cup X /\ \A y \in X : PacketOf[y] = h
  BY <1>10 DEF q, h
<1> HIDE DEF X
<1>13. /\ gpool' \in [Generators -> Seq(Packets)]
       /\ \A g \in Generators : /\ Len(gpool'[g]) <= Capacity /\ Distinct(gpool'[g])
                                /\ \A y \in Elements(gpool'[g]) : PacketOf[y] = g
                                /\ Elements(gpool'[g]) = IF g = h THEN Elements(gpool[g]) \cup X
                                                         ELSE Elements(gpool[g])
       /\ Preparing' /\ Prepared'
  <2>1. UNCHANGED <<pool, prepared, mode>> /\ \A g \in Generators : gpc'[g] = "prepare" <=> gpc[g] = "prepare"
    BY <1>1
  <2> QED BY <1>7, <1>8, <1>10, <1>11, <1>12, <2>1, PoolGains
<1>14. mpc'[m] = "flow" /\ \A n \in Managers : n # m => mpc'[n] = mpc[n]
  BY <1>1, <1>2
<1>15. TypeOK'
  <2>1. mpc' \in [Managers -> {"take", "packet", "flow"}]
    BY <1>1, <1>2
  <2> QED BY <1>1, <1>13, <2>1 DEF TypeOK
<1>16. Phases'
  <2>1. \A n \in Managers : IF mpc'[n] = "take" THEN mhand'[n] = <<>> ELSE Len(mhand'[n]) = 1
    BY <1>1, <1>14 DEF Phases
  <2> QED BY <1>1, <2>1 DEF Phases
<1>17. Homes'
  BY <1>1, <1>13 DEF Homes
<1>18. FlowsApart'
  BY <1>1, FlowsKept
<1>19. ASSUME NEW y PROVE y \in Owning' <=> y \in Owning /\ y # f
  <2>1. CASE y = f
    BY <1>1, <1>4, <1>14, <2>1 DEF Owning
  <2>2. CASE y # f
    <3>1. \A n \in Managers : mpc'[n] = "packet" /\ y \in Elements(mhand[n])
                              <=> mpc[n] = "packet" /\ y \in Elements(mhand[n])
      BY <1>3, <1>14, <2>2
    <3> QED BY <1>1, <2>2, <3>1 DEF Owning
  <2> QED BY <2>1, <2>2
<1>20. Carried' = Carried \ X
  <2>1. \A y, z \in Owning : packet[y] = packet[z] => y = z
    BY DEF PacketsApart
  <2>2. ASSUME NEW z PROVE z \in Carried' <=> z \in Carried /\ z # x
    BY <1>1, <1>5, <1>19, <2>1 DEF Carried, x
  <2> QED BY <2>2 DEF X
<1>21. PacketsApart'
  <2>1. /\ Carried' \subseteq Packets
        /\ \A y, z \in Owning' : packet'[y] = packet'[z] => y = z
    BY <1>1, <1>19, <1>20 DEF PacketsApart
  <2> DEFINE from == <<"flow", 0>>
             to == <<"gpool", h>>
  <2>2. /\ from \in PacketPlace /\ to \in PacketPlace /\ from # to
        /\ X \subseteq PacketsAt(gpool, ghand, pqueue, pbatch, Carried)[from]
    <3>1. from \in PacketPlace /\ to \in PacketPlace
      BY <1>7 DEF PacketPlace
    <3>2. PacketsAt(gpool, ghand, pqueue, pbatch, Carried)[from] = Carried
      BY <3>1 DEF PacketsAt
    <3> QED BY <1>6, <3>1, <3>2 DEF X
  <2>3. ASSUME NEW g \in Generators
        PROVE  /\ Elements(gpool'[g]) = Moved(<<"gpool", g>>, Elements(gpool[g]), from, to, X)
               /\ {ghand'[g]} \ {NoPacket} = Moved(<<"ghand", g>>, {ghand[g]} \ {NoPacket}, from, to, X)
    BY <1>1, <1>13 DEF Moved
  <2>4. ASSUME NEW o \in Parsers
        PROVE  /\ Elements(pqueue'[o]) = Moved(<<"pqueue", o>>, Elements(pqueue[o]), from, to, X)
               /\ Elements(pbatch'[o]) = Moved(<<"pbatch", o>>, Elements(pbatch[o]), from, to, X)
    BY <1>1 DEF Moved
  <2>5. Carried' = Moved(<<"flow", 0>>, Carried, from, to, X)
    BY <1>20 DEF Moved
  <2> HIDE DEF from, to
  <2>6. Partition(PacketsAt(gpool', ghand', pqueue', pbatch', Carried'), Packets)
    <3>1. PacketsMoved(gpool, ghand, pqueue, pbatch, Carried,
                       gpool', ghand', pqueue', pbatch', Carried', from, to, X)
      BY <2>2, <2>3, <2>4, <2>5 DEF PacketsMoved
    <3>2. Partition(PacketsAt(gpool, ghand, pqueue, pbatch, Carried), Packets)
      BY DEF PacketsApart
    <3> QED BY <3>1, <3>2, MovePackets
  <2> QED BY <1>1, <1>13, <2>1, <2>6 DEF PacketsApart
<1> QED BY <1>13, <1>15, <1>16, <1>17, <1>18, <1>21

-----------------------------------------------------------------------------
(* The invariant holds. *)

(* A pool filled once with as many items as it has, all of them, holds each *)
(* of them once.                                                            *)
LEMMA FilledOnce ==
    ASSUME NEW S, IsFiniteSet(S), NEW q \in Orders(S)
    PROVE  q \in Seq(S) /\ Len(q) = Cardinality(S) /\ Elements(q) = S /\ Distinct(q)
<1> DEFINE n == Cardinality(S)
<1>1. n \in Nat
  BY FS_CardinalityType
<1>2. q \in [1..n -> S] /\ DOMAIN q = 1..n /\ \A x \in S : \E i \in 1..n : q[i] = x
  BY DEF Orders
<1>3. q \in Seq(S) /\ Len(q) = n
  BY <1>1, <1>2
<1>4. IsFiniteSet(1..n) /\ Cardinality(1..n) = n
  <2> HIDE DEF n
  <2>1. 1 \in Int /\ n \in Int
    BY <1>1
  <2>2. IsFiniteSet(1..n) /\ Cardinality(1..n) = IF 1 > n THEN 0 ELSE n - 1 + 1
    BY <2>1, FS_Interval
  <2> QED BY <1>1, <2>2
<1>5. q \in Surjection(1..n, S)
  BY <1>2 DEF Surjection
<1>6. q \in Injection(1..n, S)
  <2>1. Cardinality(1..n) = Cardinality(S)
    BY <1>4
  <2> HIDE DEF n
  <2> QED BY <1>4, <1>5, <2>1, FS_SurjSameCardinalityImpliesInj
<1> HIDE DEF n
<1>7. Distinct(q)
  BY <1>6 DEF Injection, IsInjective, Distinct
<1>8. ASSUME NEW x PROVE x \in Elements(q) <=> x \in S
  BY <1>2 DEF Elements
<1> QED BY <1>3, <1>7, <1>8 DEF n

(* It holds initially, *)
LEMMA InitIInv == Init => IInv
<1> SUFFICES ASSUME Init PROVE IInv
  OBVIOUS
<1>1. /\ GNums \in Nat \ {0} /\ PNums \in Nat \ {0} /\ GNums <= PNums /\ Capacity \in Nat
      /\ \A x \in Packets : PacketOf[x] \in Generators
      /\ \A f \in FlowItems : FlowOf[f] \in Parsers
      /\ NoPacket \notin Packets /\ StartDepths \subseteq Depths
  BY PipelineAssumption
<1>2. \A g \in Generators : gpool[g] \in Orders(PacketsOf(g)) /\ DOMAIN gpool = Generators
  BY DEF Init, Filled
<1>3. \A p \in Parsers : ppool[p] \in Orders(FlowsOf(p)) /\ DOMAIN ppool = Parsers
  BY DEF Init, Filled
<1>4. \A g \in Generators : /\ gpool[g] \in Seq(Packets) /\ Len(gpool[g]) <= Capacity
                            /\ Len(gpool[g]) >= 1
                            /\ Elements(gpool[g]) = PacketsOf(g) /\ Distinct(gpool[g])
  <2>1. SUFFICES ASSUME NEW g \in Generators
                 PROVE  /\ gpool[g] \in Seq(Packets) /\ Len(gpool[g]) <= Capacity
                        /\ Len(gpool[g]) >= 1
                        /\ Elements(gpool[g]) = PacketsOf(g) /\ Distinct(gpool[g])
    OBVIOUS
  <2>2. PacketsOf(g) \in SUBSET Packets
    BY DEF PacketsOf
  <2>3. IsFiniteSet(PacketsOf(g))
    BY <2>2, PipelineAssumption, FS_Subset
  <2>4. /\ gpool[g] \in Seq(PacketsOf(g)) /\ Len(gpool[g]) = Cardinality(PacketsOf(g))
        /\ Elements(gpool[g]) = PacketsOf(g) /\ Distinct(gpool[g])
    BY <1>2, <2>3, FilledOnce
  <2>5. gpool[g] \in Seq(Packets)
    BY <2>2, <2>4
  <2>6. Cardinality(PacketsOf(g)) \in 1..Capacity
    BY PipelineAssumption
  <2> QED BY <1>1, <2>4, <2>5, <2>6
<1>5. \A p \in Parsers : /\ ppool[p] \in Seq(FlowItems) /\ Len(ppool[p]) <= Capacity
                         /\ Elements(ppool[p]) = FlowsOf(p) /\ Distinct(ppool[p])
  <2>1. SUFFICES ASSUME NEW p \in Parsers
                 PROVE  /\ ppool[p] \in Seq(FlowItems) /\ Len(ppool[p]) <= Capacity
                        /\ Elements(ppool[p]) = FlowsOf(p) /\ Distinct(ppool[p])
    OBVIOUS
  <2>2. FlowsOf(p) \in SUBSET FlowItems
    BY DEF FlowsOf
  <2>3. IsFiniteSet(FlowsOf(p))
    BY <2>2, PipelineAssumption, FS_Subset
  <2>4. /\ ppool[p] \in Seq(FlowsOf(p)) /\ Len(ppool[p]) = Cardinality(FlowsOf(p))
        /\ Elements(ppool[p]) = FlowsOf(p) /\ Distinct(ppool[p])
    BY <1>3, <2>3, FilledOnce
  <2>5. ppool[p] \in Seq(FlowItems)
    BY <2>2, <2>4
  <2>6. Cardinality(FlowsOf(p)) \in 1..Capacity
    BY PipelineAssumption
  <2> QED BY <1>1, <2>4, <2>5, <2>6
<1>6. /\ \A p \in Parsers : /\ pqueue[p] = <<>> /\ pbatch[p] = <<>> /\ fbatch[p] = <<>> /\ ppc[p] = "take"
      /\ \A m \in Managers : mqueue[m] = <<>> /\ mhand[m] = <<>> /\ mpc[m] = "take"
      /\ \A g \in Generators : /\ ghand[g] = NoPacket /\ gpc[g] = "prepare" /\ prepared[g] = 0
                               /\ next_thread_id[g] = g /\ target[g] = g
  BY DEF Init
<1>7. \A g \in Generators : g \in Parsers /\ g % GNums = g
  BY <1>1 DEF Generators, Parsers
<1>8. Capacity >= 1
  <2>1. 0 \in Generators
    BY <1>1 DEF Generators
  <2>2. Cardinality(PacketsOf(0)) \in 1..Capacity
    BY <2>1, PipelineAssumption
  <2> QED BY <1>1, <2>2
<1>9. TypeOK
  <2>1. gpool = [g \in Generators |-> gpool[g]] /\ ppool = [p \in Parsers |-> ppool[p]]
    BY DEF Init, Filled
  <2>2. gpool \in [Generators -> Seq(Packets)] /\ ppool \in [Parsers -> Seq(FlowItems)]
    BY <1>4, <1>5, <2>1
  <2>3. /\ pqueue \in [Parsers -> Seq(Packets)] /\ mqueue \in [Managers -> Seq(FlowItems)]
        /\ pbatch \in [Parsers -> Seq(Packets)] /\ fbatch \in [Parsers -> Seq(FlowItems)]
        /\ mhand \in [Managers -> Seq(FlowItems)]
    BY EmptySeq DEF Init
  <2>4. /\ \A p \in Parsers : Len(pqueue[p]) <= Capacity
        /\ \A m \in Managers : Len(mqueue[m]) <= Capacity
    BY <1>1, <1>6, Nothing
  <2>5. /\ pool \in [Packets -> Generators \cup {NoPool}]
        /\ packet \in [FlowItems -> Packets \cup {NoPacket}]
        /\ ghand \in [Generators -> Packets \cup {NoPacket}]
        /\ gpc \in [Generators -> {"prepare", "take", "send", "return"}]
        /\ ppc \in [Parsers -> {"take", "flows", "forward", "packets", "flowsback"}]
        /\ mpc \in [Managers -> {"take", "packet", "flow"}]
        /\ mode \in Modes /\ depth \in Depths
    BY <1>1 DEF Init
  <2>6. prepared \in [Generators -> 0..Capacity]
    BY <1>1 DEF Init
  <2>7. next_thread_id \in [Generators -> Parsers] /\ target \in [Generators -> Parsers]
    BY <1>7 DEF Init
  <2> QED BY <1>4, <1>5, <2>2, <2>3, <2>4, <2>5, <2>6, <2>7 DEF TypeOK
<1>10. Phases
  BY <1>6 DEF Phases
<1>11. Homes
  <2>1. Elements(<<>>) = {}
    BY Nothing
  <2>2. \A g \in Generators : \A x \in Elements(gpool[g]) : PacketOf[x] = g
    BY <1>4 DEF PacketsOf
  <2>3. \A p \in Parsers : \A f \in Elements(ppool[p]) : FlowOf[f] = p
    BY <1>5 DEF FlowsOf
  <2> QED BY <1>6, <1>7, <2>1, <2>2, <2>3 DEF Homes
<1>12. Preparing
  <2>1. ASSUME NEW g \in Generators, NEW i \in DOMAIN gpool[g] PROVE ~(i > Len(gpool[g]) - prepared[g])
    <3>1. i \in 1..Len(gpool[g]) /\ Len(gpool[g]) \in Nat /\ prepared[g] = 0
      BY <1>4, <1>6, LenProperties
    <3> QED BY <3>1
  <2> QED BY <1>1, <1>4, <1>6, <1>8, <2>1 DEF Preparing
<1>13. Prepared
  BY <1>1, <1>4, <1>6 DEF Prepared, PacketsOf
<1>14. Owning = {} /\ Carried = {}
  <2>1. Owning = {}
    BY <1>6, Nothing DEF Owning
  <2> QED BY <2>1 DEF Carried
<1>15. FlowsApart
  <2> DEFINE A == FlowsAt(ppool, fbatch, mqueue, mhand)
  <2>1. /\ DOMAIN A = FlowPlace
        /\ \A p \in Parsers : /\ <<"ppool", p>> \in FlowPlace /\ <<"fbatch", p>> \in FlowPlace
                              /\ A[<<"ppool", p>>] = Elements(ppool[p])
                              /\ A[<<"fbatch", p>>] = Elements(fbatch[p])
        /\ \A m \in Managers : /\ <<"mqueue", m>> \in FlowPlace /\ <<"mhand", m>> \in FlowPlace
                               /\ A[<<"mqueue", m>>] = Elements(mqueue[m])
                               /\ A[<<"mhand", m>>] = Elements(mhand[m])
        /\ \A k \in FlowPlace : \/ \E p \in Parsers : k = <<"ppool", p>> \/ k = <<"fbatch", p>>
                                \/ \E m \in Managers : k = <<"mqueue", m>> \/ k = <<"mhand", m>>
    BY FlowsAtEach
  <2> HIDE DEF A
  <2>2. /\ \A p \in Parsers : A[<<"fbatch", p>>] = {} /\ A[<<"ppool", p>>] = FlowsOf(p)
        /\ \A m \in Managers : A[<<"mqueue", m>>] = {} /\ A[<<"mhand", m>>] = {}
    BY <1>5, <1>6, <2>1, Nothing
  <2>3. ASSUME NEW f \in FlowItems
        PROVE  \E k \in FlowPlace : \A j \in FlowPlace : f \in A[j] <=> j = k
    <3> DEFINE p == FlowOf[f]
               k == <<"ppool", p>>
    <3>1. p \in Parsers /\ k \in FlowPlace /\ f \in FlowsOf(p)
      BY <1>1, <2>1 DEF FlowsOf
    <3>2. ASSUME NEW j \in FlowPlace PROVE f \in A[j] <=> j = k
      <4>1. CASE \E o \in Parsers : j = <<"ppool", o>>
        <5>1. PICK o \in Parsers : j = <<"ppool", o>>
          BY <4>1
        <5>2. f \in A[j] <=> o = p
          BY <2>2, <5>1 DEF FlowsOf
        <5> QED BY <5>1, <5>2
      <4>2. CASE \E o \in Parsers : j = <<"fbatch", o>>
        <5>1. f \notin A[j]
          BY <2>2, <4>2
        <5>2. j # k
          BY <4>2
        <5> QED BY <5>1, <5>2
      <4>3. CASE \E m \in Managers : j = <<"mqueue", m>> \/ j = <<"mhand", m>>
        <5>1. f \notin A[j]
          BY <2>2, <4>3
        <5>2. j # k
          BY <4>3
        <5> QED BY <5>1, <5>2
      <4> QED BY <2>1, <4>1, <4>2, <4>3
    <3> QED BY <3>1, <3>2
  <2>4. Partition(A, FlowItems)
    BY <2>1, <2>3 DEF Partition
  <2> QED BY <1>5, <1>6, <2>4, Nothing DEF FlowsApart, A
<1>16. PacketsApart
  <2> DEFINE A == PacketsAt(gpool, ghand, pqueue, pbatch, Carried)
  <2>1. /\ DOMAIN A = PacketPlace
        /\ \A g \in Generators : /\ <<"gpool", g>> \in PacketPlace /\ <<"ghand", g>> \in PacketPlace
                                 /\ A[<<"gpool", g>>] = Elements(gpool[g])
                                 /\ A[<<"ghand", g>>] = {ghand[g]} \ {NoPacket}
        /\ \A p \in Parsers : /\ <<"pqueue", p>> \in PacketPlace /\ <<"pbatch", p>> \in PacketPlace
                              /\ A[<<"pqueue", p>>] = Elements(pqueue[p])
                              /\ A[<<"pbatch", p>>] = Elements(pbatch[p])
        /\ <<"flow", 0>> \in PacketPlace /\ A[<<"flow", 0>>] = Carried
        /\ \A k \in PacketPlace : \/ \E g \in Generators : k = <<"gpool", g>> \/ k = <<"ghand", g>>
                                  \/ \E p \in Parsers : k = <<"pqueue", p>> \/ k = <<"pbatch", p>>
                                  \/ k = <<"flow", 0>>
    BY PacketsAtEach
  <2> HIDE DEF A
  <2>2. /\ \A g \in Generators : A[<<"gpool", g>>] = PacketsOf(g) /\ A[<<"ghand", g>>] = {}
        /\ \A p \in Parsers : A[<<"pqueue", p>>] = {} /\ A[<<"pbatch", p>>] = {}
        /\ A[<<"flow", 0>>] = {}
    BY <1>4, <1>6, <1>14, <2>1, Nothing
  <2>3. ASSUME NEW x \in Packets
        PROVE  \E k \in PacketPlace : \A j \in PacketPlace : x \in A[j] <=> j = k
    <3> DEFINE h == PacketOf[x]
               k == <<"gpool", h>>
    <3>1. h \in Generators /\ k \in PacketPlace /\ x \in PacketsOf(h)
      BY <1>1, <2>1 DEF PacketsOf
    <3>2. ASSUME NEW j \in PacketPlace PROVE x \in A[j] <=> j = k
      <4>1. CASE \E g \in Generators : j = <<"gpool", g>>
        <5>1. PICK g \in Generators : j = <<"gpool", g>>
          BY <4>1
        <5>2. x \in A[j] <=> g = h
          BY <2>2, <5>1 DEF PacketsOf
        <5> QED BY <5>1, <5>2
      <4>2. CASE \E g \in Generators : j = <<"ghand", g>>
        <5>1. x \notin A[j]
          BY <2>2, <4>2
        <5>2. j # k
          BY <4>2
        <5> QED BY <5>1, <5>2
      <4>3. CASE \E p \in Parsers : j = <<"pqueue", p>> \/ j = <<"pbatch", p>>
        <5>1. x \notin A[j]
          BY <2>2, <4>3
        <5>2. j # k
          BY <4>3
        <5> QED BY <5>1, <5>2
      <4>4. CASE j = <<"flow", 0>>
        BY <2>2, <4>4
      <4> QED BY <2>1, <4>1, <4>2, <4>3, <4>4
    <3> QED BY <3>1, <3>2
  <2>4. Partition(A, Packets)
    BY <2>1, <2>3 DEF Partition
  <2> QED BY <1>4, <1>6, <1>14, <2>4, Nothing DEF PacketsApart, A
<1> QED BY <1>9, <1>10, <1>11, <1>12, <1>13, <1>15, <1>16 DEF IInv

(* and every step keeps it. *)
LEMMA NextIInv == IInv /\ [Next]_vars => IInv'
<1> SUFFICES ASSUME IInv, [Next]_vars PROVE IInv'
  OBVIOUS
<1>1. CASE UNCHANGED vars \/ Reload
  <2>1. /\ UNCHANGED <<gpool, ppool, pqueue, mqueue, ghand, gpc, prepared, next_thread_id, target>>
        /\ UNCHANGED <<pool, mode, pbatch, fbatch, ppc, packet, mhand, mpc>>
    BY <1>1 DEF vars, Reload, genVars, parVars, manVars
  <2>2. depth' \in Depths
    BY <1>1 DEF vars, Reload, IInv, TypeOK
  <2>3. TypeOK'
    BY <2>1, <2>2 DEF IInv, TypeOK
  <2>4. Phases' /\ Homes' /\ Preparing' /\ Prepared'
    BY <2>1 DEF IInv, Phases, Homes, Preparing, Prepared
  <2>5. FlowsApart'
    BY <2>1, FlowsKept
  <2>6. PacketsApart'
    BY <2>1, CarriedKept, PacketsKept
  <2> QED BY <2>3, <2>4, <2>5, <2>6 DEF IInv
<1>2. ASSUME NEW g \in Generators, GeneratorStep(g) PROVE IInv'
  <2>1. CASE PreparePacket(g)
    BY <2>1, RotateStep DEF PreparePacket
  <2>2. CASE CleanPacket(g)
    BY <2>2, RotateStep DEF CleanPacket
  <2>3. CASE GeneratePacket(g)
    BY <2>3, TakePacketStep DEF GeneratePacket
  <2>4. CASE CollectPacket(g)
    BY <2>4, TakePacketStep DEF CollectPacket
  <2>5. CASE SendPacket(g) \/ ReturnPacket(g)
    BY <2>5, SendPacketStep, ReturnPacketStep
  <2> QED BY <1>2, <2>1, <2>2, <2>3, <2>4, <2>5 DEF GeneratorStep
<1>3. ASSUME NEW p \in Parsers, ParserStep(p) PROVE IInv'
  BY <1>3, TakeBatchStep, TakeFlowsStep, ReturnBatchStep, ReturnFlowsStep DEF ParserStep
<1>4. ASSUME NEW p \in Parsers, NEW m \in Managers, ForwardFlow(p, m) PROVE IInv'
  BY <1>4, ForwardFlowStep
<1>5. ASSUME NEW m \in Managers, ManagerStep(m) PROVE IInv'
  BY <1>5, TakeFlowStep, RecyclePacketStep, RecycleFlowStep DEF ManagerStep
<1> QED BY <1>1, <1>2, <1>3, <1>4, <1>5 DEF Next

(* So it always holds. *)
LEMMA Invariance == Spec => []IInv
BY InitIInv, NextIInv, PTL DEF Spec

-----------------------------------------------------------------------------
(* What the invariant gives. *)

(* The positions of an item in a queue, *)
LEMMA WhereElements ==
    ASSUME NEW q, NEW x PROVE Where(q, x) # {} <=> x \in Elements(q)
BY DEF Where, Elements

(* and in a family of queues. *)
LEMMA PlacesOf ==
    ASSUME NEW kind, NEW queues, NEW x, NEW z
    PROVE  z \in Places(kind, queues, x)
           <=> \E o \in DOMAIN queues : \E i \in DOMAIN queues[o] :
                 queues[o][i] = x /\ z = <<kind, o, i>>
BY DEF Places, Where

(* A flow owns its packet when OwnsPacket says so. *)
LEMMA OwningOwns ==
    ASSUME NEW f \in FlowItems PROVE OwnsPacket(f) <=> f \in Owning
<1>1. \A q : Where(q, f) # {} <=> f \in Elements(q)
  BY WhereElements
<1> QED BY <1>1 DEF OwnsPacket, Owning

(* An item with one place has one position there. *)
LEMMA PacketPosition ==
    ASSUME IInv, NEW x \in Packets PROVE Cardinality(PacketPlaces(x)) = 1
<1> DEFINE A == PacketsAt(gpool, ghand, pqueue, pbatch, Carried)
           P == PacketPlaces(x)
<1>1. /\ DOMAIN A = PacketPlace
      /\ \A o \in Generators : /\ <<"gpool", o>> \in PacketPlace /\ <<"ghand", o>> \in PacketPlace
                               /\ A[<<"gpool", o>>] = Elements(gpool[o])
                               /\ A[<<"ghand", o>>] = {ghand[o]} \ {NoPacket}
      /\ \A o \in Parsers : /\ <<"pqueue", o>> \in PacketPlace /\ <<"pbatch", o>> \in PacketPlace
                            /\ A[<<"pqueue", o>>] = Elements(pqueue[o])
                            /\ A[<<"pbatch", o>>] = Elements(pbatch[o])
      /\ <<"flow", 0>> \in PacketPlace /\ A[<<"flow", 0>>] = Carried
      /\ \A k \in PacketPlace : \/ \E g \in Generators : k = <<"gpool", g>> \/ k = <<"ghand", g>>
                                \/ \E p \in Parsers : k = <<"pqueue", p>> \/ k = <<"pbatch", p>>
                                \/ k = <<"flow", 0>>
  BY PacketsAtEach
<1>2. Partition(A, Packets) /\ x # NoPacket
  BY PipelineAssumption DEF IInv, PacketsApart
<1> HIDE DEF A
<1>3. PICK k \in PacketPlace : \A j \in PacketPlace : x \in A[j] <=> j = k
  BY <1>1, <1>2 DEF Partition
<1>4. /\ \A g \in Generators : /\ x \in Elements(gpool[g]) <=> <<"gpool", g>> = k
                               /\ ghand[g] = x <=> <<"ghand", g>> = k
      /\ \A p \in Parsers : /\ x \in Elements(pqueue[p]) <=> <<"pqueue", p>> = k
                            /\ x \in Elements(pbatch[p]) <=> <<"pbatch", p>> = k
      /\ x \in Carried <=> <<"flow", 0>> = k
  BY ZenonT(40), <1>1, <1>2, <1>3
<1>5. /\ DOMAIN gpool = Generators /\ DOMAIN pqueue = Parsers /\ DOMAIN pbatch = Parsers
      /\ \A g \in Generators : Distinct(gpool[g])
      /\ \A p \in Parsers : Distinct(pqueue[p]) /\ Distinct(pbatch[p])
      /\ \A f, h \in Owning : packet[f] = packet[h] => f = h
  BY DEF IInv, TypeOK, PacketsApart
<1>6. ASSUME NEW z
      PROVE  z \in P <=> \/ \E g \in Generators : \E i \in DOMAIN gpool[g] : gpool[g][i] = x /\ z = <<"gpool", g, i>>
                         \/ \E p \in Parsers : \E i \in DOMAIN pqueue[p] : pqueue[p][i] = x /\ z = <<"pqueue", p, i>>
                         \/ \E p \in Parsers : \E i \in DOMAIN pbatch[p] : pbatch[p][i] = x /\ z = <<"pbatch", p, i>>
                         \/ \E g \in Generators : ghand[g] = x /\ z = <<"ghand", g, 1>>
                         \/ \E f \in Owning : packet[f] = x /\ z = <<"flow", f, 1>>
  <2>1. z \in Places("gpool", gpool, x)
        <=> \E g \in Generators : \E i \in DOMAIN gpool[g] : gpool[g][i] = x /\ z = <<"gpool", g, i>>
    BY <1>5, PlacesOf
  <2>2. z \in Places("pqueue", pqueue, x)
        <=> \E p \in Parsers : \E i \in DOMAIN pqueue[p] : pqueue[p][i] = x /\ z = <<"pqueue", p, i>>
    BY <1>5, PlacesOf
  <2>3. z \in Places("pbatch", pbatch, x)
        <=> \E p \in Parsers : \E i \in DOMAIN pbatch[p] : pbatch[p][i] = x /\ z = <<"pbatch", p, i>>
    BY <1>5, PlacesOf
  <2>4. z \in {<<"ghand", g, 1>> : g \in {h \in Generators : ghand[h] = x}}
        <=> \E g \in Generators : ghand[g] = x /\ z = <<"ghand", g, 1>>
    OBVIOUS
  <2>5. z \in {<<"flow", f, 1>> : f \in {h \in FlowItems : packet[h] = x /\ OwnsPacket(h)}}
        <=> \E f \in Owning : packet[f] = x /\ z = <<"flow", f, 1>>
    <3>1. Owning \subseteq FlowItems
      BY DEF Owning
    <3> QED BY <3>1, OwningOwns
  <2>6. z \in P <=> \/ z \in Places("gpool", gpool, x) \/ z \in Places("pqueue", pqueue, x)
                    \/ z \in Places("pbatch", pbatch, x)
                    \/ z \in {<<"ghand", g, 1>> : g \in {h \in Generators : ghand[h] = x}}
                    \/ z \in {<<"flow", f, 1>> : f \in {h \in FlowItems : packet[h] = x /\ OwnsPacket(h)}}
    BY DEF PacketPlaces
  <2> QED BY <2>1, <2>2, <2>3, <2>4, <2>5, <2>6
<1> HIDE DEF P
<1>7. /\ \A g \in Generators : \A i : i \in DOMAIN gpool[g] /\ gpool[g][i] = x => x \in Elements(gpool[g])
      /\ \A p \in Parsers : \A i : /\ i \in DOMAIN pqueue[p] /\ pqueue[p][i] = x => x \in Elements(pqueue[p])
                                   /\ i \in DOMAIN pbatch[p] /\ pbatch[p][i] = x => x \in Elements(pbatch[p])
      /\ \A f \in Owning : packet[f] = x => x \in Carried
  BY DEF Elements, Carried
<1>8. \E z : P = {z}
  <2>1. CASE \E g \in Generators : k = <<"gpool", g>>
    <3>1. PICK g \in Generators : k = <<"gpool", g>>
      BY <2>1
    <3>2. PICK i \in DOMAIN gpool[g] : gpool[g][i] = x
      BY <1>4, <3>1 DEF Elements
    <3>3. /\ \A h \in Generators : <<"gpool", h>> = k => h = g
          /\ \A h \in Generators : <<"ghand", h>> # k
          /\ \A p \in Parsers : <<"pqueue", p>> # k /\ <<"pbatch", p>> # k
          /\ <<"flow", 0>> # k
      BY <3>1
    <3>4. \A j \in DOMAIN gpool[g] : gpool[g][j] = x => j = i
      BY <1>5, <3>2 DEF Distinct
    <3>5. ASSUME NEW z PROVE z \in P <=> z = <<"gpool", g, i>>
      BY <1>4, <1>6, <1>7, <3>2, <3>3, <3>4
    <3>6. P = {<<"gpool", g, i>>}
      BY <3>5
    <3> QED BY <3>6
  <2>2. CASE \E g \in Generators : k = <<"ghand", g>>
    <3>1. PICK g \in Generators : k = <<"ghand", g>>
      BY <2>2
    <3>2. /\ \A h \in Generators : <<"ghand", h>> = k => h = g
          /\ \A h \in Generators : <<"gpool", h>> # k
          /\ \A p \in Parsers : <<"pqueue", p>> # k /\ <<"pbatch", p>> # k
          /\ <<"flow", 0>> # k
      BY <3>1
    <3>3. ASSUME NEW z PROVE z \in P <=> z = <<"ghand", g, 1>>
      BY <1>4, <1>6, <1>7, <3>1, <3>2
    <3>4. P = {<<"ghand", g, 1>>}
      BY <3>3
    <3> QED BY <3>4
  <2>3. CASE \E p \in Parsers : k = <<"pqueue", p>>
    <3>1. PICK p \in Parsers : k = <<"pqueue", p>>
      BY <2>3
    <3>2. PICK i \in DOMAIN pqueue[p] : pqueue[p][i] = x
      BY <1>4, <3>1 DEF Elements
    <3>3. /\ \A h \in Generators : <<"gpool", h>> # k /\ <<"ghand", h>> # k
          /\ \A o \in Parsers : <<"pbatch", o>> # k /\ (<<"pqueue", o>> = k => o = p)
          /\ <<"flow", 0>> # k
      BY <3>1
    <3>4. \A j \in DOMAIN pqueue[p] : pqueue[p][j] = x => j = i
      BY <1>5, <3>2 DEF Distinct
    <3>5. ASSUME NEW z PROVE z \in P <=> z = <<"pqueue", p, i>>
      BY <1>4, <1>6, <1>7, <3>2, <3>3, <3>4
    <3>6. P = {<<"pqueue", p, i>>}
      BY <3>5
    <3> QED BY <3>6
  <2>4. CASE \E p \in Parsers : k = <<"pbatch", p>>
    <3>1. PICK p \in Parsers : k = <<"pbatch", p>>
      BY <2>4
    <3>2. PICK i \in DOMAIN pbatch[p] : pbatch[p][i] = x
      BY <1>4, <3>1 DEF Elements
    <3>3. /\ \A h \in Generators : <<"gpool", h>> # k /\ <<"ghand", h>> # k
          /\ \A o \in Parsers : <<"pqueue", o>> # k /\ (<<"pbatch", o>> = k => o = p)
          /\ <<"flow", 0>> # k
      BY <3>1
    <3>4. \A j \in DOMAIN pbatch[p] : pbatch[p][j] = x => j = i
      BY <1>5, <3>2 DEF Distinct
    <3>5. ASSUME NEW z PROVE z \in P <=> z = <<"pbatch", p, i>>
      BY <1>4, <1>6, <1>7, <3>2, <3>3, <3>4
    <3>6. P = {<<"pbatch", p, i>>}
      BY <3>5
    <3> QED BY <3>6
  <2>5. CASE k = <<"flow", 0>>
    <3>1. PICK f \in Owning : packet[f] = x
      BY <1>4, <2>5 DEF Carried
    <3>2. /\ \A h \in Generators : <<"gpool", h>> # k /\ <<"ghand", h>> # k
          /\ \A o \in Parsers : <<"pqueue", o>> # k /\ <<"pbatch", o>> # k
      BY <2>5
    <3>3. \A h \in Owning : packet[h] = x => h = f
      BY <1>5, <3>1
    <3>4. ASSUME NEW z PROVE z \in P <=> z = <<"flow", f, 1>>
      BY <1>4, <1>6, <1>7, <3>1, <3>2, <3>3
    <3>5. P = {<<"flow", f, 1>>}
      BY <3>4
    <3> QED BY <3>5
  <2> QED BY <1>1, <2>1, <2>2, <2>3, <2>4, <2>5
<1>9. Cardinality(P) = 1
  BY <1>8, FS_Singleton
<1> QED BY <1>9 DEF P

(* The same of a flow item. *)
LEMMA FlowPosition ==
    ASSUME IInv, NEW f \in FlowItems PROVE Cardinality(FlowPlaces(f)) = 1
<1> DEFINE A == FlowsAt(ppool, fbatch, mqueue, mhand)
           P == FlowPlaces(f)
<1>1. /\ DOMAIN A = FlowPlace
      /\ \A o \in Parsers : /\ <<"ppool", o>> \in FlowPlace /\ <<"fbatch", o>> \in FlowPlace
                            /\ A[<<"ppool", o>>] = Elements(ppool[o])
                            /\ A[<<"fbatch", o>>] = Elements(fbatch[o])
      /\ \A o \in Managers : /\ <<"mqueue", o>> \in FlowPlace /\ <<"mhand", o>> \in FlowPlace
                             /\ A[<<"mqueue", o>>] = Elements(mqueue[o])
                             /\ A[<<"mhand", o>>] = Elements(mhand[o])
      /\ \A k \in FlowPlace : \/ \E p \in Parsers : k = <<"ppool", p>> \/ k = <<"fbatch", p>>
                              \/ \E m \in Managers : k = <<"mqueue", m>> \/ k = <<"mhand", m>>
  BY FlowsAtEach
<1>2. Partition(A, FlowItems)
  BY DEF IInv, FlowsApart
<1> HIDE DEF A
<1>3. PICK k \in FlowPlace : \A j \in FlowPlace : f \in A[j] <=> j = k
  BY <1>1, <1>2 DEF Partition
<1>4. /\ \A p \in Parsers : /\ f \in Elements(ppool[p]) <=> <<"ppool", p>> = k
                            /\ f \in Elements(fbatch[p]) <=> <<"fbatch", p>> = k
      /\ \A m \in Managers : /\ f \in Elements(mqueue[m]) <=> <<"mqueue", m>> = k
                             /\ f \in Elements(mhand[m]) <=> <<"mhand", m>> = k
  BY <1>1, <1>3
<1>5. /\ DOMAIN ppool = Parsers /\ DOMAIN fbatch = Parsers
      /\ DOMAIN mqueue = Managers /\ DOMAIN mhand = Managers
      /\ \A p \in Parsers : Distinct(ppool[p]) /\ Distinct(fbatch[p])
      /\ \A m \in Managers : Distinct(mqueue[m]) /\ Distinct(mhand[m])
  <2>1. ASSUME NEW m \in Managers PROVE Distinct(mhand[m])
    <3>1. mhand[m] \in Seq(FlowItems) /\ (mhand[m] = <<>> \/ Len(mhand[m]) = 1)
      BY DEF IInv, TypeOK, Phases
    <3>2. ASSUME Len(mhand[m]) = 1 PROVE Distinct(mhand[m])
      <4>1. DOMAIN mhand[m] = 1..1
        BY <3>1, <3>2, LenProperties
      <4> QED BY <4>1 DEF Distinct
    <3> QED BY <3>1, <3>2, Nothing
  <2> QED BY <2>1 DEF IInv, TypeOK, FlowsApart
<1>6. ASSUME NEW z
      PROVE  z \in P <=> \/ \E p \in Parsers : \E i \in DOMAIN ppool[p] : ppool[p][i] = f /\ z = <<"ppool", p, i>>
                         \/ \E p \in Parsers : \E i \in DOMAIN fbatch[p] : fbatch[p][i] = f /\ z = <<"fbatch", p, i>>
                         \/ \E m \in Managers : \E i \in DOMAIN mqueue[m] : mqueue[m][i] = f /\ z = <<"mqueue", m, i>>
                         \/ \E m \in Managers : \E i \in DOMAIN mhand[m] : mhand[m][i] = f /\ z = <<"mhand", m, i>>
  <2>1. z \in Places("ppool", ppool, f)
        <=> \E p \in Parsers : \E i \in DOMAIN ppool[p] : ppool[p][i] = f /\ z = <<"ppool", p, i>>
    BY <1>5, PlacesOf
  <2>2. z \in Places("fbatch", fbatch, f)
        <=> \E p \in Parsers : \E i \in DOMAIN fbatch[p] : fbatch[p][i] = f /\ z = <<"fbatch", p, i>>
    BY <1>5, PlacesOf
  <2>3. z \in Places("mqueue", mqueue, f)
        <=> \E m \in Managers : \E i \in DOMAIN mqueue[m] : mqueue[m][i] = f /\ z = <<"mqueue", m, i>>
    BY <1>5, PlacesOf
  <2>4. z \in Places("mhand", mhand, f)
        <=> \E m \in Managers : \E i \in DOMAIN mhand[m] : mhand[m][i] = f /\ z = <<"mhand", m, i>>
    BY <1>5, PlacesOf
  <2>5. z \in P <=> \/ z \in Places("ppool", ppool, f) \/ z \in Places("fbatch", fbatch, f)
                    \/ z \in Places("mqueue", mqueue, f) \/ z \in Places("mhand", mhand, f)
    BY DEF FlowPlaces
  <2> QED BY <2>1, <2>2, <2>3, <2>4, <2>5
<1> HIDE DEF P
<1>7. /\ \A p \in Parsers : \A i : /\ i \in DOMAIN ppool[p] /\ ppool[p][i] = f => f \in Elements(ppool[p])
                                   /\ i \in DOMAIN fbatch[p] /\ fbatch[p][i] = f => f \in Elements(fbatch[p])
      /\ \A m \in Managers : \A i : /\ i \in DOMAIN mqueue[m] /\ mqueue[m][i] = f => f \in Elements(mqueue[m])
                                    /\ i \in DOMAIN mhand[m] /\ mhand[m][i] = f => f \in Elements(mhand[m])
  BY DEF Elements
<1>8. \E z : P = {z}
  <2>1. CASE \E p \in Parsers : k = <<"ppool", p>>
    <3>1. PICK p \in Parsers : k = <<"ppool", p>>
      BY <2>1
    <3>2. PICK i \in DOMAIN ppool[p] : ppool[p][i] = f
      BY <1>4, <3>1 DEF Elements
    <3>3. /\ \A o \in Parsers : <<"fbatch", o>> # k /\ (<<"ppool", o>> = k => o = p)
          /\ \A m \in Managers : <<"mqueue", m>> # k /\ <<"mhand", m>> # k
      BY <3>1
    <3>4. \A j \in DOMAIN ppool[p] : ppool[p][j] = f => j = i
      BY <1>5, <3>2 DEF Distinct
    <3>5. ASSUME NEW z PROVE z \in P <=> z = <<"ppool", p, i>>
      BY <1>4, <1>6, <1>7, <3>2, <3>3, <3>4
    <3>6. P = {<<"ppool", p, i>>}
      BY <3>5
    <3> QED BY <3>6
  <2>2. CASE \E p \in Parsers : k = <<"fbatch", p>>
    <3>1. PICK p \in Parsers : k = <<"fbatch", p>>
      BY <2>2
    <3>2. PICK i \in DOMAIN fbatch[p] : fbatch[p][i] = f
      BY <1>4, <3>1 DEF Elements
    <3>3. /\ \A o \in Parsers : <<"ppool", o>> # k /\ (<<"fbatch", o>> = k => o = p)
          /\ \A m \in Managers : <<"mqueue", m>> # k /\ <<"mhand", m>> # k
      BY <3>1
    <3>4. \A j \in DOMAIN fbatch[p] : fbatch[p][j] = f => j = i
      BY <1>5, <3>2 DEF Distinct
    <3>5. ASSUME NEW z PROVE z \in P <=> z = <<"fbatch", p, i>>
      BY <1>4, <1>6, <1>7, <3>2, <3>3, <3>4
    <3>6. P = {<<"fbatch", p, i>>}
      BY <3>5
    <3> QED BY <3>6
  <2>3. CASE \E m \in Managers : k = <<"mqueue", m>>
    <3>1. PICK m \in Managers : k = <<"mqueue", m>>
      BY <2>3
    <3>2. PICK i \in DOMAIN mqueue[m] : mqueue[m][i] = f
      BY <1>4, <3>1 DEF Elements
    <3>3. /\ \A o \in Parsers : <<"ppool", o>> # k /\ <<"fbatch", o>> # k
          /\ \A n \in Managers : <<"mhand", n>> # k /\ (<<"mqueue", n>> = k => n = m)
      BY <3>1
    <3>4. \A j \in DOMAIN mqueue[m] : mqueue[m][j] = f => j = i
      BY <1>5, <3>2 DEF Distinct
    <3>5. ASSUME NEW z PROVE z \in P <=> z = <<"mqueue", m, i>>
      BY <1>4, <1>6, <1>7, <3>2, <3>3, <3>4
    <3>6. P = {<<"mqueue", m, i>>}
      BY <3>5
    <3> QED BY <3>6
  <2>4. CASE \E m \in Managers : k = <<"mhand", m>>
    <3>1. PICK m \in Managers : k = <<"mhand", m>>
      BY <2>4
    <3>2. PICK i \in DOMAIN mhand[m] : mhand[m][i] = f
      BY <1>4, <3>1 DEF Elements
    <3>3. /\ \A o \in Parsers : <<"ppool", o>> # k /\ <<"fbatch", o>> # k
          /\ \A n \in Managers : <<"mqueue", n>> # k /\ (<<"mhand", n>> = k => n = m)
      BY <3>1
    <3>4. \A j \in DOMAIN mhand[m] : mhand[m][j] = f => j = i
      BY <1>5, <3>2 DEF Distinct
    <3>5. ASSUME NEW z PROVE z \in P <=> z = <<"mhand", m, i>>
      BY <1>4, <1>6, <1>7, <3>2, <3>3, <3>4
    <3>6. P = {<<"mhand", m, i>>}
      BY <3>5
    <3> QED BY <3>6
  <2> QED BY <1>1, <2>1, <2>2, <2>3, <2>4
<1>9. Cardinality(P) = 1
  BY <1>8, FS_Singleton
<1> QED BY <1>9 DEF P

-----------------------------------------------------------------------------
(* Types hold and no queue or pool ever holds more than its capacity: every *)
(* enqueue function of the pipeline waits for room.                         *)
THEOREM PipelineTypes == Spec => []TypeOK
<1>1. IInv => TypeOK
  BY DEF IInv
<1> QED BY <1>1, Invariance, PTL

(* Packets and flow items are conserved: each is in exactly one place, even *)
(* while pipe_depth is reloaded between a parser's decisions.               *)
THEOREM BuffersAreConserved == Spec => []BuffersConserved
<1>1. IInv => BuffersConserved
  BY PacketPosition, FlowPosition DEF BuffersConserved
<1> QED BY <1>1, Invariance, PTL

(* Everything returns to the pool it was allocated to, a parser's batch     *)
(* included, although only its first packet is looked at.                   *)
THEOREM BuffersReturnHome == Spec => []ReturnedHome
<1>1. ASSUME IInv PROVE ReturnedHome
  <2>1. ASSUME NEW g \in Generators, NEW i \in DOMAIN gpool[g] PROVE PacketOf[gpool[g][i]] = g
    <3>1. gpool[g][i] \in Elements(gpool[g])
      BY DEF Elements
    <3> QED BY <1>1, <3>1 DEF IInv, Homes
  <2>2. ASSUME NEW p \in Parsers, NEW i \in DOMAIN ppool[p] PROVE FlowOf[ppool[p][i]] = p
    <3>1. ppool[p][i] \in Elements(ppool[p])
      BY DEF Elements
    <3> QED BY <1>1, <3>1 DEF IInv, Homes
  <2> QED BY <2>1, <2>2 DEF ReturnedHome
<1> QED BY <1>1, Invariance, PTL

(* Whatever the numbers of generators and parsers, next_thread_id gives     *)
(* each parser's queue one sender, the generator congruent to the parser.   *)
THEOREM QueuesHaveOneSender == Spec => []OneSenderPerQueue
<1>1. ASSUME IInv PROVE OneSenderPerQueue
  <2>1. SUFFICES ASSUME NEW p \in Parsers
                 PROVE  Cardinality({g \in Generators : gpc[g] = "send" /\ target[g] = p}
                          \cup {PacketOf[pqueue[p][i]] : i \in DOMAIN pqueue[p]}) <= 1
    BY DEF OneSenderPerQueue
  <2> DEFINE S == {g \in Generators : gpc[g] = "send" /\ target[g] = p}
                    \cup {PacketOf[pqueue[p][i]] : i \in DOMAIN pqueue[p]}
             T == {p % GNums}
  <2>2. \A g \in Generators : target[g] = p => g = p % GNums
    BY <1>1 DEF IInv, Homes
  <2>3. \A i \in DOMAIN pqueue[p] : PacketOf[pqueue[p][i]] = p % GNums
    <3>1. \A i \in DOMAIN pqueue[p] : pqueue[p][i] \in Elements(pqueue[p])
      BY DEF Elements
    <3> QED BY <1>1, <3>1 DEF IInv, Homes
  <2>4. S \in SUBSET T
    BY <2>2, <2>3
  <2>5. IsFiniteSet(T) /\ Cardinality(T) = 1
    BY FS_Singleton
  <2> HIDE DEF S, T
  <2>6. Cardinality(S) <= 1
    BY <2>4, <2>5, FS_Subset
  <2> QED BY <2>6 DEF S
<1> QED BY <1>1, Invariance, PTL

(* No packet leaves its pool before packet->pool is written, in generator   *)
(* mode by make_all_packet, in collector mode with every frame.             *)
THEOREM PacketsArePrepared == Spec => []PreparedBeforeUse
<1>1. ASSUME IInv PROVE PreparedBeforeUse
  <2>1. \A x \in Packets : Where(gpool[PacketOf[x]], x) = {} => x \notin Elements(gpool[PacketOf[x]])
    BY WhereElements
  <2> QED BY <1>1, <2>1 DEF IInv, Prepared, PreparedBeforeUse
<1> QED BY <1>1, Invariance, PTL
=============================================================================
