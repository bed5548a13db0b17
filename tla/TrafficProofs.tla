--------------------------- MODULE TrafficProofs ---------------------------
(***************************************************************************)
(* For every number of generators, parsers and managers, every size of the *)
(* pools and of the packets, every text, every range and every frame: the  *)
(* parser finds in a packet what was sent in it, the packets of a          *)
(* conversation meet in one bucket, and the parsers of a generator get its *)
(* packets evenly.                                                         *)
(*                                                                         *)
(* The argument.  A packet is in one place, a pool, a parser's queue or a  *)
(* manager's queue (Placed), so that who writes into the first of a pool   *)
(* disturbs none that is on its way.  What make_all_packet wrote once      *)
(* (Ready) survives each later trip, because only the cursors are written  *)
(* again; with the cursors it is a packet in which the parser's offsets    *)
(* lead to what was sent (Sent), and a frame is another.  This holds on    *)
(* the way to the parser and to the manager (OnTheWay), and the flow item  *)
(* is still what the parser would make of it (Filed).                      *)
(*                                                                         *)
(* next_thread_id walks through the parsers congruent to the generator in  *)
(* steps of generator_nums (InTurn).  Those it has passed in this round    *)
(* are one ahead of those it has not, and when it starts over all are      *)
(* level.                                                                  *)
(***************************************************************************)
EXTENDS Traffic, NaturalsInduction, WellFoundedInduction, SequenceTheorems, TLAPS

(* Whose turn it is. *)
InTurn ==
    /\ next_thread_id \in [Generators -> Parsers]
    /\ \A g \in Generators : next_thread_id[g] \in Fed(g)
    /\ lead \in [Parsers -> {0, 1}]
    /\ \A g \in Generators : \A q \in Fed(g) : lead[q] = IF q < next_thread_id[g] THEN 1 ELSE 0

-----------------------------------------------------------------------------
(* The numbers of threads. *)
LEMMA Numbers ==
    /\ generator_nums \in Nat /\ generator_nums > 0 /\ parser_nums \in Nat
    /\ generator_nums <= parser_nums
    /\ \A g \in Generators : g \in Nat /\ g < generator_nums
    /\ \A p : p \in Parsers <=> p \in Nat /\ p < parser_nums
<1>1. parser_nums \in Nat /\ generator_nums \in 1..parser_nums
  BY TrafficAssumption
<1> QED BY <1>1 DEF Generators, Parsers

(* A number is its quotient and its remainder. *)
LEMMA Division ==
    ASSUME NEW m \in Nat, m > 0, NEW n \in Nat
    PROVE  n \div m \in Int /\ n % m \in 0..(m - 1) /\ n = m * (n \div m) + (n % m)
BY SMT

(* Larger quotients are at least m further. *)
LEMMA Further ==
    ASSUME NEW m \in Nat, NEW a \in Int, NEW b \in Int, a < b
    PROVE  m * b >= m * a + m
<1>1. b - a - 1 \in Nat
  OBVIOUS
<1>2. m * (b - a - 1) >= 0
  BY <1>1, SMT
<1>3. m * (b - a - 1) = m * b - m * a - m
  BY SMT
<1>4. m * b \in Int /\ m * a \in Int
  BY SMT
<1> QED BY <1>2, <1>3, <1>4, SMT

(* Numbers of equal remainder that are less than m apart are equal, *)
LEMMA NoneBetween ==
    ASSUME NEW m \in Nat, m > 0, NEW n \in Nat, NEW q \in Nat, q % m = n % m, q > n
    PROVE  q >= n + m
<1> DEFINE a == n \div m
           b == q \div m
           t == n % m
<1>1. a \in Int /\ b \in Int /\ t \in 0..(m - 1) /\ n = m * a + t /\ q = m * b + t
  BY Division
<1> HIDE DEF a, b, t
<1>2. a < b
  <2>1. SUFFICES ASSUME b <= a PROVE FALSE
    BY <1>1
  <2>2. b = a \/ m * a >= m * b + m
    BY <1>1, <2>1, Further
  <2>3. m * a \in Int /\ m * b \in Int /\ t \in Int
    BY <1>1
  <2> QED BY <1>1, <2>2, <2>3
<1>3. m * b >= m * a + m /\ m * a \in Int /\ m * b \in Int /\ t \in Int
  BY <1>1, <1>2, Further
<1> QED BY <1>1, <1>3

(* and m more has the same remainder. *)
LEMMA SameRemainder ==
    ASSUME NEW m \in Nat, m > 0, NEW n \in Nat PROVE (n + m) % m = n % m
<1> DEFINE a == (n + m) \div m
           b == n \div m
           r == (n + m) % m
           t == n % m
<1>1. /\ a \in Int /\ b \in Int /\ r \in 0..(m - 1) /\ t \in 0..(m - 1)
      /\ n + m = m * a + r /\ n = m * b + t
  BY Division
<1> HIDE DEF a, b, r, t
<1>2. m * a \in Int /\ m * b \in Int /\ m * (b + 1) = m * b + m /\ b + 1 \in Int
  BY <1>1, SMT
<1>3. a < b + 1 => m * (b + 1) >= m * a + m
  BY <1>1, <1>2, Further
<1>4. b + 1 < a => m * a >= m * (b + 1) + m
  BY <1>1, <1>2, Further
<1>5. a = b + 1
  BY <1>1, <1>2, <1>3, <1>4
<1> QED BY <1>1, <1>2, <1>5 DEF r, t

(* A set of numbers has a least element. *)
LEMMA Least ==
    ASSUME NEW S \in SUBSET Nat, S # {} PROVE \E i \in S : \A j \in S : i <= j
<1> DEFINE R == OpToRel(<, Nat)
<1>1. IsWellFoundedOn(R, Nat)
  BY NatLessThanWellFounded
<1>2. \A i, j \in Nat : <<i, j>> \in R <=> i < j
  BY DEF OpToRel
<1> HIDE DEF R
<1>3. PICK i \in S : \A j \in S : ~(<<j, i>> \in R)
  BY <1>1, WFMin
<1>4. ASSUME NEW j \in S PROVE i <= j
  <2>1. i \in Nat /\ j \in Nat /\ <<j, i>> \notin R
    BY <1>3
  <2>2. ~(j < i)
    BY <1>2, <2>1
  <2> QED BY <2>1, <2>2
<1> QED BY <1>4

(* The first n values of a recursion exist: a least n for which they do not *)
(* would follow one for which they do.                                      *)
Unfolds(g, n, A, a, step) ==
    /\ g \in [0..n -> A] /\ g[0] = a
    /\ \A k \in 1..n : g[k] = step[k][g[k - 1]]

LEMMA Recursion ==
    ASSUME NEW N \in Nat, NEW A, NEW a \in A, NEW step \in [1..N -> [A -> A]]
    PROVE  \E g : Unfolds(g, N, A, a, step)
<1> DEFINE D == {n \in 0..N : ~ \E g : Unfolds(g, n, A, a, step)}
<1>1. SUFFICES ASSUME D # {} PROVE FALSE
  <2>1. N \in 0..N
    OBVIOUS
  <2> QED BY <2>1
<1>2. D \in SUBSET Nat
  OBVIOUS
<1>3. PICK n \in D : \A j \in D : n <= j
  BY <1>1, <1>2, Least
<1>4. n \in 0..N /\ ~ \E g : Unfolds(g, n, A, a, step)
  BY <1>3
<1>5. n # 0
  <2>1. Unfolds([k \in 0..0 |-> a], 0, A, a, step)
    BY DEF Unfolds
  <2> QED BY <1>4, <2>1
<1>6. n - 1 \in 0..N /\ ~(n <= n - 1) /\ n \in 1..N
  BY <1>4, <1>5
<1>7. PICK g : Unfolds(g, n - 1, A, a, step)
  BY <1>3, <1>6
<1> DEFINE h == [k \in 0..n |-> IF k = n THEN step[n][g[n - 1]] ELSE g[k]]
<1>8. Unfolds(h, n, A, a, step)
  <2>1. /\ g \in [0..(n - 1) -> A] /\ g[0] = a
        /\ \A k \in 1..(n - 1) : g[k] = step[k][g[k - 1]]
    BY <1>7 DEF Unfolds
  <2>2. step[n][g[n - 1]] \in A
    BY <1>6, <2>1
  <2>3. h \in [0..n -> A]
    <3>1. \A k \in 0..n : k # n => k \in 0..(n - 1)
      BY <1>6
    <3> QED BY <2>1, <2>2, <3>1
  <2>4. h[0] = a
    BY <1>6, <2>1
  <2>5. ASSUME NEW k \in 1..n PROVE h[k] = step[k][h[k - 1]]
    <3>1. k - 1 \in 0..n /\ k - 1 # n /\ k \in 0..n
      BY <1>6
    <3>2. h[k - 1] = g[k - 1]
      BY <3>1
    <3>3. CASE k = n
      BY <3>1, <3>2, <3>3
    <3>4. CASE k # n
      <4>1. k \in 1..(n - 1)
        BY <1>6, <3>4
      <4> QED BY <2>1, <3>1, <3>2, <3>4, <4>1
    <3> QED BY <3>3, <3>4
  <2> HIDE DEF h
  <2> QED BY <2>3, <2>4, <2>5 DEF Unfolds
<1> QED BY <1>4, <1>8

(* and there is one of them only. *)
Follows(h, n, A, a, step) ==
    h[0] = a /\ \A k \in 1..n : h[k - 1] \in A => h[k] = step[k][h[k - 1]]

LEMMA OneSolution ==
    ASSUME NEW n \in Nat, NEW A, NEW a, NEW step, NEW g, NEW h,
           Unfolds(g, n, A, a, step), Follows(h, n, A, a, step)
    PROVE  \A k \in 0..n : h[k] = g[k]
<1> DEFINE D == {k \in 0..n : h[k] # g[k]}
<1>1. SUFFICES ASSUME D # {} PROVE FALSE
  OBVIOUS
<1>2. PICK k \in D : \A j \in D : k <= j
  <2>1. D \in SUBSET Nat
    OBVIOUS
  <2> QED BY <1>1, <2>1, Least
<1>3. k \in 0..n /\ h[k] # g[k]
  BY <1>2
<1>4. k # 0
  BY <1>3 DEF Unfolds, Follows
<1>5. k \in 1..n /\ k - 1 \in 0..n /\ ~(k <= k - 1)
  BY <1>3, <1>4
<1>6. h[k - 1] = g[k - 1] /\ g[k - 1] \in A
  BY <1>2, <1>5 DEF Unfolds
<1> QED BY <1>3, <1>5, <1>6 DEF Unfolds, Follows

-----------------------------------------------------------------------------
(* ++ and + *)
LEMMA IncIsWord == ASSUME NEW w \in Word PROVE Inc(w) \in Word
BY DEF Inc, Xor, Word

(* w + n is what n steps of ++ give. *)
LEMMA PlusUnfolds ==
    ASSUME NEW w \in Word, NEW n \in Nat, NEW g,
           Unfolds(g, n, Word, w, [k \in 1..n |-> [v \in Word |-> Inc(v)]])
    PROVE  Plus(w, n) = g[n]
<1> DEFINE Sum[k \in 0..n] == IF k = 0 THEN w ELSE Inc(Sum[k - 1])
           step == [k \in 1..n |-> [v \in Word |-> Inc(v)]]
<1>1. Plus(w, n) = Sum[n]
  BY DEF Plus
<1>2. g \in [0..n -> Word] /\ g[0] = w /\ \A k \in 1..n : g[k] = step[k][g[k - 1]]
  BY DEF Unfolds
<1>3. \A k \in 1..n : \A v \in Word : step[k][v] = Inc(v)
  OBVIOUS
<1>4. \A k \in 0..n : k = 0 \/ (k \in 1..n /\ k - 1 \in 0..n)
  OBVIOUS
<1> HIDE DEF step
<1>5. g = [k \in 0..n |-> IF k = 0 THEN w ELSE Inc(g[k - 1])]
  BY <1>2, <1>3, <1>4
<1>6. Sum = [k \in 0..n |-> IF k = 0 THEN w ELSE Inc(Sum[k - 1])]
  BY <1>5
<1> HIDE DEF Sum
<1>7. DOMAIN Sum = 0..n /\ Sum[0] = w /\ \A k \in 1..n : Sum[k] = Inc(Sum[k - 1])
  <2>1. 0 \in 0..n /\ \A k \in 1..n : k \in 0..n /\ k # 0
    OBVIOUS
  <2> QED BY <1>6, <2>1
<1>8. \A k \in 0..n : Sum[k] = g[k]
  <2>1. Follows(Sum, n, Word, w, step)
    BY <1>3, <1>7 DEF Follows
  <2>2. Unfolds(g, n, Word, w, step)
    BY DEF step
  <2> QED BY <2>1, <2>2, OneSolution
<1> QED BY <1>1, <1>8

(* What the cursors need of +. *)
LEMMA PlusFacts ==
    ASSUME NEW w \in Word, NEW n \in Nat
    PROVE  Plus(w, 0) = w /\ Plus(w, n) \in Word /\ Plus(w, n + 1) = Inc(Plus(w, n))
<1> DEFINE step(m) == [k \in 1..m |-> [v \in Word |-> Inc(v)]]
<1>1. ASSUME NEW m \in Nat PROVE step(m) \in [1..m -> [Word -> Word]]
  BY IncIsWord
<1>2. ASSUME NEW m \in Nat, NEW g PROVE Unfolds(g, m, Word, w, step(m)) => Plus(w, m) = g[m]
  BY PlusUnfolds
<1>3. PICK g : Unfolds(g, n + 1, Word, w, step(n + 1))
  <2>1. n + 1 \in Nat
    OBVIOUS
  <2> HIDE DEF step
  <2> QED BY <1>1, <2>1, Recursion
<1>4. /\ g \in [0..(n + 1) -> Word] /\ g[0] = w
      /\ \A k \in 1..(n + 1) : g[k] = Inc(g[k - 1])
  <2>1. /\ g \in [0..(n + 1) -> Word] /\ g[0] = w
        /\ \A k \in 1..(n + 1) : g[k] = step(n + 1)[k][g[k - 1]]
    BY <1>3 DEF Unfolds
  <2>2. \A k \in 1..(n + 1) : k - 1 \in 0..(n + 1)
    OBVIOUS
  <2> QED BY <2>1, <2>2
<1>5. ASSUME NEW m \in 0..(n + 1) PROVE Plus(w, m) = g[m]
  <2> DEFINE h == [k \in 0..m |-> g[k]]
  <2>1. \A k \in 0..m : k \in 0..(n + 1)
    OBVIOUS
  <2>2. \A k \in 1..m : k \in 1..(n + 1) /\ k \in 0..m /\ k - 1 \in 0..m
    OBVIOUS
  <2>3. h \in [0..m -> Word] /\ h[0] = w /\ \A k \in 1..m : h[k] = Inc(h[k - 1]) /\ h[k - 1] \in Word
    BY <1>4, <2>1, <2>2
  <2>4. h[m] = g[m] /\ m \in Nat
    OBVIOUS
  <2> HIDE DEF h
  <2>5. \A k \in 1..m : h[k] = step(m)[k][h[k - 1]]
    BY <2>3
  <2> HIDE DEF step
  <2>6. Unfolds(h, m, Word, w, step(m))
    BY <2>3, <2>5 DEF Unfolds
  <2> QED BY <1>2, <2>4, <2>6
<1>6. Plus(w, 0) = g[0] /\ Plus(w, n) = g[n] /\ Plus(w, n + 1) = g[n + 1]
  <2>1. 0 \in 0..(n + 1) /\ n \in 0..(n + 1) /\ n + 1 \in 0..(n + 1)
    OBVIOUS
  <2> QED BY <1>5, <2>1
<1>7. n + 1 \in 1..(n + 1) /\ n \in 0..(n + 1) /\ (n + 1) - 1 = n
  OBVIOUS
<1> QED BY <1>4, <1>6, <1>7

(* Remainders. *)
LEMMA ModRange ==
    ASSUME NEW w, NEW size \in Nat \ {0}
    PROVE  Mod(w, size) \in 0..(size - 1)
<1> DEFINE A == 0..(size - 1)
           bit(k) == IF 32 - k \in w THEN 1 ELSE 0
           rest[k \in 0..32] == IF k = 0 THEN 0 ELSE (2 * rest[k - 1] + bit(k)) % size
           step == [k \in 1..32 |-> [v \in A |-> (2 * v + bit(k)) % size]]
<1>1. Mod(w, size) = rest[32]
  BY DEF Mod
<1>2. step \in [1..32 -> [A -> A]]
  <2>1. ASSUME NEW k \in 1..32, NEW v \in A PROVE (2 * v + bit(k)) % size \in A
    <3>1. 2 * v + bit(k) \in Nat
      OBVIOUS
    <3> HIDE DEF bit
    <3> QED BY <3>1
  <2> HIDE DEF A, bit
  <2> QED BY <2>1
<1>3. \A k \in 1..32 : \A v \in A : step[k][v] = (2 * v + bit(k)) % size
  OBVIOUS
<1> HIDE DEF step, A, bit
<1>4. PICK g : Unfolds(g, 32, A, 0, step)
  <2>1. 0 \in A
    BY DEF A
  <2> QED BY <1>2, <2>1, Recursion
<1>5. /\ g \in [0..32 -> A] /\ g[0] = 0
      /\ \A k \in 1..32 : g[k] = step[k][g[k - 1]]
  BY <1>4 DEF Unfolds
<1>6. \A k \in 0..32 : k = 0 \/ (k \in 1..32 /\ k - 1 \in 0..32)
  OBVIOUS
<1>7. g = [k \in 0..32 |-> IF k = 0 THEN 0 ELSE (2 * g[k - 1] + bit(k)) % size]
  BY <1>3, <1>5, <1>6
<1>8. rest = [k \in 0..32 |-> IF k = 0 THEN 0 ELSE (2 * rest[k - 1] + bit(k)) % size]
  BY <1>7
<1> HIDE DEF rest
<1>9. DOMAIN rest = 0..32 /\ rest[0] = 0 /\ \A k \in 1..32 : rest[k] = (2 * rest[k - 1] + bit(k)) % size
  <2>1. 0 \in 0..32 /\ \A k \in 1..32 : k \in 0..32 /\ k # 0
    OBVIOUS
  <2> QED BY <1>8, <2>1
<1>10. Follows(rest, 32, A, 0, step)
  BY <1>3, <1>9 DEF Follows
<1>11. \A k \in 0..32 : rest[k] = g[k]
  BY <1>4, <1>10, OneSolution
<1> QED BY <1>1, <1>5, <1>11 DEF A

(* MAKE_HASH gives an index into what it is asked for. *)
LEMMA HashRange ==
    ASSUME NEW f1 \in Word, NEW f2 \in Word, NEW f3 \in Word, NEW f4 \in Word, NEW size \in Nat \ {0}
    PROVE  MAKE_HASH(f1, f2, f3, f4, size) \in 0..(size - 1)
<1> DEFINE v1 == Xor(f1, f2)
           v2 == Xor(f3, f4)
           h == Xor(Xor(Xor(Shl(v1, 8), Shr(v1, 4)), Xor(Shr(v1, 12), Shr(v1, 16))),
                    Xor(Xor(Shl(v2, 6), Shl(v2, 10)), Xor(Shl(v2, 14), Shr(v2, 7))))
           remainder[w \in Word] == Mod(w, size)
<1>1. MAKE_HASH(f1, f2, f3, f4, size) = remainder[h]
  BY DEF MAKE_HASH
<1>2. h \in Word
  <2>1. \A v, w \in Word : Xor(v, w) \in Word
    BY DEF Xor, Word
  <2>2. \A w, n : Shl(w, n) \in Word /\ Shr(w, n) \in Word
    BY DEF Shl, Shr, Word
  <2> QED BY <2>1, <2>2
<1> HIDE DEF h
<1> QED BY <1>1, <1>2, ModRange

(* Byte order. *)
LEMMA NetworkOrder == ASSUME NEW w \in Word PROVE htonl(w) \in Word /\ htons(w) \in Word
<1>1. \A b \in 0..31 : (8 * (3 - (b \div 8))) + (b % 8) \in 0..31
  OBVIOUS
<1>2. \A b \in 0..15 : (8 * (1 - (b \div 8))) + (b % 8) \in 0..31
  OBVIOUS
<1>3. htonl(w) \subseteq 0..31
  BY <1>1 DEF Word, Bits, htonl
<1>4. htons(w) \subseteq 0..31
  BY <1>2 DEF htons
<1> QED BY <1>3, <1>4 DEF Word, Bits

(* Comparison. *)
LEMMA Greatest ==
    ASSUME NEW S \in SUBSET Bits, S # {} PROVE Max(S) \in S
<1> DEFINE T == {31 - b : b \in S}
<1>1. T \in SUBSET Nat /\ T # {}
  <2>1. \A b \in S : 31 - b \in Nat
    BY DEF Bits
  <2> QED BY <2>1
<1>2. PICK i \in T : \A j \in T : i <= j
  BY <1>1, Least
<1>3. PICK b \in S : i = 31 - b
  BY <1>2
<1>4. \A c \in S : b >= c
  <2>1. \A c \in S : 31 - c \in T /\ c \in Int
    BY DEF Bits
  <2>2. b \in Int
    BY DEF Bits
  <2>3. \A c \in S : 31 - b <= 31 - c
    BY <1>2, <1>3, <2>1
  <2> QED BY <2>1, <2>2, <2>3
<1> QED BY <1>4 DEF Max

(* Sorting two words does not depend on their order, and keeps both. *)
LEMMA Sorted ==
    ASSUME NEW v \in Word, NEW w \in Word
    PROVE  /\ Upper(v, w) = Upper(w, v) /\ Lower(v, w) = Lower(w, v)
           /\ {Upper(v, w), Lower(v, w)} = {v, w}
           /\ Upper(v, w) \in Word /\ Lower(v, w) \in Word
<1>1. Xor(v, w) = Xor(w, v) /\ Xor(v, w) \in SUBSET Bits
  BY DEF Xor, Word
<1>2. v # w => Xor(v, w) # {}
  BY DEF Xor
<1>3. v # w => Max(Xor(v, w)) \in Xor(v, w)
  BY <1>1, <1>2, Greatest
<1>4. v # w => (AtLeast(v, w) <=> ~AtLeast(w, v))
  BY <1>1, <1>3 DEF AtLeast, Xor
<1> QED BY <1>4 DEF Upper, Lower
(* Powers of two, as far as WordOf uses them. *)
Big(n) == n \in Nat /\ n >= 256

(* Powers of two that a byte does not reach. *)
LEMMA Powers == \A b \in 8..30 : 2^b \in Nat /\ 2^b >= 256
<1>1. \A b \in 8..30 : b \in {8, 9, 10, 11, 12, 13, 14, 15, 16, 17, 18, 19, 20, 21, 22, 23, 24, 25, 26,
                              27, 28, 29, 30}
  OBVIOUS
<1>2. \A n \in {2^8, 2^9, 2^10, 2^11, 2^12, 2^13, 2^14, 2^15, 2^16, 2^17, 2^18, 2^19, 2^20, 2^21, 2^22,
                2^23, 2^24, 2^25, 2^26, 2^27, 2^28, 2^29, 2^30} : Big(n)
  BY DEF Big
<1>3. \A b \in 8..30 : Big(2^b)
  BY <1>1, <1>2, ZenonT(30)
<1> QED BY <1>3 DEF Big

(* The bits of a byte. *)
LEMMA ByteBits ==
    ASSUME NEW n \in 0..255
    PROVE  /\ WordOf(n) \in SUBSET (0..7) /\ WordOf(n) \in Word
           /\ 0 \in WordOf(n) <=> n % 2 = 1
           /\ 1 \in WordOf(n) <=> (n \div 2) % 2 = 1
           /\ 2 \in WordOf(n) <=> (n \div 4) % 2 = 1
           /\ 3 \in WordOf(n) <=> (n \div 8) % 2 = 1
           /\ 4 \in WordOf(n) <=> (n \div 16) % 2 = 1
           /\ 5 \in WordOf(n) <=> (n \div 32) % 2 = 1
           /\ 6 \in WordOf(n) <=> (n \div 64) % 2 = 1
           /\ 7 \in WordOf(n) <=> (n \div 128) % 2 = 1
<1>1. \A b : b \in WordOf(n) <=> b \in 0..30 /\ (n \div 2^b) % 2 = 1
  BY DEF WordOf
<1>2. ASSUME NEW b \in WordOf(n) PROVE b \in 0..7
  <2>1. SUFFICES ASSUME b \in 8..30 PROVE FALSE
    BY <1>1
  <2>2. 2^b \in Nat /\ 2^b >= 256
    BY <2>1, Powers
  <2>3. \A m \in Nat : m >= 256 => n \div m = 0
    OBVIOUS
  <2>4. n \div 2^b = 0
    BY <2>2, <2>3
  <2> QED BY <1>1, <2>4
<1>3. n \div 1 = n
  OBVIOUS
<1>4. WordOf(n) \in Word
  BY <1>2 DEF Word, Bits
<1>5. /\ 0 \in WordOf(n) <=> 0 \in 0..30 /\ (n \div 2^0) % 2 = 1
      /\ 1 \in WordOf(n) <=> 1 \in 0..30 /\ (n \div 2^1) % 2 = 1
      /\ 2 \in WordOf(n) <=> 2 \in 0..30 /\ (n \div 2^2) % 2 = 1
      /\ 3 \in WordOf(n) <=> 3 \in 0..30 /\ (n \div 2^3) % 2 = 1
      /\ 4 \in WordOf(n) <=> 4 \in 0..30 /\ (n \div 2^4) % 2 = 1
      /\ 5 \in WordOf(n) <=> 5 \in 0..30 /\ (n \div 2^5) % 2 = 1
      /\ 6 \in WordOf(n) <=> 6 \in 0..30 /\ (n \div 2^6) % 2 = 1
      /\ 7 \in WordOf(n) <=> 7 \in 0..30 /\ (n \div 2^7) % 2 = 1
  BY <1>1, Zenon
<1> QED BY <1>2, <1>3, <1>4, <1>5

(* Half a byte. *)
LEMMA HalfBits ==
    ASSUME NEW n \in 0..15
    PROVE  WordOf(n) \in SUBSET (0..3)
<1>1. \A b \in WordOf(n) : b \in 0..7
  BY ByteBits
<1>2. n \div 16 = 0 /\ n \div 32 = 0 /\ n \div 64 = 0 /\ n \div 128 = 0
  OBVIOUS
<1>3. 4 \notin WordOf(n) /\ 5 \notin WordOf(n) /\ 6 \notin WordOf(n) /\ 7 \notin WordOf(n)
  BY <1>2, ByteBits
<1> QED BY <1>1, <1>3

(* A word of four bits has one number. *)
LEMMA NumOfWord == ASSUME NEW n \in 0..15 PROVE Num(WordOf(n)) = n
<1>1. ASSUME NEW m \in 0..15, WordOf(m) = WordOf(n) PROVE m = n
  <2>1. m % 2 = n % 2 /\ (m \div 2) % 2 = (n \div 2) % 2 /\ (m \div 4) % 2 = (n \div 4) % 2
        /\ (m \div 8) % 2 = (n \div 8) % 2
    BY <1>1, ByteBits
  <2> QED BY <2>1
<1> QED BY <1>1 DEF Num

LEMMA NumType == ASSUME NEW w \in SUBSET (0..3) PROVE Num(w) \in 0..15
<1> DEFINE n == (IF 0 \in w THEN 1 ELSE 0) + (IF 1 \in w THEN 2 ELSE 0) + (IF 2 \in w THEN 4 ELSE 0)
                  + (IF 3 \in w THEN 8 ELSE 0)
<1>1. /\ n \in 0..15 /\ n % 2 = (IF 0 \in w THEN 1 ELSE 0) /\ (n \div 2) % 2 = (IF 1 \in w THEN 1 ELSE 0)
      /\ (n \div 4) % 2 = (IF 2 \in w THEN 1 ELSE 0) /\ (n \div 8) % 2 = (IF 3 \in w THEN 1 ELSE 0)
  OBVIOUS
<1> HIDE DEF n
<1>2. WordOf(n) = w
  <2>1. WordOf(n) \subseteq 0..3
    BY <1>1, HalfBits
  <2>2. \A b \in 0..3 : b \in {0, 1, 2, 3}
    OBVIOUS
  <2>3. \A b \in {0, 1, 2, 3} : b \in WordOf(n) <=> b \in w
    BY <1>1, ByteBits
  <2>4. \A b : b \in WordOf(n) => b \in w
    BY <2>1, <2>2, <2>3
  <2>5. \A b : b \in w => b \in WordOf(n)
    BY <2>2, <2>3
  <2> QED BY <2>4, <2>5
<1> QED BY <1>1, <1>2 DEF Num

(* The header lengths the parser finds in its two half bytes. *)
LEMMA HeaderBytes ==
    /\ \A n \in 0..15 : LowHalf(WordOf(4 * 16 + n)) = n /\ LowHalf(WordOf(n)) = n
    /\ \A n \in 0..15 : HighHalf(WordOf(16 * n)) = n
    /\ \A w : LowHalf(w) \in 0..15 /\ HighHalf(w) \in 0..15
<1>1. ASSUME NEW n \in 0..15 PROVE LowHalf(WordOf(4 * 16 + n)) = n /\ LowHalf(WordOf(n)) = n
  <2>1. 4 * 16 + n \in 0..255 /\ n \in 0..255
    OBVIOUS
  <2>2. /\ (4 * 16 + n) % 2 = n % 2 /\ ((4 * 16 + n) \div 2) % 2 = (n \div 2) % 2
        /\ ((4 * 16 + n) \div 4) % 2 = (n \div 4) % 2 /\ ((4 * 16 + n) \div 8) % 2 = (n \div 8) % 2
    OBVIOUS
  <2>3. \A b \in 0..3 : b \in {0, 1, 2, 3}
    OBVIOUS
  <2>4. \A b \in {0, 1, 2, 3} : b \in WordOf(4 * 16 + n) <=> b \in WordOf(n)
    BY <2>1, <2>2, ByteBits
  <2>5. WordOf(4 * 16 + n) \cap (0..3) = WordOf(n) /\ WordOf(n) \cap (0..3) = WordOf(n)
    BY <2>3, <2>4, HalfBits
  <2> QED BY <2>5, NumOfWord DEF LowHalf
<1>2. ASSUME NEW n \in 0..15 PROVE HighHalf(WordOf(16 * n)) = n
  <2> DEFINE v == WordOf(16 * n)
             u == Shr(v, 4)
  <2>1. 16 * n \in 0..255 /\ n \in 0..255
    OBVIOUS
  <2>2. /\ ((16 * n) \div 16) % 2 = n % 2 /\ ((16 * n) \div 32) % 2 = (n \div 2) % 2
        /\ ((16 * n) \div 64) % 2 = (n \div 4) % 2 /\ ((16 * n) \div 128) % 2 = (n \div 8) % 2
    OBVIOUS
  <2>3. v \in SUBSET (0..7) /\ (4 \in v <=> 0 \in WordOf(n)) /\ (5 \in v <=> 1 \in WordOf(n))
        /\ (6 \in v <=> 2 \in WordOf(n)) /\ (7 \in v <=> 3 \in WordOf(n))
    BY <2>1, <2>2, ByteBits
  <2> HIDE DEF v
  <2>4. \A b \in 0..3 : b \in u <=> b + 4 \in v
    <3>1. \A b : b \in u <=> b \in 0..31 /\ \E c \in v : b = c - 4
      BY DEF Shr, Bits
    <3>2. \A c \in v : c \in Int
      BY <2>3
    <3> HIDE DEF u
    <3>3. ASSUME NEW b \in 0..3 PROVE b \in u <=> b + 4 \in v
      <4>1. b \in u => b + 4 \in v
        <5>1. ASSUME b \in u PROVE b + 4 \in v
          <6>1. PICK c \in v : b = c - 4
            BY <3>1, <5>1
          <6>2. b + 4 = c
            BY <3>2, <6>1
          <6> QED BY <6>2
        <5> QED BY <5>1
      <4>2. b + 4 \in v => b \in u
        <5>1. b = (b + 4) - 4 /\ b \in 0..31
          OBVIOUS
        <5> QED BY <3>1, <5>1
      <4> QED BY <4>1, <4>2
    <3> QED BY <3>3
  <2>5. u \cap (0..3) = WordOf(n)
    <3>1. 0 + 4 = 4 /\ 1 + 4 = 5 /\ 2 + 4 = 6 /\ 3 + 4 = 7 /\ \A b \in 0..3 : b = 0 \/ b = 1 \/ b = 2 \/ b = 3
      OBVIOUS
    <3> HIDE DEF u
    <3>2. \A b \in 0..3 : b \in u <=> b \in WordOf(n)
      BY <2>3, <2>4, <3>1
    <3> QED BY <3>2, HalfBits
  <2> QED BY <2>5, NumOfWord DEF HighHalf, v, u
<1> QED BY <1>1, <1>2, NumType DEF LowHalf, HighHalf

(* The two protocols differ. *)
LEMMA Protocols == IPPROTO_TCP \in Word /\ IPPROTO_UDP \in Word /\ IPPROTO_TCP # IPPROTO_UDP
<1>1. 0 \notin WordOf(6) /\ 0 \in WordOf(17) /\ WordOf(6) \in Word /\ WordOf(17) \in Word
  <2>1. 6 \in 0..255 /\ 17 \in 0..255 /\ 6 % 2 = 0 /\ 17 % 2 = 1
    OBVIOUS
  <2> QED BY <2>1, ByteBits
<1> QED BY <1>1 DEF IPPROTO_TCP, IPPROTO_UDP

-----------------------------------------------------------------------------
(* The text over and over. *)
Repeated(text, n) == [k \in 1..n |-> text[((k - 1) % Len(text)) + 1]]

(* The text over and over, by one text less. *)
LEMMA RepeatedSteps ==
    ASSUME NEW text \in Seq(Word), text # <<>>, NEW j \in Nat
    PROVE  /\ Repeated(text, j) \in Seq(Word) /\ Len(Repeated(text, j)) = j
           /\ j <= Len(text) => Repeated(text, j) = SubSeq(text, 1, j)
           /\ j > Len(text) => Repeated(text, j) = text \o Repeated(text, j - Len(text))
<1> DEFINE L == Len(text)
<1>1. L \in Nat /\ L > 0 /\ DOMAIN text = 1..L /\ \A i \in 1..L : text[i] \in Word
  BY LenProperties, ElementOfSeq, EmptySeq
<1>2. ASSUME NEW n \in Nat PROVE n % L \in Nat /\ n % L < L /\ (n < L => n % L = n) /\ (n + L) % L = n % L
  <2>1. n % L \in 0..(L - 1)
    BY <1>1, Division
  <2>2. (n + L) % L = n % L
    BY <1>1, SameRemainder
  <2>3. n < L => n % L = n
    BY <1>1
  <2> HIDE DEF L
  <2> QED BY <1>1, <2>1, <2>2, <2>3
<1> HIDE DEF L
<1>3. ASSUME NEW n \in Nat
      PROVE  /\ Repeated(text, n) \in Seq(Word) /\ Len(Repeated(text, n)) = n
             /\ \A k \in 1..n : Repeated(text, n)[k] = text[((k - 1) % L) + 1]
  <2>1. Repeated(text, n) = [k \in 1..n |-> text[((k - 1) % L) + 1]]
    BY DEF Repeated, L
  <2>2. ASSUME NEW k \in 1..n PROVE text[((k - 1) % L) + 1] \in Word
    <3>1. k - 1 \in Nat
      OBVIOUS
    <3>2. (k - 1) % L \in Nat /\ (k - 1) % L < L
      BY <1>2, <3>1
    <3>3. ((k - 1) % L) + 1 \in 1..L
      BY <1>1, <3>2
    <3> QED BY <1>1, <3>3
  <2>3. Repeated(text, n) \in [1..n -> Word]
    BY <2>1, <2>2
  <2> QED BY <2>1, <2>3
<1>4. ASSUME j <= L PROVE Repeated(text, j) = SubSeq(text, 1, j)
  <2>1. /\ SubSeq(text, 1, j) \in Seq(Word) /\ Len(SubSeq(text, 1, j)) = j
        /\ \A i \in 1..j : SubSeq(text, 1, j)[i] = text[i]
    BY <1>1, <1>4, SMTT(30) DEF L
  <2>2. ASSUME NEW k \in 1..j PROVE Repeated(text, j)[k] = text[k]
    <3>1. k - 1 \in Nat /\ k - 1 < L
      BY <1>1, <1>4
    <3>2. (k - 1) % L = k - 1 /\ (k - 1) + 1 = k
      BY <1>2, <3>1
    <3> QED BY <1>3, <3>2
  <2> QED BY <1>3, <2>1, <2>2, SeqEqual
<1>5. ASSUME j > L PROVE Repeated(text, j) = text \o Repeated(text, j - L)
  <2> DEFINE r == Repeated(text, j - L)
  <2>1. j - L \in Nat
    BY <1>1, <1>5
  <2>2. /\ r \in Seq(Word) /\ Len(r) = j - L
        /\ \A k \in 1..(j - L) : r[k] = text[((k - 1) % L) + 1]
    BY <1>3, <2>1
  <2> HIDE DEF r
  <2>3. /\ text \o r \in Seq(Word) /\ Len(text \o r) = j
        /\ \A i \in 1..L : (text \o r)[i] = text[i]
        /\ \A i \in 1..(j - L) : (text \o r)[L + i] = r[i]
    <3>1. /\ text \o r \in Seq(Word) /\ Len(text \o r) = L + Len(r)
          /\ \A i \in 1..(L + Len(r)) : (text \o r)[i] = IF i <= L THEN text[i] ELSE r[i - L]
      BY <2>2, ConcatProperties DEF L
    <3>2. L + Len(r) = j
      BY <1>1, <1>5, <2>2
    <3>3. \A i \in 1..L : i \in 1..j /\ i <= L
      BY <1>1, <1>5
    <3>4. \A i \in 1..(j - L) : L + i \in 1..j /\ ~(L + i <= L) /\ (L + i) - L = i
      BY <1>1, <1>5
    <3> QED BY <3>1, <3>2, <3>3, <3>4
  <2>4. ASSUME NEW k \in 1..j PROVE Repeated(text, j)[k] = (text \o r)[k]
    <3>1. k - 1 \in Nat
      OBVIOUS
    <3>2. CASE k <= L
      <4>1. (k - 1) % L = k - 1 /\ (k - 1) + 1 = k /\ k \in 1..L
        <5>1. k - 1 < L /\ k \in 1..L
          BY <1>1, <3>2
        <5> QED BY <1>2, <3>1, <5>1
      <4> QED BY <1>3, <2>3, <4>1
    <3>3. CASE k > L
      <4>1. k - L \in 1..(j - L) /\ (k - L) - 1 \in Nat /\ L + (k - L) = k /\ ((k - L) - 1) + L = k - 1
        BY <1>1, <1>5, <3>3
      <4>2. (k - 1) % L = ((k - L) - 1) % L
        BY <1>2, <4>1
      <4>3. (text \o r)[k] = r[k - L]
        BY <2>3, <4>1
      <4>4. r[k - L] = text[(((k - L) - 1) % L) + 1]
        BY <2>2, <4>1
      <4> QED BY <1>3, <4>2, <4>3, <4>4
    <3>4. k <= L \/ k > L
      BY <1>1
    <3> QED BY <3>2, <3>3, <3>4
  <2> QED BY <1>3, <2>3, <2>4, SeqEqual DEF r
<1> QED BY <1>3, <1>4, <1>5 DEF L

(* The generator's room for the payload, from Pktlen > 58. *)
LEMMA Room == PayloadRoom \in Nat /\ PayloadRoom > 4 /\ Pktlen \in Nat /\ Pktlen > 58 /\ Pktlen = PayloadRoom + 54
BY TrafficAssumption DEF PayloadRoom

(* pop_payload's loop. *)
LEMMA LoopCopies ==
    ASSUME NEW text \in Seq(Word), text # <<>>
    PROVE  CopyLoop(text) = Repeated(text, PayloadRoom)
<1> DEFINE Copied[j \in 0..PayloadRoom] ==
             IF j > Len(text) THEN text \o Copied[j - Len(text)] ELSE SubSeq(text, 1, j)
           g == [j \in 0..PayloadRoom |-> Repeated(text, j)]
<1>1. CopyLoop(text) = Copied[PayloadRoom]
  BY DEF CopyLoop
<1>2. Len(text) \in Nat /\ Len(text) > 0
  BY LenProperties, EmptySeq
<1>3. \A j \in 0..PayloadRoom : j > Len(text) => j - Len(text) \in 0..PayloadRoom /\ ~(j <= j - Len(text))
  BY <1>2, Room
<1>4. \A j \in 0..PayloadRoom :
        g[j] = IF j > Len(text) THEN text \o g[j - Len(text)] ELSE SubSeq(text, 1, j)
  <2>1. ASSUME NEW j \in 0..PayloadRoom
        PROVE  g[j] = IF j > Len(text) THEN text \o g[j - Len(text)] ELSE SubSeq(text, 1, j)
    <3>1. j \in Nat /\ g[j] = Repeated(text, j)
      BY Room
    <3>2. CASE j > Len(text)
      <4>1. g[j - Len(text)] = Repeated(text, j - Len(text))
        BY <1>3, <3>2
      <4> QED BY <3>1, <3>2, <4>1, RepeatedSteps
    <3>3. CASE ~(j > Len(text))
      <4>1. j <= Len(text)
        BY <1>2, <3>1, <3>3
      <4> QED BY <3>1, <3>3, <4>1, RepeatedSteps
    <3> QED BY <3>2, <3>3
  <2> QED BY <2>1
<1>5. \A j \in 0..PayloadRoom : g[j] = Repeated(text, j)
  OBVIOUS
<1>6. g = [j \in 0..PayloadRoom |-> IF j > Len(text) THEN text \o g[j - Len(text)] ELSE SubSeq(text, 1, j)]
  BY <1>4
<1> HIDE DEF g
<1>7. Copied = [j \in 0..PayloadRoom |->
                  IF j > Len(text) THEN text \o Copied[j - Len(text)] ELSE SubSeq(text, 1, j)]
  BY <1>6
<1> HIDE DEF Copied
<1> DEFINE D == {j \in 0..PayloadRoom : Copied[j] # g[j]}
<1>8. D = {}
  <2> SUFFICES ASSUME D # {} PROVE FALSE
    OBVIOUS
  <2>1. PICK j \in D : \A i \in D : j <= i
    <3>1. D \in SUBSET Nat
      BY Room
    <3> QED BY <3>1, Least
  <2>2. j \in 0..PayloadRoom /\ Copied[j] # g[j]
    BY <2>1
  <2>3. Copied[j] = IF j > Len(text) THEN text \o Copied[j - Len(text)] ELSE SubSeq(text, 1, j)
    BY <1>7, <2>2
  <2>4. j > Len(text) => Copied[j - Len(text)] = g[j - Len(text)]
    BY <1>3, <2>1, <2>2
  <2> QED BY <1>4, <2>2, <2>3, <2>4
<1>9. PayloadRoom \in 0..PayloadRoom
  BY Room
<1> QED BY <1>1, <1>5, <1>8, <1>9
(* No offset is written twice; what is written are words inside the buffer. *)
SingleValued(fields) == \A e, f \in fields : e[1] = f[1] => e[2] = f[2]
InBuffer(fields) == \A f \in fields : f[1] \in Offsets /\ f[2] \in Word

(* Then the pairs are read back, and what they leave out stays. *)
LEMMA Written ==
    ASSUME NEW d, NEW fields, SingleValued(fields)
    PROVE  /\ \A f \in fields : Write(d, fields)[f[1]] = f[2]
           /\ \A o \in DOMAIN d : (\A f \in fields : f[1] # o) => Write(d, fields)[o] = d[o]
<1> DEFINE at(o) == {f \in fields : f[1] = o}
<1>1. Write(d, fields) = [o \in DOMAIN d \cup {f[1] : f \in fields} |->
                             IF at(o) = {} THEN d[o] ELSE (CHOOSE f \in at(o) : TRUE)[2]]
  BY DEF Write
<1>2. ASSUME NEW f \in fields PROVE Write(d, fields)[f[1]] = f[2]
  <2>1. f \in at(f[1])
    OBVIOUS
  <2>2. (CHOOSE e \in at(f[1]) : TRUE) \in at(f[1])
    BY <2>1
  <2>3. (CHOOSE e \in at(f[1]) : TRUE)[2] = f[2]
    BY <2>2 DEF SingleValued
  <2>4. Write(d, fields)[f[1]] = IF at(f[1]) = {} THEN d[f[1]] ELSE (CHOOSE e \in at(f[1]) : TRUE)[2]
    BY <1>1
  <2> QED BY <2>1, <2>3, <2>4
<1>3. ASSUME NEW o \in DOMAIN d, \A f \in fields : f[1] # o PROVE Write(d, fields)[o] = d[o]
  <2>1. at(o) = {}
    BY <1>3
  <2> QED BY <1>1, <2>1
<1> QED BY <1>2, <1>3

(* Words written at offsets of the buffer leave a buffer. *)
LEMMA WriteType ==
    ASSUME NEW d \in [Offsets -> Word], NEW fields, InBuffer(fields)
    PROVE  Write(d, fields) \in [Offsets -> Word]
<1> DEFINE at(o) == {f \in fields : f[1] = o}
<1>1. Write(d, fields) = [o \in DOMAIN d \cup {f[1] : f \in fields} |->
                             IF at(o) = {} THEN d[o] ELSE (CHOOSE f \in at(o) : TRUE)[2]]
  BY DEF Write
<1>2. DOMAIN d \cup {f[1] : f \in fields} = Offsets
  BY DEF InBuffer
<1>3. ASSUME NEW o \in Offsets PROVE (IF at(o) = {} THEN d[o] ELSE (CHOOSE f \in at(o) : TRUE)[2]) \in Word
  <2>1. at(o) # {} => (CHOOSE f \in at(o) : TRUE) \in at(o)
    OBVIOUS
  <2>2. at(o) # {} => (CHOOSE f \in at(o) : TRUE) \in fields
    BY <2>1
  <2>3. at(o) # {} => (CHOOSE f \in at(o) : TRUE)[2] \in Word
    BY <2>2 DEF InBuffer
  <2> QED BY <2>3
<1> HIDE DEF at
<1> QED BY <1>1, <1>2, <1>3

(* The offsets of a buffer, and the fixed ones. *)
LEMMA OffsetsAre == \A o : o \in Offsets <=> o \in Int /\ o >= 16 /\ o < Pktlen + 2
BY Room DEF Offsets, IP_IDX, PAY_LEN

LEMMA FixedOffsets ==
    /\ 16 \in Offsets /\ 25 \in Offsets /\ 28 \in Offsets /\ 32 \in Offsets
    /\ 36 \in Offsets /\ 38 \in Offsets /\ 48 \in Offsets
BY OffsetsAre, Room

(* The cursors as a generator writes them. *)
LEMMA CursorFields ==
    ASSUME NEW c \in [Ranges -> Word]
    PROVE  /\ Cursors(c) = {<<28, htonl(c.saddr)>>, <<32, htonl(c.daddr)>>, <<36, htons(c.sport)>>,
                            <<38, htons(c.dport)>>}
           /\ htonl(c.saddr) \in Word /\ htonl(c.daddr) \in Word
           /\ htons(c.sport) \in Word /\ htons(c.dport) \in Word
<1>1. c.saddr \in Word /\ c.daddr \in Word /\ c.sport \in Word /\ c.dport \in Word
  BY DEF Ranges
<1>2. IP_IDX + 12 = 28 /\ IP_IDX + 16 = 32 /\ TCP_IDX = 36 /\ TCP_IDX + 2 = 38
  BY DEF IP_IDX, TCP_IDX
<1> QED BY <1>1, <1>2, NetworkOrder DEF Cursors

LEMMA CursorsWritten ==
    ASSUME NEW d \in [Offsets -> Word], NEW c \in [Ranges -> Word], NEW e, e = Write(d, Cursors(c))
    PROVE  /\ e \in [Offsets -> Word]
           /\ e[28] = htonl(c.saddr) /\ e[32] = htonl(c.daddr) /\ e[36] = htons(c.sport) /\ e[38] = htons(c.dport)
           /\ \A o \in Offsets : o \notin {28, 32, 36, 38} => e[o] = d[o]
<1> DEFINE F == Cursors(c)
<1>1. F = {<<28, htonl(c.saddr)>>, <<32, htonl(c.daddr)>>, <<36, htons(c.sport)>>, <<38, htons(c.dport)>>}
  BY CursorFields
<1>2. InBuffer(F)
  BY <1>1, CursorFields, FixedOffsets DEF InBuffer
<1>3. SingleValued(F)
  BY <1>1 DEF SingleValued
<1>4. \A f \in F : f[1] \in {28, 32, 36, 38}
  BY <1>1
<1>5. /\ <<28, htonl(c.saddr)>> \in F /\ <<32, htonl(c.daddr)>> \in F
      /\ <<36, htons(c.sport)>> \in F /\ <<38, htons(c.dport)>> \in F
  BY <1>1
<1> HIDE DEF F
<1>6. e = Write(d, F)
  BY DEF F
<1>7. e \in [Offsets -> Word]
  BY <1>2, <1>6, WriteType
<1>8. \A f \in F : e[f[1]] = f[2]
  BY ONLY <1>3, <1>6, Written
<1>9. \A o \in DOMAIN d : (\A f \in F : f[1] # o) => e[o] = d[o]
  BY ONLY <1>3, <1>6, Written
<1>10. e[28] = htonl(c.saddr) /\ e[32] = htonl(c.daddr) /\ e[36] = htons(c.sport) /\ e[38] = htons(c.dport)
  BY <1>5, <1>8
<1> QED BY <1>4, <1>7, <1>9, <1>10

(* Text. *)
LEMMA TextFields ==
    ASSUME NEW o \in Int, NEW text \in Seq(Word)
    PROVE  /\ Len(text) \in Nat
           /\ \A f \in TextAt(o, text) : \E i \in 1..Len(text) : f = <<o + i - 1, text[i]>>
           /\ \A i \in 1..Len(text) : <<o + i - 1, text[i]>> \in TextAt(o, text) /\ text[i] \in Word
<1>1. Len(text) \in Nat /\ DOMAIN text = 1..Len(text) /\ \A i \in 1..Len(text) : text[i] \in Word
  BY LenProperties, ElementOfSeq
<1> QED BY <1>1 DEF TextAt

(* What a prepared packet keeps. *)
TcpReady(d, text) ==
    /\ d[16] = WordOf(69) /\ d[25] = IPPROTO_TCP /\ d[48] = WordOf(80)
    /\ \A k \in 1..PayloadRoom : d[55 + k] = Repeated(text, PayloadRoom)[k]
UdpReady(d) == d[16] = WordOf(5) /\ d[25] = IPPROTO_UDP

(* A TCP packet as make_all_packet leaves it, whatever was in the buffer, *)
LEMMA TcpPrepared ==
    ASSUME NEW d \in [Offsets -> Word], NEW c \in [Ranges -> Word], NEW e,
           pkt_data \in Seq(Word), pkt_data # <<>>, e = Write(d, Cursors(c) \cup TcpTemplate)
    PROVE  e \in [Offsets -> Word] /\ TcpReady(e, pkt_data)
<1> DEFINE t == Repeated(pkt_data, PayloadRoom)
           head == {<<16, WordOf(69)>>, <<25, IPPROTO_TCP>>, <<48, WordOf(80)>>}
           F == Cursors(c) \cup TcpTemplate
<1>0. d \in [Offsets -> Word]
  OBVIOUS
<1>1. t \in Seq(Word) /\ Len(t) = PayloadRoom
  BY RepeatedSteps, Room
<1>2. TcpTemplate = head \cup TextAt(56, t)
  <2>1. CopyLoop(pkt_data) = t
    BY LoopCopies
  <2>2. IP_IDX = 16 /\ IP_IDX + 9 = 25 /\ TCP_IDX + 12 = 48 /\ 4 * 16 + 5 = 69 /\ 5 * 16 = 80
    BY DEF IP_IDX, TCP_IDX
  <2> HIDE DEF t
  <2> QED BY <2>1, <2>2 DEF TcpTemplate
<1> HIDE DEF t
<1>3. /\ \A f \in TextAt(56, t) : \E i \in 1..PayloadRoom : f = <<56 + i - 1, t[i]>>
      /\ \A i \in 1..PayloadRoom : <<56 + i - 1, t[i]>> \in TextAt(56, t) /\ t[i] \in Word
  BY <1>1, TextFields
<1>4. WordOf(69) \in Word /\ WordOf(80) \in Word /\ IPPROTO_TCP \in Word
  BY ByteBits, Protocols
<1>5. /\ \A i \in 1..PayloadRoom : 56 + i - 1 \in Offsets /\ 56 + i - 1 = 55 + i /\ 56 + i - 1 > 55
      /\ \A i, j \in 1..PayloadRoom : 56 + i - 1 = 56 + j - 1 => i = j
  BY OffsetsAre, Room
<1>6. ASSUME NEW f \in F
      PROVE  \/ f \in Cursors(c) \cup head /\ f[1] \in {16, 25, 28, 32, 36, 38, 48} /\ f[2] \in Word
             \/ \E i \in 1..PayloadRoom : f = <<56 + i - 1, t[i]>>
  BY <1>2, <1>3, <1>4, CursorFields
<1>7. InBuffer(F)
  <2>1. \A i \in 1..PayloadRoom : 56 + i - 1 \in Offsets /\ t[i] \in Word
    BY <1>3, <1>5
  <2> HIDE DEF F, head
  <2>2. ASSUME NEW f \in F PROVE f[1] \in Offsets /\ f[2] \in Word
    <3>1. CASE f[1] \in {16, 25, 28, 32, 36, 38, 48} /\ f[2] \in Word
      BY <3>1, FixedOffsets
    <3>2. CASE \E i \in 1..PayloadRoom : f = <<56 + i - 1, t[i]>>
      BY <2>1, <3>2
    <3> QED BY <1>6, <3>1, <3>2
  <2> QED BY <2>2 DEF InBuffer
<1>8. SingleValued(F)
  <2> SUFFICES ASSUME NEW f \in F, NEW h \in F, f[1] = h[1] PROVE f[2] = h[2]
    BY DEF SingleValued
  <2>1. \A g \in Cursors(c) \cup head : \A k \in Cursors(c) \cup head : g[1] = k[1] => g[2] = k[2]
    BY CursorFields
  <2>2. \A i \in 1..PayloadRoom : 56 + i - 1 \notin {16, 25, 28, 32, 36, 38, 48}
    BY Room
  <2> HIDE DEF head, F
  <2>3. CASE f \in Cursors(c) \cup head /\ f[1] \in {16, 25, 28, 32, 36, 38, 48}
    BY <1>6, <2>1, <2>2, <2>3
  <2>4. CASE \E i \in 1..PayloadRoom : f = <<56 + i - 1, t[i]>>
    <3>1. PICK i \in 1..PayloadRoom : f = <<56 + i - 1, t[i]>>
      BY <2>4
    <3>2. PICK j \in 1..PayloadRoom : h = <<56 + j - 1, t[j]>>
      BY <1>6, <2>2, <3>1
    <3> QED BY <1>5, <3>1, <3>2
  <2> QED BY <1>6, <2>3, <2>4
<1>9. <<16, WordOf(69)>> \in F /\ <<25, IPPROTO_TCP>> \in F /\ <<48, WordOf(80)>> \in F
      /\ \A i \in 1..PayloadRoom : <<56 + i - 1, t[i]>> \in F
  BY <1>2, <1>3
<1>10. e = Write(d, F)
  OBVIOUS
<1> HIDE DEF F, head
<1>11. e \in [Offsets -> Word]
  BY ONLY <1>0, <1>7, <1>10, WriteType
<1>12. \A f \in F : e[f[1]] = f[2]
  BY ONLY <1>8, <1>10, Written
<1>13. e[16] = WordOf(69) /\ e[25] = IPPROTO_TCP /\ e[48] = WordOf(80)
       /\ \A i \in 1..PayloadRoom : e[56 + i - 1] = t[i]
  BY <1>9, <1>12
<1> QED BY <1>5, <1>11, <1>13 DEF TcpReady, t

(* and a UDP packet. *)
LEMMA UdpPrepared ==
    ASSUME NEW d \in [Offsets -> Word], NEW c \in [Ranges -> Word], NEW e,
           pkt_data \in Seq(Word), pkt_data # <<>>, e = Write(d, Cursors(c) \cup UdpTemplate)
    PROVE  e \in [Offsets -> Word] /\ UdpReady(e)
<1> DEFINE t == Repeated(pkt_data, PayloadRoom)
           head == {<<16, WordOf(5)>>, <<25, IPPROTO_UDP>>}
           F == Cursors(c) \cup UdpTemplate
<1>0. d \in [Offsets -> Word]
  OBVIOUS
<1>1. t \in Seq(Word) /\ Len(t) = PayloadRoom
  BY RepeatedSteps, Room
<1>2. UdpTemplate = head \cup TextAt(44, t)
  <2>1. CopyLoop(pkt_data) = t
    BY LoopCopies
  <2>2. IP_IDX = 16 /\ IP_IDX + 9 = 25
    BY DEF IP_IDX
  <2> HIDE DEF t
  <2> QED BY <2>1, <2>2 DEF UdpTemplate
<1> HIDE DEF t
<1>3. /\ \A f \in TextAt(44, t) : \E i \in 1..PayloadRoom : f = <<44 + i - 1, t[i]>>
      /\ \A i \in 1..PayloadRoom : <<44 + i - 1, t[i]>> \in TextAt(44, t) /\ t[i] \in Word
  BY <1>1, TextFields
<1>4. WordOf(5) \in Word /\ IPPROTO_UDP \in Word
  BY ByteBits, Protocols
<1>5. /\ \A i \in 1..PayloadRoom : 44 + i - 1 \in Offsets
      /\ \A i, j \in 1..PayloadRoom : 44 + i - 1 = 44 + j - 1 => i = j
  BY OffsetsAre, Room
<1>6. ASSUME NEW f \in F
      PROVE  \/ f \in Cursors(c) \cup head /\ f[1] \in {16, 25, 28, 32, 36, 38} /\ f[2] \in Word
             \/ \E i \in 1..PayloadRoom : f = <<44 + i - 1, t[i]>>
  BY <1>2, <1>3, <1>4, CursorFields
<1>7. InBuffer(F)
  <2>1. \A i \in 1..PayloadRoom : 44 + i - 1 \in Offsets /\ t[i] \in Word
    BY <1>3, <1>5
  <2> HIDE DEF F, head
  <2>2. \A f \in F : f[1] \in Offsets /\ f[2] \in Word
    BY <1>6, <2>1, FixedOffsets
  <2> QED BY <2>2 DEF InBuffer
<1>8. SingleValued(F)
  <2> SUFFICES ASSUME NEW f \in F, NEW h \in F, f[1] = h[1] PROVE f[2] = h[2]
    BY DEF SingleValued
  <2>1. \A g \in Cursors(c) \cup head : \A k \in Cursors(c) \cup head : g[1] = k[1] => g[2] = k[2]
    BY CursorFields
  <2>2. \A i \in 1..PayloadRoom : 44 + i - 1 \notin {16, 25, 28, 32, 36, 38}
    BY Room
  <2> HIDE DEF head, F
  <2>3. CASE f \in Cursors(c) \cup head /\ f[1] \in {16, 25, 28, 32, 36, 38}
    BY <1>6, <2>1, <2>2, <2>3
  <2>4. CASE \E i \in 1..PayloadRoom : f = <<44 + i - 1, t[i]>>
    <3>1. PICK i \in 1..PayloadRoom : f = <<44 + i - 1, t[i]>>
      BY <2>4
    <3>2. PICK j \in 1..PayloadRoom : h = <<44 + j - 1, t[j]>>
      BY <1>6, <2>2, <3>1
    <3> QED BY <1>5, <3>1, <3>2
  <2> QED BY <1>6, <2>3, <2>4
<1>9. <<16, WordOf(5)>> \in F /\ <<25, IPPROTO_UDP>> \in F
  BY <1>2
<1>10. e = Write(d, F)
  OBVIOUS
<1> HIDE DEF F, head
<1>11. e \in [Offsets -> Word]
  BY ONLY <1>0, <1>7, <1>10, WriteType
<1>12. \A f \in F : e[f[1]] = f[2]
  BY ONLY <1>8, <1>10, Written
<1> QED BY <1>9, <1>11, <1>12 DEF UdpReady

-----------------------------------------------------------------------------
(* What was sent is what the parser finds at the offsets it computes. *)
Wires == [saddr : Word, daddr : Word, sport : Word, dport : Word, protocol : Word,
          payload : Seq(Word), padding : Seq(Word)]

Sent(d, len, w) ==
    LET tcp == 16 + 4 * LowHalf(d[16])
        text == tcp + 4 * HighHalf(d[tcp + 12])
    IN  /\ w \in Wires
        /\ d[25] = w.protocol /\ d[28] = w.saddr /\ d[32] = w.daddr /\ d[tcp] = w.sport /\ d[tcp + 2] = w.dport
        /\ w.protocol = IPPROTO_TCP => [k \in 1..(len - text + 2) |-> d[text + k - 1]] = Body(w)

(* A prepared packet with new cursors. *)
LEMMA TcpSent ==
    ASSUME NEW d \in [Offsets -> Word], NEW c \in [Ranges -> Word], NEW e, e = Write(d, Cursors(c)),
           NEW s \in Seq(Word), s # <<>>, TcpReady(d, s)
    PROVE  /\ TcpReady(e, s)
           /\ Sent(e, Pktlen, [saddr |-> htonl(c.saddr), daddr |-> htonl(c.daddr), sport |-> htons(c.sport),
                               dport |-> htons(c.dport), protocol |-> IPPROTO_TCP,
                               payload |-> Repeated(s, PayloadRoom), padding |-> <<>>])
<1> DEFINE t == Repeated(s, PayloadRoom)
           w == [saddr |-> htonl(c.saddr), daddr |-> htonl(c.daddr), sport |-> htons(c.sport),
                 dport |-> htons(c.dport), protocol |-> IPPROTO_TCP, payload |-> t, padding |-> <<>>]
<1>1. /\ e \in [Offsets -> Word]
      /\ e[28] = htonl(c.saddr) /\ e[32] = htonl(c.daddr) /\ e[36] = htons(c.sport) /\ e[38] = htons(c.dport)
      /\ \A o \in Offsets : o \notin {28, 32, 36, 38} => e[o] = d[o]
  BY CursorsWritten
<1>2. t \in Seq(Word) /\ Len(t) = PayloadRoom
  BY RepeatedSteps, Room
<1> HIDE DEF t
<1>3. e[16] = WordOf(69) /\ e[25] = IPPROTO_TCP /\ e[48] = WordOf(80)
  <2>1. d[16] = WordOf(69) /\ d[25] = IPPROTO_TCP /\ d[48] = WordOf(80)
    BY DEF TcpReady
  <2>2. e[16] = d[16] /\ e[25] = d[25] /\ e[48] = d[48]
    BY <1>1, FixedOffsets
  <2> QED BY <2>1, <2>2
<1>4. \A k \in 1..PayloadRoom : e[55 + k] = t[k]
  <2>1. \A k \in 1..PayloadRoom : 55 + k \in Offsets /\ 55 + k \notin {28, 32, 36, 38}
    BY OffsetsAre, Room
  <2>2. \A k \in 1..PayloadRoom : d[55 + k] = t[k]
    BY DEF TcpReady, t
  <2> QED BY <1>1, <2>1, <2>2
<1>5. TcpReady(e, s)
  BY <1>3, <1>4 DEF TcpReady, t
<1>6. LowHalf(e[16]) = 5 /\ HighHalf(e[48]) = 5
  <2>1. LowHalf(WordOf(4 * 16 + 5)) = 5 /\ HighHalf(WordOf(16 * 5)) = 5
    <3>1. 5 \in 0..15
      OBVIOUS
    <3> QED BY <3>1, HeaderBytes
  <2>2. 4 * 16 + 5 = 69 /\ 16 * 5 = 80
    OBVIOUS
  <2> QED BY <1>3, <2>1, <2>2
<1>7. /\ 16 + 4 * LowHalf(e[16]) = 36 /\ 36 + 12 = 48 /\ 36 + 2 = 38 /\ 36 + 4 * HighHalf(e[48]) = 56
      /\ Pktlen - 56 + 2 = PayloadRoom /\ \A k \in 1..PayloadRoom : 56 + k - 1 = 55 + k
  BY <1>6, Room
<1>8. [k \in 1..(Pktlen - 56 + 2) |-> e[56 + k - 1]] = t
  <2>1. t = [k \in 1..PayloadRoom |-> t[k]]
    BY <1>2, LenProperties
  <2>2. [k \in 1..PayloadRoom |-> e[56 + k - 1]] = [k \in 1..PayloadRoom |-> t[k]]
    BY <1>4, <1>7
  <2> QED BY <1>7, <2>1, <2>2
<1>9. w \in Wires
  BY <1>2, CursorFields, Protocols DEF Wires
<1>10. /\ w.saddr = e[28] /\ w.daddr = e[32] /\ w.sport = e[36] /\ w.dport = e[38]
       /\ w.protocol = e[25] /\ Body(w) = t
  <2>1. t \o <<>> = t
    BY <1>2, ConcatEmptySeq
  <2> QED BY <1>1, <1>3, <2>1 DEF Body
<1> HIDE DEF w
<1>11. Sent(e, Pktlen, w)
  BY <1>7, <1>8, <1>9, <1>10 DEF Sent
<1> QED BY <1>5, <1>11 DEF w, t

(* The same for UDP; of the payload nothing is claimed. *)
LEMMA UdpSent ==
    ASSUME NEW d \in [Offsets -> Word], NEW c \in [Ranges -> Word], NEW e, e = Write(d, Cursors(c)),
           NEW t \in Seq(Word), UdpReady(d)
    PROVE  /\ UdpReady(e)
           /\ Sent(e, Pktlen, [saddr |-> htonl(c.saddr), daddr |-> htonl(c.daddr), sport |-> htons(c.sport),
                               dport |-> htons(c.dport), protocol |-> IPPROTO_UDP, payload |-> t, padding |-> <<>>])
<1> DEFINE w == [saddr |-> htonl(c.saddr), daddr |-> htonl(c.daddr), sport |-> htons(c.sport),
                 dport |-> htons(c.dport), protocol |-> IPPROTO_UDP, payload |-> t, padding |-> <<>>]
<1>1. /\ e[28] = htonl(c.saddr) /\ e[32] = htonl(c.daddr) /\ e[36] = htons(c.sport) /\ e[38] = htons(c.dport)
      /\ \A o \in Offsets : o \notin {28, 32, 36, 38} => e[o] = d[o]
  BY CursorsWritten
<1>2. e[16] = WordOf(5) /\ e[25] = IPPROTO_UDP
  BY <1>1, FixedOffsets DEF UdpReady
<1>3. 16 + 4 * LowHalf(e[16]) = 36 /\ 36 + 2 = 38
  <2>1. 5 \in 0..15
    OBVIOUS
  <2>2. LowHalf(WordOf(5)) = 5
    BY <2>1, HeaderBytes
  <2> QED BY <1>2, <2>2
<1>4. w \in Wires
  BY CursorFields, Protocols DEF Wires
<1>5. /\ w.saddr = e[28] /\ w.daddr = e[32] /\ w.sport = e[36] /\ w.dport = e[38]
      /\ w.protocol = e[25] /\ w.protocol # IPPROTO_TCP
  BY <1>1, <1>2, Protocols
<1> HIDE DEF w
<1>6. Sent(e, Pktlen, w)
  BY <1>3, <1>4, <1>5 DEF Sent
<1> QED BY <1>2, <1>6 DEF UdpReady, w

(* The sizes of a frame. *)
LEMMA FrameSizes ==
    ASSUME NEW f \in Frames
    PROVE  /\ f.ihl \in 5..15 /\ f.doff \in 5..15 /\ Body(f) \in Seq(Word) /\ Len(Body(f)) \in Nat
           /\ f.payload \in Seq(Word) /\ f.padding \in Seq(Word)
           /\ f.protocol \in Word /\ f.saddr \in Word /\ f.daddr \in Word /\ f.sport \in Word /\ f.dport \in Word
           /\ TransportLength(f) = IF f.protocol = IPPROTO_TCP THEN 4 * f.doff ELSE 8
           /\ TransportLength(f) \in Nat /\ TransportLength(f) >= 8
           /\ f.protocol = IPPROTO_TCP => TransportLength(f) >= 20
           /\ FrameLength(f) = 14 + 4 * f.ihl + TransportLength(f) + Len(Body(f))
           /\ FrameLength(f) \in 0..Pktlen
<1>1. /\ f.ihl \in 5..15 /\ f.doff \in 5..15 /\ f.payload \in Seq(Word) /\ f.padding \in Seq(Word)
      /\ f.protocol \in Word /\ f.saddr \in Word /\ f.daddr \in Word /\ f.sport \in Word /\ f.dport \in Word
      /\ FrameLength(f) <= Pktlen
  BY TrafficAssumption
<1>2. Body(f) \in Seq(Word) /\ Len(Body(f)) \in Nat
  BY <1>1, ConcatProperties, LenProperties DEF Body
<1>3. TransportLength(f) = IF f.protocol = IPPROTO_TCP THEN 4 * f.doff ELSE 8
  BY DEF TransportLength
<1>4. TransportLength(f) \in Nat /\ TransportLength(f) >= 8 /\ (f.protocol = IPPROTO_TCP => TransportLength(f) >= 20)
  BY <1>1, <1>3
<1>5. FrameLength(f) = 14 + 4 * f.ihl + TransportLength(f) + Len(Body(f))
  BY DEF FrameLength, ETH_HLEN
<1>6. 4 * f.ihl \in Nat
  BY <1>1
<1>7. FrameLength(f) \in 0..Pktlen
  BY <1>1, <1>2, <1>4, <1>5, <1>6, Room
<1> QED BY <1>1, <1>2, <1>3, <1>4, <1>5, <1>7

(* A frame, with options or without, over whatever the buffer held. *)
LEMMA FrameSent ==
    ASSUME NEW d \in [Offsets -> Word], NEW f \in Frames, NEW e, e = Write(d, FrameAt(PAY_LEN, f))
    PROVE  e \in [Offsets -> Word] /\ Sent(e, FrameLength(f), [r \in DOMAIN NoWire |-> f[r]])
<1> DEFINE T == 16 + 4 * f.ihl
           P == T + TransportLength(f)
           n == Len(Body(f))
           byte == IF f.protocol = IPPROTO_TCP THEN {<<T + 12, WordOf(16 * f.doff)>>} ELSE {}
           head == {<<16, WordOf(4 * 16 + f.ihl)>>, <<25, f.protocol>>, <<28, f.saddr>>, <<32, f.daddr>>,
                    <<T, f.sport>>, <<T + 2, f.dport>>}
           H == head \cup byte
           F == H \cup TextAt(P, Body(f))
           w == [r \in DOMAIN NoWire |-> f[r]]
<1>1. /\ f.ihl \in 5..15 /\ f.doff \in 5..15 /\ Body(f) \in Seq(Word) /\ n \in Nat
      /\ f.protocol \in Word /\ f.saddr \in Word /\ f.daddr \in Word /\ f.sport \in Word /\ f.dport \in Word
      /\ T \in Int /\ T >= 36 /\ P \in Int /\ P >= T + 8 /\ P + n <= Pktlen + 2
      /\ f.protocol = IPPROTO_TCP => P = T + 4 * f.doff /\ P >= T + 20
      /\ FrameLength(f) = P - 2 + n
  <2> DEFINE t == TransportLength(f)
  <2>1. /\ f.ihl \in 5..15 /\ f.doff \in 5..15 /\ n \in Nat /\ t \in Nat /\ t >= 8
        /\ f.protocol = IPPROTO_TCP => t = 4 * f.doff /\ t >= 20
        /\ FrameLength(f) = 14 + 4 * f.ihl + t + n /\ FrameLength(f) <= Pktlen
    BY FrameSizes, Room
  <2> HIDE DEF t, n
  <2>2. T \in Int /\ T >= 36
    BY <2>1
  <2>3. 14 + 4 * f.ihl = T - 2
    BY <2>1
  <2>4. P = T + t
    BY DEF t
  <2> HIDE DEF T, P
  <2>5. /\ P \in Int /\ P >= T + 8 /\ (f.protocol = IPPROTO_TCP => P = T + 4 * f.doff /\ P >= T + 20)
        /\ FrameLength(f) = P - 2 + n
    BY <2>1, <2>2, <2>3, <2>4
  <2>6. P + n <= Pktlen + 2
    BY <2>1, <2>5, Room
  <2> QED BY <2>1, <2>2, <2>5, <2>6, FrameSizes DEF n
<1>2. FrameAt(PAY_LEN, f) = F
  <2>1. PAY_LEN + ETH_HLEN = 16 /\ 16 + 9 = 25 /\ 16 + 12 = 28 /\ 16 + 16 = 32
    BY DEF PAY_LEN, ETH_HLEN
  <2> QED BY <2>1 DEF FrameAt
<1> HIDE DEF n
<1>3. WordOf(4 * 16 + f.ihl) \in Word /\ WordOf(16 * f.doff) \in Word
  <2>1. \A i \in 5..15 : 4 * 16 + i \in 0..255 /\ 16 * i \in 0..255
    OBVIOUS
  <2>2. 4 * 16 + f.ihl \in 0..255 /\ 16 * f.doff \in 0..255
    BY FrameSizes, <2>1
  <2> QED BY ONLY <2>2, ByteBits
<1> HIDE DEF T, P
<1>4. \A h \in H : /\ h[1] \in Int /\ h[1] >= 16 /\ h[1] < P /\ h[1] < Pktlen + 2 /\ h[2] \in Word
  BY <1>1, <1>3, Room
<1>5. \A h, k \in H : h[1] = k[1] => h[2] = k[2]
  BY <1>1
<1>6. /\ <<16, WordOf(4 * 16 + f.ihl)>> \in H /\ <<25, f.protocol>> \in H /\ <<28, f.saddr>> \in H
      /\ <<32, f.daddr>> \in H /\ <<T, f.sport>> \in H /\ <<T + 2, f.dport>> \in H
      /\ f.protocol = IPPROTO_TCP => <<T + 12, WordOf(16 * f.doff)>> \in H
  OBVIOUS
<1> HIDE DEF H
<1>7. /\ \A h \in TextAt(P, Body(f)) : \E i \in 1..n : h = <<P + i - 1, Body(f)[i]>>
      /\ \A i \in 1..n : <<P + i - 1, Body(f)[i]>> \in TextAt(P, Body(f)) /\ Body(f)[i] \in Word
  BY <1>1, TextFields DEF n
<1>8. ASSUME NEW h \in F PROVE h \in H \/ \E i \in 1..n : h = <<P + i - 1, Body(f)[i]>>
  BY <1>7
<1>9. /\ \A h \in H : h \in F
      /\ \A i \in 1..n : <<P + i - 1, Body(f)[i]>> \in F
  BY <1>7
<1>10. e = Write(d, F) /\ d \in [Offsets -> Word]
  BY <1>2
<1> HIDE DEF F
<1>11. /\ \A i \in 1..n : P + i - 1 \in Offsets /\ P + i - 1 >= P
       /\ \A i, j \in 1..n : P + i - 1 = P + j - 1 => i = j
  BY <1>1, OffsetsAre, Room
<1>12. InBuffer(F)
  <2>1. ASSUME NEW h \in F PROVE h[1] \in Offsets /\ h[2] \in Word
    <3>1. CASE h \in H
      BY <1>4, <3>1, OffsetsAre
    <3>2. CASE \E i \in 1..n : h = <<P + i - 1, Body(f)[i]>>
      BY <1>7, <1>11, <3>2
    <3> QED BY <1>8, <3>1, <3>2
  <2> QED BY <2>1 DEF InBuffer
<1>13. SingleValued(F)
  <2> SUFFICES ASSUME NEW h \in F, NEW k \in F, h[1] = k[1] PROVE h[2] = k[2]
    BY DEF SingleValued
  <2>1. \A m \in H : \A i \in 1..n : P + i - 1 # m[1]
    <3>1. ASSUME NEW m \in H, NEW i \in 1..n PROVE P + i - 1 # m[1]
      <4>1. m[1] \in Int /\ m[1] < P
        BY <1>4
      <4> QED BY <1>1, <4>1
    <3> QED BY <3>1
  <2>2. CASE h \in H
    BY <1>5, <1>8, <2>1, <2>2
  <2>3. CASE \E i \in 1..n : h = <<P + i - 1, Body(f)[i]>>
    <3>1. PICK i \in 1..n : h = <<P + i - 1, Body(f)[i]>>
      BY <2>3
    <3>2. PICK j \in 1..n : k = <<P + j - 1, Body(f)[j]>>
      BY <1>8, <2>1, <3>1
    <3> QED BY <1>11, <3>1, <3>2
  <2> QED BY <1>8, <2>2, <2>3
<1>14. e \in [Offsets -> Word]
  BY ONLY <1>10, <1>12, WriteType
<1>15. \A h \in F : e[h[1]] = h[2]
  BY ONLY <1>10, <1>13, Written
<1>16. /\ e[16] = WordOf(4 * 16 + f.ihl) /\ e[25] = f.protocol /\ e[28] = f.saddr /\ e[32] = f.daddr
       /\ e[T] = f.sport /\ e[T + 2] = f.dport
       /\ f.protocol = IPPROTO_TCP => e[T + 12] = WordOf(16 * f.doff)
       /\ \A i \in 1..n : e[P + i - 1] = Body(f)[i]
  BY <1>6, <1>9, <1>15
<1>17. /\ 16 + 4 * LowHalf(e[16]) = T
       /\ f.protocol = IPPROTO_TCP => T + 4 * HighHalf(e[T + 12]) = P
  <2>1. f.ihl \in 0..15 /\ f.doff \in 0..15
    BY <1>1
  <2>2. LowHalf(WordOf(4 * 16 + f.ihl)) = f.ihl /\ HighHalf(WordOf(16 * f.doff)) = f.doff
    BY <2>1, HeaderBytes
  <2> QED BY <1>1, <1>16, <2>2 DEF T
<1>18. /\ w \in Wires /\ w.saddr = f.saddr /\ w.daddr = f.daddr /\ w.sport = f.sport /\ w.dport = f.dport
       /\ w.protocol = f.protocol /\ Body(w) = Body(f)
  <2>1. w = [saddr |-> f.saddr, daddr |-> f.daddr, sport |-> f.sport, dport |-> f.dport,
             protocol |-> f.protocol, payload |-> f.payload, padding |-> f.padding]
    BY DEF NoWire
  <2>2. f.payload \in Seq(Word) /\ f.padding \in Seq(Word)
    BY FrameSizes
  <2> QED BY <1>1, <2>1, <2>2 DEF Wires, Body
<1>19. [k \in 1..(FrameLength(f) - P + 2) |-> e[P + k - 1]] = Body(f)
  <2>1. FrameLength(f) - P + 2 = n
    BY <1>1
  <2>2. Body(f) = [k \in 1..n |-> Body(f)[k]]
    BY <1>1, LenProperties DEF n
  <2>3. [k \in 1..n |-> e[P + k - 1]] = [k \in 1..n |-> Body(f)[k]]
    BY <1>16
  <2> QED BY <2>1, <2>2, <2>3
<1> HIDE DEF w
<1>20. Sent(e, FrameLength(f), w)
  BY <1>16, <1>17, <1>18, <1>19 DEF Sent
<1> QED BY <1>14, <1>20 DEF w

-----------------------------------------------------------------------------
(* The parsers of a generator, and the one after the next. *)
LEMMA TheNext ==
    ASSUME NEW g \in Generators, next_thread_id[g] \in Fed(g)
    PROVE  /\ NextThread(g) \in Fed(g) /\ g \in Fed(g)
           /\ next_thread_id[g] \in Parsers
           /\ NextThread(g) = IF next_thread_id[g] + generator_nums \in Fed(g)
                              THEN next_thread_id[g] + generator_nums ELSE g
           /\ \A q \in Fed(g) : /\ q \in Nat /\ ~(q < g)
                                /\ q > next_thread_id[g] =>
                                     /\ next_thread_id[g] + generator_nums \in Fed(g)
                                     /\ ~(q < next_thread_id[g] + generator_nums)
<1> DEFINE n == next_thread_id[g]
           m == generator_nums
<1>1. /\ m \in Nat /\ m > 0 /\ parser_nums \in Nat /\ m <= parser_nums /\ g \in Nat /\ g < m
      /\ \A p : p \in Parsers <=> p \in Nat /\ p < parser_nums
  BY Numbers
<1>2. \A q : q \in Fed(g) <=> q \in Parsers /\ q % m = g
  BY DEF Fed
<1>3. n \in Nat /\ n % m = g /\ n \in Parsers
  BY <1>1, <1>2
<1> HIDE DEF n, m
<1>4. g \in Fed(g)
  <2>1. g % m = g
    BY <1>1
  <2> QED BY <1>1, <1>2, <2>1
<1>5. (n + m) % m = g /\ n + m \in Nat
  <2>1. n + m \in Nat
    BY <1>1, <1>3
  <2>2. (n + m) % m = n % m
    BY ONLY <1>1, <1>3, SameRemainder
  <2> QED BY <1>3, <2>1, <2>2
<1>6. n + m < parser_nums <=> n + m \in Fed(g)
  BY <1>1, <1>2, <1>5
<1>7. ASSUME NEW q \in Fed(g)
      PROVE  q \in Nat /\ ~(q < g) /\ (q > n => n + m \in Fed(g) /\ ~(q < n + m))
  <2>1. q \in Nat /\ q < parser_nums /\ q % m = g
    BY <1>1, <1>2, <1>7
  <2>2. ~(q < g)
    <3>1. q < m => q % m = q
      BY <1>1, <2>1
    <3> QED BY <1>1, <2>1, <3>1
  <2>3. q > n => q >= n + m
    BY <1>1, <1>3, <2>1, NoneBetween
  <2>4. q > n => n + m < parser_nums
    BY <1>1, <1>3, <2>1, <2>3
  <2> QED BY <1>1, <1>3, <1>6, <2>1, <2>2, <2>3, <2>4
<1>8. NextThread(g) = IF n + m < parser_nums THEN n + m ELSE g
  BY DEF NextThread, n, m
<1> QED BY <1>3, <1>4, <1>6, <1>7, <1>8 DEF n, m

(* A dispatch keeps the turn. *)
LEMMA DispatchStep ==
    ASSUME InTurn, NEW g \in Generators, NEW x, Dispatch(g, x)
    PROVE  InTurn'
<1> DEFINE p == next_thread_id[g]
           more == [lead EXCEPT ![p] = @ + 1]
           S == {more[q] : q \in Fed(g)}
           least == Min(S)
           next == NextThread(g)
<1>1. /\ next_thread_id' = [next_thread_id EXCEPT ![g] = next]
      /\ lead' = [q \in Parsers |-> IF q \in Fed(g) THEN more[q] - least ELSE more[q]]
  BY DEF Dispatch
<1>2. /\ next_thread_id \in [Generators -> Parsers] /\ lead \in [Parsers -> {0, 1}] /\ p \in Fed(g)
      /\ \A h \in Generators : next_thread_id[h] \in Fed(h)
      /\ \A q \in Fed(g) : lead[q] = IF q < p THEN 1 ELSE 0
  BY DEF InTurn
<1>3. /\ next \in Fed(g) /\ g \in Fed(g) /\ p \in Parsers
      /\ next = IF p + generator_nums \in Fed(g) THEN p + generator_nums ELSE g
      /\ \A q \in Fed(g) : /\ q \in Nat /\ ~(q < g)
                           /\ q > p => p + generator_nums \in Fed(g) /\ ~(q < p + generator_nums)
      /\ generator_nums \in Nat /\ generator_nums > 0
  BY <1>2, TheNext, Numbers
<1>4. \A h \in Generators : Fed(h) \subseteq Parsers /\ \A q \in Fed(h) : h # g => q \notin Fed(g)
  BY DEF Fed
<1> HIDE DEF p, next
<1>5. /\ \A q \in Fed(g) : more[q] = IF q < p \/ q = p THEN 1 ELSE 0
      /\ \A q \in Parsers : q \notin Fed(g) => more[q] = lead[q]
  <2>1. \A q \in Parsers : more[q] = IF q = p THEN lead[p] + 1 ELSE lead[q]
    BY <1>2, <1>3
  <2>2. lead[p] = 0
    BY <1>2, <1>3
  <2> QED BY <1>2, <1>4, <2>1, <2>2
<1> HIDE DEF more
<1>6. least = IF p + generator_nums \in Fed(g) THEN 0 ELSE 1
  <2>1. CASE p + generator_nums \in Fed(g)
    <3>1. more[p + generator_nums] = 0
      <4>1. p \in Nat /\ generator_nums \in Nat /\ generator_nums > 0
        BY <1>2, <1>3
      <4>2. ~(p + generator_nums < p) /\ p + generator_nums # p
        BY ONLY <4>1
      <4> QED BY <1>5, <2>1, <4>2
    <3>2. 0 \in S /\ \A y \in S : y \in {0, 1}
      BY <1>5, <2>1, <3>1
    <3> HIDE DEF S
    <3>3. least \in S /\ \A y \in S : least <= y
      <4>1. \E z \in S : \A y \in S : z <= y
        BY <3>2
      <4> QED BY <4>1 DEF Min
    <3> QED BY <2>1, <3>2, <3>3
  <2>2. CASE p + generator_nums \notin Fed(g)
    <3>1. \A q \in Fed(g) : more[q] = 1
      BY <1>2, <1>3, <1>5, <2>2
    <3>2. S = {1}
      BY <1>3, <3>1
    <3> HIDE DEF S
    <3>3. least \in S
      <4>1. \E z \in S : \A y \in S : z <= y
        BY <3>2
      <4> QED BY <4>1 DEF Min
    <3> QED BY <2>2, <3>2, <3>3
  <2> QED BY <2>1, <2>2
<1> HIDE DEF least
<1>7. next_thread_id' \in [Generators -> Parsers]
  BY <1>1, <1>2, <1>3, <1>4
<1>8. next_thread_id'[g] = next /\ \A h \in Generators : h # g => next_thread_id'[h] = next_thread_id[h]
  BY <1>1, <1>2
<1>9. \A h \in Generators : next_thread_id'[h] \in Fed(h)
  BY <1>2, <1>3, <1>8
<1>10. \A q \in Fed(g) : lead'[q] = IF q < next THEN 1 ELSE 0
  <2>1. SUFFICES ASSUME NEW q \in Fed(g) PROVE lead'[q] = IF q < next THEN 1 ELSE 0
    OBVIOUS
  <2>2. lead'[q] = (IF q < p \/ q = p THEN 1 ELSE 0) - least /\ q \in Nat /\ p \in Nat
    BY <1>1, <1>2, <1>3, <1>4, <1>5
  <2>3. CASE p + generator_nums \in Fed(g)
    <3>1. q < next <=> (q < p \/ q = p)
      BY <1>3, <2>2, <2>3
    <3> QED BY <1>6, <2>2, <2>3, <3>1
  <2>4. CASE p + generator_nums \notin Fed(g)
    <3>1. (q < p \/ q = p) /\ ~(q < next)
      BY <1>3, <2>2, <2>4
    <3> QED BY <1>6, <2>2, <2>4, <3>1
  <2> QED BY <2>3, <2>4
<1>11. \A q \in Parsers : q \notin Fed(g) => lead'[q] = lead[q]
  BY <1>1, <1>5
<1>12. lead' \in [Parsers -> {0, 1}]
  <2>1. \A q \in Parsers : lead'[q] \in {0, 1}
    BY <1>2, <1>10, <1>11
  <2>2. lead' = [q \in Parsers |-> lead'[q]]
    BY <1>1
  <2> QED BY <2>1, <2>2
<1>13. ASSUME NEW h \in Generators, NEW q \in Fed(h)
       PROVE  lead'[q] = IF q < next_thread_id'[h] THEN 1 ELSE 0
  <2>1. CASE h = g
    BY <1>8, <1>10, <2>1
  <2>2. CASE h # g
    <3>1. q \in Parsers /\ q \notin Fed(g)
      BY <1>4, <2>2
    <3>2. lead'[q] = lead[q] /\ next_thread_id'[h] = next_thread_id[h]
      BY <1>8, <1>11, <2>2, <3>1
    <3> QED BY <3>2 DEF InTurn
  <2> QED BY <2>1, <2>2
<1> QED BY <1>7, <1>9, <1>12, <1>13 DEF InTurn

-----------------------------------------------------------------------------
(* Queues of packets.  A packet in no two places, *)
Sole(L) ==
    \A a, b \in DOMAIN L : \A i \in DOMAIN L[a], j \in DOMAIN L[b] : L[a][i] = L[b][j] => a = b /\ i = j

(* and where a packet is. *)
Somewhere(L, y) == \E a \in DOMAIN L : \E i \in DOMAIN L[a] : L[a][i] = y

Queues(L, I, S) == L \in [I -> Seq(S)]
Take(L, a) == [L EXCEPT ![a] = Tail(@)]
Add(L, b, x) == [L EXCEPT ![b] = Append(@, x)]

(* Head, Tail and Append, element by element. *)
LEMMA Tailed ==
    ASSUME NEW S, NEW s \in Seq(S), s # <<>>
    PROVE  /\ Len(s) \in Nat /\ Len(s) >= 1 /\ DOMAIN s = 1..Len(s)
           /\ Head(s) = s[1] /\ s[1] \in S
           /\ Tail(s) \in Seq(S) /\ Len(Tail(s)) = Len(s) - 1 /\ DOMAIN Tail(s) = 1..(Len(s) - 1)
           /\ \A i \in 1..(Len(s) - 1) : Tail(s)[i] = s[i + 1]
<1>1. Len(s) \in Nat /\ Len(s) >= 1 /\ DOMAIN s = 1..Len(s)
  BY LenProperties, EmptySeq
<1>2. /\ Head(s) = s[1] /\ s[1] \in S
      /\ Tail(s) \in Seq(S) /\ Len(Tail(s)) = Len(s) - 1
      /\ \A i \in 1..(Len(s) - 1) : Tail(s)[i] = s[i + 1]
  BY <1>1, HeadTailProperties, ElementOfSeq
<1> QED BY <1>1, <1>2, LenProperties

LEMMA Appended ==
    ASSUME NEW S, NEW s \in Seq(S), NEW x \in S
    PROVE  /\ Len(s) \in Nat /\ DOMAIN s = 1..Len(s)
           /\ Append(s, x) \in Seq(S) /\ Len(Append(s, x)) = Len(s) + 1
           /\ DOMAIN Append(s, x) = 1..(Len(s) + 1)
           /\ \A i \in 1..Len(s) : Append(s, x)[i] = s[i]
           /\ Append(s, x)[Len(s) + 1] = x
<1>1. Len(s) \in Nat /\ DOMAIN s = 1..Len(s)
  BY LenProperties
<1>2. /\ Append(s, x) \in Seq(S) /\ Len(Append(s, x)) = Len(s) + 1
      /\ \A i \in 1..Len(s) : Append(s, x)[i] = s[i]
      /\ Append(s, x)[Len(s) + 1] = x
  BY AppendProperties
<1> QED BY <1>1, <1>2, LenProperties

(* Taking the first of a queue. *)
LEMMA Taken ==
    ASSUME NEW I, NEW S, NEW L, Queues(L, I, S), Sole(L), NEW a \in I, L[a] # <<>>
    PROVE  /\ Queues(Take(L, a), I, S) /\ Sole(Take(L, a)) /\ Head(L[a]) \in S
           /\ ~Somewhere(Take(L, a), Head(L[a]))
           /\ \A y : Somewhere(L, y) => y = Head(L[a]) \/ Somewhere(Take(L, a), y)
<1> DEFINE T == Take(L, a)
           x == Head(L[a])
           from(c, i) == IF c = a THEN i + 1 ELSE i
<1>1. /\ x = L[a][1] /\ x \in S /\ Tail(L[a]) \in Seq(S) /\ Len(L[a]) \in Nat /\ Len(L[a]) >= 1
      /\ DOMAIN L[a] = 1..Len(L[a]) /\ DOMAIN Tail(L[a]) = 1..(Len(L[a]) - 1)
      /\ \A i \in 1..(Len(L[a]) - 1) : Tail(L[a])[i] = L[a][i + 1]
  <2>1. L[a] \in Seq(S)
    BY DEF Queues
  <2> QED BY <2>1, Tailed
<1>2. L \in [I -> Seq(S)] /\ T \in [I -> Seq(S)] /\ T[a] = Tail(L[a]) /\ \A c \in I : c # a => T[c] = L[c]
  BY <1>1 DEF Queues, Take
<1> HIDE DEF x, T
<1>4. ASSUME NEW c \in I, NEW i \in DOMAIN T[c]
      PROVE  from(c, i) \in DOMAIN L[c] /\ T[c][i] = L[c][from(c, i)] /\ (c = a => from(c, i) # 1 /\ i \in Int)
  <2>1. CASE c = a
    <3>1. i \in 1..(Len(L[a]) - 1)
      BY <1>1, <1>2, <2>1
    <3>2. i + 1 \in 1..Len(L[a]) /\ i + 1 # 1
      BY <1>1, <3>1
    <3> QED BY <1>1, <1>2, <2>1, <3>1, <3>2
  <2>2. CASE c # a
    BY <1>2, <2>2
  <2> QED BY <2>1, <2>2
<1>5. Sole(T)
  <2> SUFFICES ASSUME NEW c \in I, NEW d \in I, NEW i \in DOMAIN T[c], NEW j \in DOMAIN T[d], T[c][i] = T[d][j]
               PROVE  c = d /\ i = j
    BY <1>2 DEF Sole
  <2>1. c = d /\ from(c, i) = from(d, j)
    BY <1>2, <1>4 DEF Sole
  <2> QED BY <1>4, <2>1
<1>6. ~Somewhere(T, x)
  <2> SUFFICES ASSUME NEW c \in I, NEW i \in DOMAIN T[c], T[c][i] = x PROVE FALSE
    BY <1>2 DEF Somewhere
  <2>1. 1 \in DOMAIN L[a]
    BY <1>1
  <2>2. c = a /\ from(c, i) = 1
    BY <1>1, <1>2, <1>4, <2>1 DEF Sole
  <2> QED BY <1>4, <2>2
<1>7. ASSUME NEW y, Somewhere(L, y) PROVE y = x \/ Somewhere(T, y)
  <2>0. PICK c \in I : \E i \in DOMAIN L[c] : L[c][i] = y
    BY <1>2, <1>7 DEF Somewhere
  <2>1. PICK i \in DOMAIN L[c] : L[c][i] = y
    BY <2>0
  <2>2. CASE c # a
    BY <1>2, <2>1, <2>2 DEF Somewhere
  <2>3. CASE c = a /\ i = 1
    BY <1>1, <2>1, <2>3
  <2>4. CASE c = a /\ i # 1
    <3>1. i - 1 \in 1..(Len(L[a]) - 1) /\ (i - 1) + 1 = i
      BY <1>1, <2>4
    <3>2. i - 1 \in DOMAIN T[a] /\ T[a][i - 1] = y
      BY <1>1, <1>2, <2>1, <2>4, <3>1
    <3> QED BY <1>2, <3>2 DEF Somewhere
  <2> QED BY <2>2, <2>3, <2>4
<1> QED BY <1>1, <1>2, <1>5, <1>6, <1>7 DEF Queues, T, x

(* Adding one that is nowhere else. *)
LEMMA Put ==
    ASSUME NEW I, NEW S, NEW T, Queues(T, I, S), Sole(T), NEW x \in S, ~Somewhere(T, x), NEW b \in I
    PROVE  /\ Queues(Add(T, b, x), I, S) /\ Sole(Add(T, b, x)) /\ Somewhere(Add(T, b, x), x)
           /\ \A y : Somewhere(T, y) => Somewhere(Add(T, b, x), y)
<1> DEFINE n == Len(T[b])
           M == Add(T, b, x)
<1>1. /\ n \in Nat /\ DOMAIN T[b] = 1..n /\ Append(T[b], x) \in Seq(S)
      /\ DOMAIN Append(T[b], x) = 1..(n + 1)
      /\ \A i \in 1..n : Append(T[b], x)[i] = T[b][i]
      /\ Append(T[b], x)[n + 1] = x
  <2>1. T[b] \in Seq(S)
    BY DEF Queues
  <2> QED BY <2>1, Appended
<1>2. T \in [I -> Seq(S)] /\ M \in [I -> Seq(S)] /\ M[b] = Append(T[b], x) /\ \A c \in I : c # b => M[c] = T[c]
  BY <1>1 DEF Queues, Add
<1> HIDE DEF n, M
<1>3. ASSUME NEW c \in I, NEW i \in DOMAIN M[c]
      PROVE  \/ c = b /\ i = n + 1 /\ M[c][i] = x
             \/ i \in DOMAIN T[c] /\ M[c][i] = T[c][i]
  <2>1. CASE c = b
    <3>1. i \in 1..(n + 1)
      BY <1>1, <1>2, <2>1
    <3>2. i = n + 1 \/ i \in 1..n
      BY <1>1, <3>1
    <3> QED BY <1>1, <1>2, <2>1, <3>2
  <2>2. CASE c # b
    BY <1>2, <2>2
  <2> QED BY <2>1, <2>2
<1>4. Sole(M)
  <2> SUFFICES ASSUME NEW c \in I, NEW d \in I, NEW i \in DOMAIN M[c], NEW j \in DOMAIN M[d], M[c][i] = M[d][j]
               PROVE  c = d /\ i = j
    BY <1>2 DEF Sole
  <2>1. \A e \in I : \A k \in DOMAIN T[e] : T[e][k] # x
    BY <1>2 DEF Somewhere
  <2>2. CASE c = b /\ i = n + 1 /\ M[c][i] = x
    BY <1>3, <2>1, <2>2
  <2>3. CASE i \in DOMAIN T[c] /\ M[c][i] = T[c][i]
    <3>1. j \in DOMAIN T[d] /\ M[d][j] = T[d][j]
      BY <1>3, <2>1, <2>3
    <3>2. T[c][i] = T[d][j]
      BY <2>3, <3>1
    <3> QED BY <1>2, <2>3, <3>1, <3>2 DEF Sole
  <2> QED BY <1>3, <2>2, <2>3
<1>5. Somewhere(M, x)
  <2>1. n + 1 \in DOMAIN M[b] /\ M[b][n + 1] = x
    BY <1>1, <1>2
  <2> QED BY <1>2, <2>1 DEF Somewhere
<1>6. ASSUME NEW y, Somewhere(T, y) PROVE Somewhere(M, y)
  <2>0. PICK c \in I : \E i \in DOMAIN T[c] : T[c][i] = y
    BY <1>2, <1>6 DEF Somewhere
  <2>1. PICK i \in DOMAIN T[c] : T[c][i] = y
    BY <2>0
  <2>2. i \in DOMAIN M[c] /\ M[c][i] = y
    <3>1. CASE c = b
      <4>1. i \in 1..n /\ i \in 1..(n + 1)
        BY <1>1, <2>1, <3>1
      <4> QED BY <1>1, <1>2, <2>1, <3>1, <4>1
    <3>2. CASE c # b
      BY <1>2, <2>1, <3>2
    <3> QED BY <3>1, <3>2
  <2> QED BY <1>2, <2>2 DEF Somewhere
<1> QED BY <1>2, <1>4, <1>5, <1>6 DEF Queues, M

(* A packet that goes from the front of one queue to the end of another, or *)
(* of the same.                                                            *)
LEMMA Moved ==
    ASSUME NEW I, NEW S, NEW L, Queues(L, I, S), Sole(L), NEW a \in I, NEW b \in I, L[a] # <<>>,
           NEW M, M = Add(Take(L, a), b, Head(L[a]))
    PROVE  /\ Queues(M, I, S) /\ Sole(M)
           /\ \A y : Somewhere(L, y) => Somewhere(M, y)
<1>1. /\ Queues(Take(L, a), I, S) /\ Sole(Take(L, a)) /\ Head(L[a]) \in S
      /\ ~Somewhere(Take(L, a), Head(L[a]))
      /\ \A y : Somewhere(L, y) => y = Head(L[a]) \/ Somewhere(Take(L, a), y)
  BY Taken
<1>2. /\ Queues(M, I, S) /\ Sole(M) /\ Somewhere(M, Head(L[a]))
      /\ \A y : Somewhere(Take(L, a), y) => Somewhere(M, y)
  BY <1>1, Put
<1> QED BY <1>1, <1>2

-----------------------------------------------------------------------------
(* The inductive invariant. *)

Items ==
    [packet : Packets, protocol : Word, upper_ip : Word, lower_ip : Word, upper_port : Word,
     lower_port : Word, payload : Int, payload_len : Int]

Types ==
    /\ mode \in Modes /\ pkt_data \in Texts \cup {<<>>} /\ (mode # "collect" => pkt_data \in Texts)
    /\ cur \in [Generators -> [Ranges -> Word]]
    /\ \A g \in Generators, r \in Ranges : cur[g][r] \in Span(r)
    /\ made \in [Generators -> 0..PoolSize]
    /\ pool \in [Generators -> Seq(Packets)] /\ queue \in [Parsers -> Seq(Packets)]
    /\ data \in [Packets -> [Offsets -> Word]] /\ length \in [Packets -> 0..Pktlen]
    /\ wire \in [Packets -> Wires] /\ flows \in [Managers -> Seq(Items)]

(* Where packets may be, and the packets there in their order. *)
Places == ({"pool"} \X Generators) \cup ({"queue"} \X Parsers) \cup ({"flows"} \X Managers)
Carried(s) == [i \in DOMAIN s |-> s[i].packet]
Lines(po, qu, fl) ==
    [a \in Places |-> IF a[1] = "pool" THEN po[a[2]] ELSE IF a[1] = "queue" THEN qu[a[2]] ELSE Carried(fl[a[2]])]

(* Every packet is in one place, and in a pool only in its own. *)
Single(L) == Queues(L, Places, Packets) /\ Sole(L) /\ \A x \in Packets : Somewhere(L, x)
Own(s, g) == \A x \in Range(s) : x[1] = g
Placed == Single(Lines(pool, queue, flows)) /\ \A g \in Generators : Own(pool[g], g)

(* While a generator prepares, its pool goes round; what has gone round is *)
(* ready to be sent.                                                       *)
Ready(d, len, kind, text) ==
    len = Pktlen /\ (kind = "tcp" => TcpReady(d, text)) /\ (kind = "udp" => UdpReady(d))
Turned(g, n) == [i \in 1..PoolSize |-> IF i + n <= PoolSize THEN <<g, i + n>> ELSE <<g, i + n - PoolSize>>]
Preparing ==
    /\ mode = "collect" => \A g \in Generators : made[g] = PoolSize
    /\ mode # "collect" =>
         \A x \in Packets : x[2] <= made[x[1]] => Ready(data[x], length[x], mode, pkt_data)
    /\ \A g \in Generators : made[g] < PoolSize => pool[g] = Turned(g, made[g])

(* What is on its way to a parser or a manager holds what was sent in it. *)
OnTheWay ==
    /\ \A p \in Parsers : \A x \in Range(queue[p]) : Sent(data[x], length[x], wire[x])
    /\ \A m \in Managers : \A e \in Range(flows[m]) :
         Sent(data[e.packet], length[e.packet], wire[e.packet])

(* What the parser makes of a packet.  A flow item is still that, and is *)
(* where its hash says.                                                  *)
Item(d, len, x) ==
    LET tcp == 16 + 4 * LowHalf(d[16])
        text == tcp + 4 * HighHalf(d[tcp + 12])
    IN  [packet |-> x, protocol |-> d[25],
         upper_ip |-> Upper(d[28], d[32]), lower_ip |-> Lower(d[28], d[32]),
         upper_port |-> Upper(d[tcp], d[tcp + 2]), lower_port |-> Lower(d[tcp], d[tcp + 2]),
         payload |-> text, payload_len |-> len - text + 2]
Filed ==
    \A m \in Managers : \A e \in Range(flows[m]) :
        e = Item(data[e.packet], length[e.packet], e.packet) /\ hash_index(e) = m

IInv == Types /\ InTurn /\ Placed /\ Preparing /\ OnTheWay /\ Filed

-----------------------------------------------------------------------------
(* Places *)
LEMMA LinesAre ==
    ASSUME NEW po, NEW qu, NEW fl
    PROVE  /\ DOMAIN Lines(po, qu, fl) = Places
           /\ \A g \in Generators : <<"pool", g>> \in Places /\ Lines(po, qu, fl)[<<"pool", g>>] = po[g]
           /\ \A p \in Parsers : <<"queue", p>> \in Places /\ Lines(po, qu, fl)[<<"queue", p>>] = qu[p]
           /\ \A m \in Managers : <<"flows", m>> \in Places /\ Lines(po, qu, fl)[<<"flows", m>>] = Carried(fl[m])
           /\ \A a \in Places : \/ \E g \in Generators : a = <<"pool", g>>
                                \/ \E p \in Parsers : a = <<"queue", p>>
                                \/ \E m \in Managers : a = <<"flows", m>>
BY DEF Lines, Places

(* The packets of a sequence of flow items, after Tail and Append. *)
LEMMA CarriedIs ==
    ASSUME NEW s \in Seq(Items)
    PROVE  /\ Carried(s) \in Seq(Packets) /\ Len(Carried(s)) = Len(s) /\ DOMAIN Carried(s) = DOMAIN s
           /\ \A i \in DOMAIN s : Carried(s)[i] = s[i].packet /\ s[i] \in Items /\ s[i].packet \in Packets
           /\ s # <<>> => /\ Carried(s) # <<>> /\ Head(Carried(s)) = Head(s).packet
                          /\ Carried(Tail(s)) = Tail(Carried(s))
           /\ \A e \in Items : Carried(Append(s, e)) = Append(Carried(s), e.packet)
<1>1. Len(s) \in Nat /\ DOMAIN s = 1..Len(s) /\ \A i \in 1..Len(s) : s[i] \in Items
  BY LenProperties, ElementOfSeq
<1>2. \A e \in Items : e.packet \in Packets
  BY DEF Items
<1>3. /\ DOMAIN Carried(s) = 1..Len(s) /\ Carried(s) \in [1..Len(s) -> Packets]
      /\ \A i \in 1..Len(s) : Carried(s)[i] = s[i].packet
  BY <1>1, <1>2 DEF Carried
<1>4. Carried(s) \in Seq(Packets) /\ Len(Carried(s)) = Len(s)
  BY <1>1, <1>3
<1>5. ASSUME s # <<>>
      PROVE  Carried(s) # <<>> /\ Head(Carried(s)) = Head(s).packet /\ Carried(Tail(s)) = Tail(Carried(s))
  <2>1. /\ Len(s) >= 1 /\ Head(s) = s[1] /\ Tail(s) \in Seq(Items) /\ DOMAIN Tail(s) = 1..(Len(s) - 1)
        /\ \A i \in 1..(Len(s) - 1) : Tail(s)[i] = s[i + 1]
    BY <1>5, Tailed
  <2>2. Carried(s) # <<>>
    BY <1>1, <1>4, <2>1, EmptySeq
  <2>3. /\ Head(Carried(s)) = Carried(s)[1] /\ DOMAIN Tail(Carried(s)) = 1..(Len(s) - 1)
        /\ Tail(Carried(s)) \in Seq(Packets) /\ Len(Tail(Carried(s))) = Len(s) - 1
        /\ \A i \in 1..(Len(s) - 1) : Tail(Carried(s))[i] = Carried(s)[i + 1]
    BY <1>4, <2>2, Tailed
  <2>4. \A i \in 1..(Len(s) - 1) : i + 1 \in 1..Len(s)
    BY <1>1
  <2>5. Carried(Tail(s)) = [i \in 1..(Len(s) - 1) |-> Tail(s)[i].packet]
    BY <2>1 DEF Carried
  <2>6. Tail(Carried(s)) = [i \in 1..(Len(s) - 1) |-> Tail(Carried(s))[i]]
    <3> DEFINE t == Tail(Carried(s))
    <3>1. t \in Seq(Packets) /\ DOMAIN t = 1..(Len(s) - 1)
      BY <2>3
    <3> HIDE DEF t
    <3>2. t = [i \in 1..(Len(s) - 1) |-> t[i]]
      BY <3>1
    <3> QED BY <3>2 DEF t
  <2>7. \A i \in 1..(Len(s) - 1) : Tail(s)[i].packet = Tail(Carried(s))[i]
    BY <1>3, <2>1, <2>3, <2>4
  <2>8. 1 \in 1..Len(s)
    BY <1>1, <2>1
  <2> QED BY <1>3, <2>1, <2>2, <2>3, <2>5, <2>6, <2>7, <2>8
<1>6. ASSUME NEW e \in Items PROVE Carried(Append(s, e)) = Append(Carried(s), e.packet)
  <2>1. /\ DOMAIN Append(s, e) = 1..(Len(s) + 1)
        /\ \A i \in 1..Len(s) : Append(s, e)[i] = s[i]
        /\ Append(s, e)[Len(s) + 1] = e
    BY Appended
  <2>2. /\ DOMAIN Append(Carried(s), e.packet) = 1..(Len(s) + 1)
        /\ \A i \in 1..Len(s) : Append(Carried(s), e.packet)[i] = Carried(s)[i]
        /\ Append(Carried(s), e.packet)[Len(s) + 1] = e.packet
        /\ Append(Carried(s), e.packet) \in Seq(Packets) /\ Len(Append(Carried(s), e.packet)) = Len(s) + 1
    BY <1>2, <1>4, Appended
  <2>3. Carried(Append(s, e)) = [i \in 1..(Len(s) + 1) |-> Append(s, e)[i].packet]
    BY <2>1 DEF Carried
  <2>4. Append(Carried(s), e.packet) = [i \in 1..(Len(s) + 1) |-> Append(Carried(s), e.packet)[i]]
    BY <2>2
  <2>5. \A i \in 1..(Len(s) + 1) : i \in 1..Len(s) \/ i = Len(s) + 1
    BY <1>1
  <2>6. \A i \in 1..(Len(s) + 1) : Append(s, e)[i].packet = Append(Carried(s), e.packet)[i]
    BY <1>3, <2>1, <2>2, <2>5
  <2> QED BY <2>3, <2>4, <2>6
<1> QED BY <1>1, <1>2, <1>3, <1>4, <1>5, <1>6

(* The places hold sequences of packets. *)
LEMMA LinesType ==
    ASSUME NEW po \in [Generators -> Seq(Packets)], NEW qu \in [Parsers -> Seq(Packets)],
           NEW fl \in [Managers -> Seq(Items)]
    PROVE  Queues(Lines(po, qu, fl), Places, Packets)
<1>1. \A m \in Managers : Carried(fl[m]) \in Seq(Packets)
  BY CarriedIs
<1>2. \A a \in Places : Lines(po, qu, fl)[a] \in Seq(Packets)
  BY <1>1, LinesAre
<1>3. Lines(po, qu, fl) = [a \in Places |-> Lines(po, qu, fl)[a]]
  BY DEF Lines
<1> QED BY <1>2, <1>3 DEF Queues

(* One packet from the front of a to the end of b. *)
Shift(L, M, a, b, x) ==
    /\ a \in Places /\ b \in Places
    /\ IF a = b THEN M[a] = Append(Tail(L[a]), x) ELSE M[a] = Tail(L[a]) /\ M[b] = Append(L[b], x)
    /\ \A c \in Places : c # a /\ c # b => M[c] = L[c]

LEMMA Shifted ==
    ASSUME NEW po, NEW qu, NEW fl, NEW po2, NEW qu2, NEW fl2, NEW a, NEW b, NEW x,
           Shift(Lines(po, qu, fl), Lines(po2, qu2, fl2), a, b, x)
    PROVE  Lines(po2, qu2, fl2) = Add(Take(Lines(po, qu, fl), a), b, x)
<1> DEFINE L == Lines(po, qu, fl)
           M == Lines(po2, qu2, fl2)
           T == Take(L, a)
           R == Add(T, b, x)
<1>0. /\ DOMAIN L = Places /\ L = [c \in Places |-> L[c]]
      /\ DOMAIN M = Places /\ M = [c \in Places |-> M[c]]
  BY DEF Lines
<1>1. Shift(L, M, a, b, x)
  OBVIOUS
<1> HIDE DEF L, M
<1>2. /\ a \in Places /\ b \in Places
      /\ a = b => M[a] = Append(Tail(L[a]), x)
      /\ a # b => M[a] = Tail(L[a]) /\ M[b] = Append(L[b], x)
      /\ \A c \in Places : c # a /\ c # b => M[c] = L[c]
  BY <1>1 DEF Shift
<1>3. T = [c \in Places |-> IF c = a THEN Tail(L[a]) ELSE L[c]]
  BY <1>0, <1>2 DEF Take
<1>4. R = [c \in Places |-> IF c = b THEN Append(T[b], x) ELSE T[c]]
  <2> HIDE DEF T
  <2> QED BY <1>2, <1>3 DEF Add
<1> HIDE DEF R, T
<1>5. \A c \in Places : M[c] = R[c]
  BY <1>2, <1>3, <1>4
<1>6. R = [c \in Places |-> R[c]]
  BY <1>4
<1>7. M = R
  BY <1>0, <1>5, <1>6
<1> QED BY <1>7 DEF R, T, L, M

(* What is in a pool, in a parser's queue and in a manager's queue. *)
LEMMA AtPool ==
    ASSUME NEW po, NEW qu, NEW fl, NEW g \in Generators
    PROVE  <<"pool", g>> \in Places /\ Lines(po, qu, fl)[<<"pool", g>>] = po[g]
BY DEF Lines, Places

LEMMA AtQueue ==
    ASSUME NEW po, NEW qu, NEW fl, NEW p \in Parsers
    PROVE  <<"queue", p>> \in Places /\ Lines(po, qu, fl)[<<"queue", p>>] = qu[p]
BY DEF Lines, Places

LEMMA AtFlows ==
    ASSUME NEW po, NEW qu, NEW fl, NEW m \in Managers
    PROVE  <<"flows", m>> \in Places /\ Lines(po, qu, fl)[<<"flows", m>>] = Carried(fl[m])
BY DEF Lines, Places

(* What does not change where no sequence changes. *)
Untouched(c, po, qu, fl, po2, qu2, fl2) ==
    /\ \A g \in Generators : c # <<"pool", g>> \/ po2[g] = po[g]
    /\ \A p \in Parsers : c # <<"queue", p>> \/ qu2[p] = qu[p]
    /\ \A m \in Managers : c # <<"flows", m>> \/ fl2[m] = fl[m]

LEMMA Elsewhere ==
    ASSUME NEW po, NEW qu, NEW fl, NEW po2, NEW qu2, NEW fl2, NEW c \in Places,
           Untouched(c, po, qu, fl, po2, qu2, fl2)
    PROVE  Lines(po2, qu2, fl2)[c] = Lines(po, qu, fl)[c]
<1>1. CASE \E g \in Generators : c = <<"pool", g>>
  <2>1. PICK g \in Generators : c = <<"pool", g>>
    BY <1>1
  <2>2. po2[g] = po[g]
    BY <2>1 DEF Untouched
  <2>3. Lines(po2, qu2, fl2)[c] = po2[g] /\ Lines(po, qu, fl)[c] = po[g]
    BY ONLY <2>1, AtPool
  <2> QED BY ONLY <2>2, <2>3
<1>2. CASE \E p \in Parsers : c = <<"queue", p>>
  <2>1. PICK p \in Parsers : c = <<"queue", p>>
    BY <1>2
  <2>2. qu2[p] = qu[p]
    BY <2>1 DEF Untouched
  <2>3. Lines(po2, qu2, fl2)[c] = qu2[p] /\ Lines(po, qu, fl)[c] = qu[p]
    BY ONLY <2>1, AtQueue
  <2> QED BY ONLY <2>2, <2>3
<1>3. CASE \E m \in Managers : c = <<"flows", m>>
  <2>1. PICK m \in Managers : c = <<"flows", m>>
    BY <1>3
  <2>2. fl2[m] = fl[m]
    BY <2>1 DEF Untouched
  <2>3. Lines(po2, qu2, fl2)[c] = Carried(fl2[m]) /\ Lines(po, qu, fl)[c] = Carried(fl[m])
    BY ONLY <2>1, AtFlows
  <2> QED BY ONLY <2>2, <2>3
<1> QED BY <1>1, <1>2, <1>3 DEF Places

Pools == [Generators -> Seq(Packets)]
Inboxes == [Parsers -> Seq(Packets)]
FlowQueues == [Managers -> Seq(Items)]
Becomes(f, f2, a, s) == f2 = [f EXCEPT ![a] = s]
Carries(e, x) == e \in Items /\ e.packet = x

(* The four moves of a packet: round its pool, *)
LEMMA Round ==
    ASSUME NEW po \in Pools, NEW qu, NEW fl, NEW g \in Generators, NEW x,
           NEW po2, Becomes(po, po2, g, Append(Tail(po[g]), x))
    PROVE  Lines(po2, qu, fl)
             = Add(Take(Lines(po, qu, fl), <<"pool", g>>), <<"pool", g>>, x)
<1> DEFINE L == Lines(po, qu, fl)
           M == Lines(po2, qu, fl)
<1>1. po2[g] = Append(Tail(po[g]), x) /\ \A h \in Generators : h # g => po2[h] = po[h]
  BY DEF Becomes, Pools, Inboxes, FlowQueues
<1>2. <<"pool", g>> \in Places /\ L[<<"pool", g>>] = po[g] /\ M[<<"pool", g>>] = po2[g]
  BY ONLY AtPool, g \in Generators
<1>3. ASSUME NEW c \in Places, c # <<"pool", g>> PROVE M[c] = L[c]
  <2>1. \A h \in Generators : c # <<"pool", h>> \/ po2[h] = po[h]
    BY <1>1, <1>3
  <2>2. Untouched(c, po, qu, fl, po2, qu, fl)
    BY ONLY <2>1 DEF Untouched
  <2> QED BY ONLY <2>2, c \in Places, Elsewhere
<1> HIDE DEF L, M
<1>4. Shift(L, M, <<"pool", g>>, <<"pool", g>>, x)
  BY ONLY <1>1, <1>2, <1>3 DEF Shift
<1>5. M = Add(Take(L, <<"pool", g>>), <<"pool", g>>, x)
  BY <1>4, Shifted DEF L, M
<1> QED BY <1>5 DEF M, L

(* from a pool to a parser, *)
LEMMA ToParser ==
    ASSUME NEW po \in Pools, NEW qu \in Inboxes, NEW fl,
           NEW g \in Generators, NEW p \in Parsers, NEW x,
           NEW po2, Becomes(po, po2, g, Tail(po[g])), NEW qu2, Becomes(qu, qu2, p, Append(qu[p], x))
    PROVE  Lines(po2, qu2, fl)
             = Add(Take(Lines(po, qu, fl), <<"pool", g>>), <<"queue", p>>, x)
<1> DEFINE L == Lines(po, qu, fl)
           M == Lines(po2, qu2, fl)
<1>1. /\ po2[g] = Tail(po[g]) /\ \A h \in Generators : h # g => po2[h] = po[h]
      /\ qu2[p] = Append(qu[p], x) /\ \A q \in Parsers : q # p => qu2[q] = qu[q]
  BY DEF Becomes, Pools, Inboxes, FlowQueues
<1>2. <<"pool", g>> \in Places /\ L[<<"pool", g>>] = po[g] /\ M[<<"pool", g>>] = po2[g]
  BY ONLY AtPool, g \in Generators
<1>3. <<"queue", p>> \in Places /\ L[<<"queue", p>>] = qu[p] /\ M[<<"queue", p>>] = qu2[p]
  BY ONLY AtQueue, p \in Parsers
<1>4. ASSUME NEW c \in Places, c # <<"pool", g>>, c # <<"queue", p>> PROVE M[c] = L[c]
  <2>1. \A h \in Generators : c # <<"pool", h>> \/ po2[h] = po[h]
    BY <1>1, <1>4
  <2>2. \A q \in Parsers : c # <<"queue", q>> \/ qu2[q] = qu[q]
    BY <1>1, <1>4
  <2>3. Untouched(c, po, qu, fl, po2, qu2, fl)
    BY ONLY <2>1, <2>2 DEF Untouched
  <2> QED BY ONLY <2>3, c \in Places, Elsewhere
<1>5. <<"pool", g>> # <<"queue", p>>
  OBVIOUS
<1> HIDE DEF L, M
<1>6. Shift(L, M, <<"pool", g>>, <<"queue", p>>, x)
  BY ONLY <1>1, <1>2, <1>3, <1>4, <1>5 DEF Shift
<1>7. M = Add(Take(L, <<"pool", g>>), <<"queue", p>>, x)
  BY <1>6, Shifted DEF L, M
<1> QED BY <1>7 DEF M, L

(* from a parser to a manager, in a flow item, *)
LEMMA ToManager ==
    ASSUME NEW po, NEW qu \in Inboxes, NEW fl \in FlowQueues,
           NEW p \in Parsers, NEW m \in Managers, NEW e, NEW x, Carries(e, x),
           NEW qu2, Becomes(qu, qu2, p, Tail(qu[p])), NEW fl2, Becomes(fl, fl2, m, Append(fl[m], e))
    PROVE  Lines(po, qu2, fl2)
             = Add(Take(Lines(po, qu, fl), <<"queue", p>>), <<"flows", m>>, x)
<1> DEFINE L == Lines(po, qu, fl)
           M == Lines(po, qu2, fl2)
<1>1. /\ qu2[p] = Tail(qu[p]) /\ \A q \in Parsers : q # p => qu2[q] = qu[q]
      /\ fl2[m] = Append(fl[m], e) /\ \A n \in Managers : n # m => fl2[n] = fl[n]
  BY DEF Becomes, Pools, Inboxes, FlowQueues
<1>2. Carried(fl2[m]) = Append(Carried(fl[m]), x)
  BY <1>1, CarriedIs DEF FlowQueues, Carries
<1>3. <<"queue", p>> \in Places /\ L[<<"queue", p>>] = qu[p] /\ M[<<"queue", p>>] = qu2[p]
  BY ONLY AtQueue, p \in Parsers
<1>4. <<"flows", m>> \in Places /\ L[<<"flows", m>>] = Carried(fl[m]) /\ M[<<"flows", m>>] = Carried(fl2[m])
  BY ONLY AtFlows, m \in Managers
<1>5. ASSUME NEW c \in Places, c # <<"queue", p>>, c # <<"flows", m>> PROVE M[c] = L[c]
  <2>1. \A q \in Parsers : c # <<"queue", q>> \/ qu2[q] = qu[q]
    BY <1>1, <1>5
  <2>2. \A n \in Managers : c # <<"flows", n>> \/ fl2[n] = fl[n]
    BY <1>1, <1>5
  <2>3. Untouched(c, po, qu, fl, po, qu2, fl2)
    BY ONLY <2>1, <2>2 DEF Untouched
  <2> QED BY ONLY <2>3, c \in Places, Elsewhere
<1>6. <<"queue", p>> # <<"flows", m>>
  OBVIOUS
<1> HIDE DEF L, M
<1>7. Shift(L, M, <<"queue", p>>, <<"flows", m>>, x)
  BY ONLY <1>1, <1>2, <1>3, <1>4, <1>5, <1>6 DEF Shift
<1>8. M = Add(Take(L, <<"queue", p>>), <<"flows", m>>, x)
  BY <1>7, Shifted DEF L, M
<1> QED BY <1>8 DEF M, L

(* and from a manager to its pool. *)
LEMMA ToPool ==
    ASSUME NEW po \in Pools, NEW qu, NEW fl \in FlowQueues,
           NEW g \in Generators, NEW m \in Managers, fl[m] # <<>>, NEW x,
           NEW po2, Becomes(po, po2, g, Append(po[g], x)), NEW fl2, Becomes(fl, fl2, m, Tail(fl[m]))
    PROVE  Lines(po2, qu, fl2)
             = Add(Take(Lines(po, qu, fl), <<"flows", m>>), <<"pool", g>>, x)
<1> DEFINE L == Lines(po, qu, fl)
           M == Lines(po2, qu, fl2)
<1>1. /\ po2[g] = Append(po[g], x) /\ \A h \in Generators : h # g => po2[h] = po[h]
      /\ fl2[m] = Tail(fl[m]) /\ \A n \in Managers : n # m => fl2[n] = fl[n]
  BY DEF Becomes, Pools, Inboxes, FlowQueues
<1>2. Carried(fl2[m]) = Tail(Carried(fl[m]))
  BY <1>1, CarriedIs DEF FlowQueues
<1>3. <<"pool", g>> \in Places /\ L[<<"pool", g>>] = po[g] /\ M[<<"pool", g>>] = po2[g]
  BY ONLY AtPool, g \in Generators
<1>4. <<"flows", m>> \in Places /\ L[<<"flows", m>>] = Carried(fl[m]) /\ M[<<"flows", m>>] = Carried(fl2[m])
  BY ONLY AtFlows, m \in Managers
<1>5. ASSUME NEW c \in Places, c # <<"flows", m>>, c # <<"pool", g>> PROVE M[c] = L[c]
  <2>1. \A h \in Generators : c # <<"pool", h>> \/ po2[h] = po[h]
    BY <1>1, <1>5
  <2>2. \A n \in Managers : c # <<"flows", n>> \/ fl2[n] = fl[n]
    BY <1>1, <1>5
  <2>3. Untouched(c, po, qu, fl, po2, qu, fl2)
    BY ONLY <2>1, <2>2 DEF Untouched
  <2> QED BY ONLY <2>3, c \in Places, Elsewhere
<1>6. <<"flows", m>> # <<"pool", g>>
  OBVIOUS
<1> HIDE DEF L, M
<1>7. Shift(L, M, <<"flows", m>>, <<"pool", g>>, x)
  BY ONLY <1>1, <1>2, <1>3, <1>4, <1>5, <1>6 DEF Shift
<1>8. M = Add(Take(L, <<"flows", m>>), <<"pool", g>>, x)
  BY <1>7, Shifted DEF L, M
<1> QED BY <1>8 DEF M, L

-----------------------------------------------------------------------------
(* Facts that the steps need *)

(* What a sequence holds, after Tail and Append. *)
LEMMA Members ==
    ASSUME NEW S, NEW s \in Seq(S)
    PROVE  /\ Range(s) \subseteq S
           /\ s # <<>> => Head(s) \in Range(s) /\ Head(s) \in S /\ Tail(s) \in Seq(S) /\ Range(Tail(s)) \subseteq Range(s)
           /\ \A x \in S : Append(s, x) \in Seq(S) /\ Range(Append(s, x)) \subseteq Range(s) \cup {x}
<1>1. Len(s) \in Nat /\ DOMAIN s = 1..Len(s) /\ \A i \in 1..Len(s) : s[i] \in S
  BY LenProperties, ElementOfSeq
<1>2. ASSUME s # <<>>
      PROVE  Head(s) \in Range(s) /\ Head(s) \in S /\ Tail(s) \in Seq(S) /\ Range(Tail(s)) \subseteq Range(s)
  <2>1. /\ Len(s) >= 1 /\ Head(s) = s[1] /\ s[1] \in S /\ Tail(s) \in Seq(S) /\ DOMAIN Tail(s) = 1..(Len(s) - 1)
        /\ \A i \in 1..(Len(s) - 1) : Tail(s)[i] = s[i + 1]
    BY <1>2, Tailed
  <2>2. 1 \in DOMAIN s /\ \A i \in 1..(Len(s) - 1) : i + 1 \in DOMAIN s
    BY <1>1, <2>1
  <2>3. \A y \in Range(Tail(s)) : y \in Range(s)
    BY <2>1, <2>2 DEF Range
  <2> QED BY <2>1, <2>2, <2>3 DEF Range
<1>3. ASSUME NEW x \in S PROVE Append(s, x) \in Seq(S) /\ Range(Append(s, x)) \subseteq Range(s) \cup {x}
  <2>1. /\ Append(s, x) \in Seq(S) /\ DOMAIN Append(s, x) = 1..(Len(s) + 1)
        /\ \A i \in 1..Len(s) : Append(s, x)[i] = s[i]
        /\ Append(s, x)[Len(s) + 1] = x
    BY Appended
  <2>2. \A i \in 1..(Len(s) + 1) : i \in 1..Len(s) \/ i = Len(s) + 1
    BY <1>1
  <2>3. \A y \in Range(Append(s, x)) : y \in Range(s) \/ y = x
    BY <1>1, <2>1, <2>2 DEF Range
  <2> QED BY <2>1, <2>3
<1>4. Range(s) \subseteq S
  BY <1>1 DEF Range
<1> QED BY <1>2, <1>3, <1>4

(* A move keeps every packet in one place. *)
LEMMA Arranged ==
    ASSUME NEW L, Single(L), NEW a \in Places, NEW b \in Places, L[a] # <<>>,
           NEW M, M = Add(Take(L, a), b, Head(L[a]))
    PROVE  Single(M)
<1>1. Queues(L, Places, Packets) /\ Sole(L) /\ \A x \in Packets : Somewhere(L, x)
  BY DEF Single
<1>2. Queues(M, Places, Packets) /\ Sole(M) /\ \A y : Somewhere(L, y) => Somewhere(M, y)
  BY <1>1, Moved
<1> QED BY <1>1, <1>2 DEF Single

(* Who is in a pool is in no queue, and who is in a manager's queue in no pool. *)
LEMMA Apart ==
    ASSUME Types, Placed, NEW x,
           \/ \E g \in Generators : x \in Range(pool[g])
    PROVE  /\ \A p \in Parsers : x \notin Range(queue[p])
           /\ \A m \in Managers : \A e \in Range(flows[m]) : e.packet # x
<1> DEFINE L == Lines(pool, queue, flows)
<1>0. PICK g \in Generators : x \in Range(pool[g])
  OBVIOUS
<1>1. PICK i \in DOMAIN pool[g] : pool[g][i] = x
  BY <1>0 DEF Range
<1>2. Sole(L) /\ DOMAIN L = Places
  BY LinesAre DEF Placed, Single
<1>3. <<"pool", g>> \in Places /\ L[<<"pool", g>>] = pool[g]
  BY AtPool
<1>4. ASSUME NEW p \in Parsers, x \in Range(queue[p]) PROVE FALSE
  <2>1. PICK j \in DOMAIN queue[p] : queue[p][j] = x
    BY <1>4 DEF Range
  <2>2. <<"queue", p>> \in Places /\ L[<<"queue", p>>] = queue[p] /\ <<"queue", p>> # <<"pool", g>>
    BY AtQueue
  <2> HIDE DEF L
  <2> QED BY <1>1, <1>2, <1>3, <2>1, <2>2 DEF Sole
<1>5. ASSUME NEW m \in Managers, NEW e \in Range(flows[m]), e.packet = x PROVE FALSE
  <2>1. PICK j \in DOMAIN flows[m] : flows[m][j] = e
    BY <1>5 DEF Range
  <2>2. flows[m] \in Seq(Items)
    BY DEF Types
  <2>3. j \in DOMAIN Carried(flows[m]) /\ Carried(flows[m])[j] = x
    BY <1>5, <2>1, <2>2, CarriedIs
  <2>4. <<"flows", m>> \in Places /\ L[<<"flows", m>>] = Carried(flows[m]) /\ <<"flows", m>> # <<"pool", g>>
    BY AtFlows
  <2> HIDE DEF L
  <2> QED BY <1>1, <1>2, <1>3, <2>3, <2>4 DEF Sole
<1> QED BY <1>4, <1>5

(* The packet a generator takes. *)
LEMMA InHand ==
    ASSUME Types, Placed, NEW g \in Generators, pool[g] # <<>>, NEW x, x = Head(pool[g])
    PROVE  /\ x \in Packets /\ x[1] = g /\ x[2] \in 1..PoolSize /\ x = <<g, x[2]>> /\ pool[g] \in Seq(Packets)
           /\ \A p \in Parsers : \A y \in Range(queue[p]) : y \in Packets /\ y # x
           /\ \A m \in Managers : \A e \in Range(flows[m]) : e \in Items /\ e.packet \in Packets /\ e.packet # x
<1>1. pool[g] \in Seq(Packets)
  BY DEF Types
<1>2. x \in Range(pool[g]) /\ x \in Packets
  BY <1>1, Members
<1>3. x[1] = g
  BY <1>2 DEF Placed, Own
<1>4. x[2] \in 1..PoolSize /\ x = <<g, x[2]>>
  BY <1>2, <1>3 DEF Packets
<1>5. ASSUME NEW p \in Parsers, NEW y \in Range(queue[p]) PROVE y \in Packets /\ y # x
  <2>1. queue[p] \in Seq(Packets)
    BY DEF Types
  <2>2. y \in Packets
    BY <2>1, Members
  <2> QED BY <1>2, <2>2, Apart
<1>6. ASSUME NEW m \in Managers, NEW e \in Range(flows[m])
      PROVE  e \in Items /\ e.packet \in Packets /\ e.packet # x
  <2>1. flows[m] \in Seq(Items)
    BY DEF Types
  <2>2. e \in Items
    BY <2>1, Members
  <2>3. e.packet \in Packets
    BY <2>2 DEF Items
  <2> QED BY <1>2, <2>2, <2>3, Apart
<1> QED BY <1>1, <1>2, <1>3, <1>4, <1>5, <1>6

(* A range's cursor stays in its range. *)
LEMMA CursorStep ==
    ASSUME Types, NEW g \in Generators
    PROVE  GetNext(g) \in [Ranges -> Word] /\ \A r \in Ranges : GetNext(g)[r] \in Span(r)
<1>1. ASSUME NEW r \in Ranges PROVE GetNext(g)[r] \in Word /\ GetNext(g)[r] \in Span(r)
  <2>1. Low[r] \in Word /\ Extra[r] \in Nat
    BY TrafficAssumption
  <2>2. GetNext(g)[r] = IF cur[g][r] = High[r] THEN Low[r] ELSE Inc(cur[g][r])
    BY DEF GetNext
  <2>3. High[r] = Plus(Low[r], Extra[r])
    BY DEF High
  <2>4. cur[g][r] \in Span(r)
    BY DEF Types
  <2>5. PICK n \in 0..Extra[r] : cur[g][r] = Plus(Low[r], n)
    BY <2>4 DEF Span
  <2>6. CASE cur[g][r] = High[r]
    <3>1. 0 \in 0..Extra[r] /\ Plus(Low[r], 0) = Low[r]
      BY <2>1, PlusFacts
    <3> QED BY <2>1, <2>2, <2>6, <3>1 DEF Span
  <2>7. CASE cur[g][r] # High[r]
    <3>1. n # Extra[r]
      BY <2>3, <2>5, <2>7
    <3>2. n \in Nat /\ n + 1 \in 0..Extra[r]
      BY <2>1, <2>5, <3>1
    <3>3. Plus(Low[r], n + 1) = Inc(cur[g][r]) /\ Plus(Low[r], n + 1) \in Word
      BY <2>1, <2>5, <3>2, PlusFacts
    <3> QED BY <2>2, <2>7, <3>2, <3>3 DEF Span
  <2> QED BY <2>6, <2>7
<1>2. GetNext(g) = [r \in Ranges |-> GetNext(g)[r]]
  BY DEF GetNext
<1> QED BY <1>1, <1>2

(* The text of a generator. *)
LEMMA TheText ==
    ASSUME Types, mode # "collect"
    PROVE  pkt_data \in Seq(Word) /\ pkt_data # <<>> /\ (mode = "tcp" \/ mode = "udp")
BY TrafficAssumption DEF Types

(* A pool that goes round. *)
LEMMA Turn ==
    ASSUME NEW g \in Generators, NEW n \in 0..PoolSize, n < PoolSize
    PROVE  /\ Turned(g, n) \in Seq(Packets) /\ Turned(g, n) # <<>> /\ Head(Turned(g, n)) = <<g, n + 1>>
           /\ Append(Tail(Turned(g, n)), <<g, n + 1>>) = Turned(g, n + 1)
           /\ \A k \in 1..PoolSize : <<g, k>> \in Range(Turned(g, n))
<1> DEFINE s == Turned(g, n)
           t == Turned(g, n + 1)
<1>0. PoolSize \in Nat /\ PoolSize >= 1 /\ n \in Nat
  BY TrafficAssumption
<1>1. ASSUME NEW k \in 0..PoolSize
      PROVE  /\ DOMAIN Turned(g, k) = 1..PoolSize /\ Turned(g, k) \in Seq(Packets) /\ Len(Turned(g, k)) = PoolSize
             /\ \A i \in 1..PoolSize : Turned(g, k)[i] = IF i + k <= PoolSize THEN <<g, i + k>> ELSE <<g, i + k - PoolSize>>
  <2>1. \A i \in 1..PoolSize : /\ i + k <= PoolSize => i + k \in 1..PoolSize
                               /\ ~(i + k <= PoolSize) => i + k - PoolSize \in 1..PoolSize
    BY <1>0
  <2>2. Turned(g, k) \in [1..PoolSize -> Packets]
    BY <2>1 DEF Turned, Packets
  <2> QED BY <1>0, <2>2 DEF Turned
<1>2. /\ s \in Seq(Packets) /\ Len(s) = PoolSize /\ t \in Seq(Packets) /\ Len(t) = PoolSize
      /\ DOMAIN s = 1..PoolSize /\ DOMAIN t = 1..PoolSize
      /\ \A i \in 1..PoolSize : s[i] = IF i + n <= PoolSize THEN <<g, i + n>> ELSE <<g, i + n - PoolSize>>
      /\ \A i \in 1..PoolSize : t[i] = IF i + (n + 1) <= PoolSize THEN <<g, i + (n + 1)>>
                                       ELSE <<g, i + (n + 1) - PoolSize>>
  <2>1. n + 1 \in 0..PoolSize
    BY <1>0
  <2> QED BY <1>1, <2>1
<1> HIDE DEF s, t
<1>3. s # <<>>
  BY <1>0, <1>2, EmptySeq
<1>4. s[1] = <<g, n + 1>>
  <2>1. 1 \in 1..PoolSize /\ 1 + n <= PoolSize /\ 1 + n = n + 1
    BY <1>0
  <2> QED BY <1>2, <2>1
<1>5. /\ Head(s) = s[1] /\ s[1] \in Packets /\ Tail(s) \in Seq(Packets) /\ Len(Tail(s)) = PoolSize - 1
      /\ \A i \in 1..(PoolSize - 1) : Tail(s)[i] = s[i + 1]
  BY <1>2, <1>3, Tailed
<1> DEFINE u == Append(Tail(s), s[1])
<1>6. /\ u \in Seq(Packets) /\ Len(u) = PoolSize
      /\ \A i \in 1..(PoolSize - 1) : u[i] = s[i + 1]
      /\ u[PoolSize] = s[1]
  <2>1. /\ u \in Seq(Packets) /\ Len(u) = Len(Tail(s)) + 1
        /\ \A i \in 1..Len(Tail(s)) : u[i] = Tail(s)[i]
        /\ u[Len(Tail(s)) + 1] = s[1]
    BY <1>5, Appended
  <2> HIDE DEF u
  <2>2. (PoolSize - 1) + 1 = PoolSize
    BY <1>0
  <2> QED BY <1>5, <2>1, <2>2
<1> HIDE DEF u
<1>7. \A i \in 1..PoolSize : u[i] = t[i]
  <2> SUFFICES ASSUME NEW i \in 1..PoolSize PROVE u[i] = t[i]
    OBVIOUS
  <2>1. CASE i = PoolSize
    <3>1. ~(i + (n + 1) <= PoolSize) /\ i + (n + 1) - PoolSize = n + 1
      BY <1>0, <2>1
    <3> QED BY <1>2, <1>4, <1>6, <2>1, <3>1
  <2>2. CASE i # PoolSize
    <3>1. i \in 1..(PoolSize - 1) /\ i + 1 \in 1..PoolSize /\ (i + 1) + n = i + (n + 1)
      BY <1>0, <2>2
    <3>2. u[i] = s[i + 1]
      BY <1>6, <3>1
    <3>3. CASE i + (n + 1) <= PoolSize
      <4>1. (i + 1) + n <= PoolSize
        BY ONLY <3>1, <3>3
      <4>2. s[i + 1] = <<g, (i + 1) + n>> /\ t[i] = <<g, i + (n + 1)>>
        BY <1>2, <3>1, <3>3, <4>1
      <4>3. (i + 1) + n = i + (n + 1)
        BY <1>0
      <4> QED BY ONLY <3>2, <4>2, <4>3
    <3>4. CASE ~(i + (n + 1) <= PoolSize)
      <4>1. ~((i + 1) + n <= PoolSize)
        BY ONLY <3>1, <3>4
      <4>2. s[i + 1] = <<g, (i + 1) + n - PoolSize>> /\ t[i] = <<g, i + (n + 1) - PoolSize>>
        BY <1>2, <3>1, <3>4, <4>1
      <4>3. (i + 1) + n - PoolSize = i + (n + 1) - PoolSize
        BY <1>0
      <4> QED BY ONLY <3>2, <4>2, <4>3
    <3> QED BY <3>3, <3>4
  <2> QED BY <2>1, <2>2
<1>8. u = t
  <2>1. u = [i \in 1..PoolSize |-> u[i]] /\ t = [i \in 1..PoolSize |-> t[i]]
    BY <1>2, <1>6, LenProperties
  <2> QED BY <1>7, <2>1
<1>9. ASSUME NEW k \in 1..PoolSize PROVE <<g, k>> \in Range(s)
  <2>1. CASE k > n
    <3>1. k - n \in 1..PoolSize /\ (k - n) + n = k /\ k <= PoolSize
      BY <1>0, <2>1
    <3>2. s[k - n] = <<g, k>>
      BY <1>2, <3>1
    <3> QED BY <1>2, <3>1, <3>2 DEF Range
  <2>2. CASE k <= n
    <3>1. /\ k - n + PoolSize \in 1..PoolSize /\ ~((k - n + PoolSize) + n <= PoolSize)
          /\ (k - n + PoolSize) + n - PoolSize = k
      BY <1>0, <2>2
    <3>2. s[k - n + PoolSize] = <<g, k>>
      BY <1>2, <3>1
    <3> QED BY <1>2, <3>1, <3>2 DEF Range
  <2> QED BY <1>0, <2>1, <2>2
<1> QED BY <1>2, <1>3, <1>4, <1>5, <1>8, <1>9 DEF s, t, u

(* The flow item of a packet that is as it was sent. *)
LEMMA ItemOf == ASSUME NEW x PROVE make_flow_item_tcp(x) = Item(data[x], length[x], x)
<1> DEFINE d == data[x]
           low == LowHalf(d[16])
           tcp == 16 + 4 * low
           high == HighHalf(d[tcp + 12])
<1>1. low \in Int /\ high \in Int
  <2> HIDE DEF tcp
  <2> QED BY HeaderBytes
<1>2. /\ PAY_LEN + ETH_HLEN = 16 /\ PAY_LEN = 2 /\ ETH_HLEN = 14
      /\ 16 + 9 = 25 /\ 16 + 12 = 28 /\ 16 + 16 = 32
  BY DEF PAY_LEN, ETH_HLEN
<1>3. make_flow_item_tcp(x)
        = [packet |-> x, protocol |-> d[25],
           upper_ip |-> Upper(d[28], d[32]), lower_ip |-> Lower(d[28], d[32]),
           upper_port |-> Upper(d[tcp], d[tcp + 2]), lower_port |-> Lower(d[tcp], d[tcp + 2]),
           payload |-> 14 + 4 * low + 4 * high + 2,
           payload_len |-> length[x] - (14 + 4 * low + 4 * high + 2) + 2]
  BY <1>2 DEF make_flow_item_tcp
<1>4. 14 + 4 * low + 4 * high + 2 = tcp + 4 * high
  <2> HIDE DEF low, high
  <2> QED BY <1>1
<1> QED BY <1>3, <1>4 DEF Item

ReadsAs(e, x, d, w) ==
    /\ e \in Items /\ e.packet = x /\ hash_index(e) \in Managers
    /\ w \in Wires /\ e.protocol = w.protocol
    /\ e.upper_ip = Upper(w.saddr, w.daddr) /\ e.lower_ip = Lower(w.saddr, w.daddr)
    /\ e.upper_port = Upper(w.sport, w.dport) /\ e.lower_port = Lower(w.sport, w.dport)
    /\ w.protocol = IPPROTO_TCP => [k \in 1..e.payload_len |-> d[e.payload + k - 1]] = Body(w)

LEMMA Read ==
    ASSUME NEW d, NEW len \in 0..Pktlen, NEW w, Sent(d, len, w), NEW x \in Packets
    PROVE  ReadsAs(Item(d, len, x), x, d, w)
<1> DEFINE e == Item(d, len, x)
           tcp == 16 + 4 * LowHalf(d[16])
           text == tcp + 4 * HighHalf(d[tcp + 12])
<1>1. /\ w \in Wires
      /\ d[25] = w.protocol /\ d[28] = w.saddr /\ d[32] = w.daddr /\ d[tcp] = w.sport /\ d[tcp + 2] = w.dport
      /\ w.protocol = IPPROTO_TCP => [k \in 1..(len - text + 2) |-> d[text + k - 1]] = Body(w)
  BY DEF Sent
<1>2. e = [packet |-> x, protocol |-> d[25],
           upper_ip |-> Upper(d[28], d[32]), lower_ip |-> Lower(d[28], d[32]),
           upper_port |-> Upper(d[tcp], d[tcp + 2]), lower_port |-> Lower(d[tcp], d[tcp + 2]),
           payload |-> text, payload_len |-> len - text + 2]
  BY DEF Item
<1> HIDE DEF e
<1>3. text \in Int /\ len - text + 2 \in Int
  <2>1. LowHalf(d[16]) \in Int /\ HighHalf(d[tcp + 12]) \in Int /\ len \in Int
    <3> HIDE DEF tcp
    <3> QED BY HeaderBytes
  <2> QED BY <2>1
<1> HIDE DEF tcp, text
<1>4. w.saddr \in Word /\ w.daddr \in Word /\ w.sport \in Word /\ w.dport \in Word /\ w.protocol \in Word
  BY <1>1 DEF Wires
<1>5. /\ Upper(w.saddr, w.daddr) \in Word /\ Lower(w.saddr, w.daddr) \in Word
      /\ Upper(w.sport, w.dport) \in Word /\ Lower(w.sport, w.dport) \in Word
  BY <1>4, Sorted
<1>6. /\ e.packet = x /\ e.protocol = w.protocol /\ e.payload = text /\ e.payload_len = len - text + 2
      /\ e.upper_ip = Upper(w.saddr, w.daddr) /\ e.lower_ip = Lower(w.saddr, w.daddr)
      /\ e.upper_port = Upper(w.sport, w.dport) /\ e.lower_port = Lower(w.sport, w.dport)
  BY <1>1, <1>2
<1>7. e \in Items
  BY <1>1, <1>2, <1>3, <1>4, <1>5 DEF Items
<1>8. hash_index(e) \in Managers
  <2>1. manager_nums \in Nat \ {0}
    BY TrafficAssumption
  <2> QED BY <1>5, <1>6, <2>1, HashRange DEF hash_index, Managers
<1>9. w.protocol = IPPROTO_TCP => [k \in 1..e.payload_len |-> d[e.payload + k - 1]] = Body(w)
  BY <1>1, <1>6
<1>10. ReadsAs(e, x, d, w)
  BY <1>1, <1>6, <1>7, <1>8, <1>9 DEF ReadsAs
<1> QED BY <1>10 DEF e

-----------------------------------------------------------------------------
(* The steps *)

(* A step that writes into no packet but x. *)
OnlyIn(x) ==
    \A y \in Packets : y # x => data'[y] = data[y] /\ length'[y] = length[y] /\ wire'[y] = wire[y]

(* While a generator writes into the packet in hand, what is on its way stays. *)
LEMMA Rest ==
    ASSUME Types, Placed, OnTheWay, Filed, NEW g \in Generators, pool[g] # <<>>,
           OnlyIn(Head(pool[g])), flows' = flows
    PROVE  /\ Filed'
           /\ \A p \in Parsers : \A y \in Range(queue[p]) : Sent(data'[y], length'[y], wire'[y])
           /\ \A m \in Managers : \A e \in Range(flows[m]) :
                Sent(data'[e.packet], length'[e.packet], wire'[e.packet])
<1> DEFINE x == Head(pool[g])
<1>1. /\ \A p \in Parsers : \A y \in Range(queue[p]) : y \in Packets /\ y # x
      /\ \A m \in Managers : \A e \in Range(flows[m]) : e.packet \in Packets /\ e.packet # x
  BY InHand
<1>2. \A y \in Packets : y # x => data'[y] = data[y] /\ length'[y] = length[y] /\ wire'[y] = wire[y]
  BY DEF OnlyIn
<1> HIDE DEF x
<1>3. \A m \in Managers : \A e \in Range(flows[m]) :
         e = Item(data'[e.packet], length'[e.packet], e.packet) /\ hash_index(e) = m
  BY <1>1, <1>2 DEF Filed
<1>4. Filed'
  BY <1>3 DEF Filed
<1> QED BY <1>1, <1>2, <1>4 DEF OnTheWay

(* make_all_packet: the packet becomes ready, and the pool turns by one. *)
LEMMA PrepareStep ==
    ASSUME IInv, NEW g \in Generators, Prepare(g)
    PROVE  IInv'
<1> DEFINE x == Head(pool[g])
           n == made[g]
           c == GetNext(g)
           e == Write(data[x], Cursors(c) \cup (IF mode = "tcp" THEN TcpTemplate ELSE UdpTemplate))
<1>1. Types /\ InTurn /\ Placed /\ Preparing /\ OnTheWay /\ Filed
  BY DEF IInv
<1>2. n \in 0..PoolSize /\ n < PoolSize /\ pool[g] # <<>> /\ cur[g] \in [Ranges -> Word]
  BY <1>1 DEF Prepare, Types
<1>3. /\ made' = [made EXCEPT ![g] = n + 1] /\ cur' = [cur EXCEPT ![g] = c]
      /\ length' = [length EXCEPT ![x] = Pktlen] /\ pool' = [pool EXCEPT ![g] = Append(Tail(pool[g]), x)]
      /\ UNCHANGED <<mode, pkt_data, next_thread_id, wire, queue, flows, lead>>
  BY DEF Prepare
<1>4. cur'[g] = c
  BY <1>1, <1>3 DEF Types
<1>5. data' = [data EXCEPT ![x] = e]
  BY <1>4 DEF Prepare
<1>6. /\ x \in Packets /\ x[1] = g /\ x[2] \in 1..PoolSize /\ pool[g] \in Seq(Packets)
      /\ PoolSize \in Nat /\ Pktlen \in Nat
  BY <1>1, <1>2, InHand, TrafficAssumption
<1>7. x = <<g, n + 1>> /\ Append(Tail(pool[g]), x) = Turned(g, n + 1) /\ pool[g] = Turned(g, n)
  <2>1. pool[g] = Turned(g, n)
    BY <1>1, <1>2 DEF Preparing
  <2> QED BY <1>2, <2>1, Turn
<1>8. c \in [Ranges -> Word] /\ \A r \in Ranges : c[r] \in Span(r)
  BY <1>1, CursorStep
<1>9. mode # "collect" /\ pkt_data \in Seq(Word) /\ pkt_data # <<>> /\ (mode = "tcp" \/ mode = "udp")
  <2>1. mode # "collect"
    BY <1>1, <1>2, <1>6 DEF Preparing
  <2> QED BY <1>1, <2>1, TheText
<1>10. data[x] \in [Offsets -> Word]
  BY <1>1, <1>6 DEF Types
<1>11. e \in [Offsets -> Word] /\ Ready(e, Pktlen, mode, pkt_data)
  <2>1. CASE mode = "tcp"
    <3>1. e \in [Offsets -> Word] /\ TcpReady(e, pkt_data)
      <4>1. e = Write(data[x], Cursors(c) \cup TcpTemplate)
        BY <2>1
      <4> HIDE DEF c, e, x
      <4> QED BY <1>8, <1>9, <1>10, <4>1, TcpPrepared
    <3> QED BY <2>1, <3>1 DEF Ready
  <2>2. CASE mode = "udp"
    <3>1. e \in [Offsets -> Word] /\ UdpReady(e)
      <4>1. e = Write(data[x], Cursors(c) \cup UdpTemplate)
        BY <2>2
      <4> HIDE DEF c, e, x
      <4> QED BY <1>8, <1>9, <1>10, <4>1, UdpPrepared
    <3> QED BY <2>2, <3>1 DEF Ready
  <2> QED BY <1>9, <2>1, <2>2
<1> HIDE DEF x, n, c, e
<1>12. data'[x] = e /\ length'[x] = Pktlen /\ OnlyIn(x)
  BY <1>1, <1>3, <1>5, <1>6 DEF Types, OnlyIn
<1>13. Types'
  <2>1. cur' \in [Generators -> [Ranges -> Word]] /\ \A h \in Generators, r \in Ranges : cur'[h][r] \in Span(r)
    BY <1>1, <1>3, <1>8 DEF Types
  <2>2. made' \in [Generators -> 0..PoolSize]
    <3>1. n + 1 \in 0..PoolSize
      BY <1>2, <1>6
    <3> QED BY <1>1, <1>3, <3>1 DEF Types
  <2>3. pool' \in [Generators -> Seq(Packets)]
    <3>1. Append(Tail(pool[g]), x) \in Seq(Packets)
      BY <1>2, <1>6, Members
    <3> QED BY <1>1, <1>3, <3>1 DEF Types
  <2>4. data' \in [Packets -> [Offsets -> Word]] /\ length' \in [Packets -> 0..Pktlen]
    <3>1. Pktlen \in 0..Pktlen
      BY <1>6
    <3> QED BY <1>1, <1>3, <1>5, <1>6, <1>11, <3>1 DEF Types
  <2> QED BY <1>1, <1>3, <2>1, <2>2, <2>3, <2>4 DEF Types
<1>14. InTurn'
  BY <1>1, <1>3 DEF InTurn
<1>15. Placed'
  <2> DEFINE L == Lines(pool, queue, flows)
             M == Lines(pool', queue', flows')
  <2>1. pool \in [Generators -> Seq(Packets)]
    BY <1>1 DEF Types
  <2>2. M = Add(Take(L, <<"pool", g>>), <<"pool", g>>, x)
    <3>1. pool \in Pools /\ Becomes(pool, pool', g, Append(Tail(pool[g]), x))
      BY <1>3, <2>1 DEF Pools, Becomes
    <3>2. Lines(pool', queue, flows) = Add(Take(L, <<"pool", g>>), <<"pool", g>>, x)
      BY <3>1, Round
    <3> QED BY <1>3, <3>2
  <2>3. <<"pool", g>> \in Places /\ L[<<"pool", g>>] = pool[g]
    BY AtPool
  <2>4. Single(L)
    BY <1>1 DEF Placed
  <2> HIDE DEF L, M
  <2>5. Single(M)
    BY <1>2, <2>2, <2>3, <2>4, Arranged DEF x
  <2>6. ASSUME NEW h \in Generators PROVE Own(pool'[h], h)
    <3>1. CASE h = g
      <4>1. Tail(pool[g]) \in Seq(Packets) /\ Range(Tail(pool[g])) \subseteq Range(pool[g])
        BY <1>2, <1>6, Members
      <4>2. Range(Append(Tail(pool[g]), x)) \subseteq Range(Tail(pool[g])) \cup {x}
        BY <1>6, <4>1, Members
      <4>3. pool'[g] = Append(Tail(pool[g]), x)
        BY <1>3, <2>1
      <4> QED BY <1>1, <1>6, <3>1, <4>1, <4>2, <4>3 DEF Placed, Own
    <3>2. CASE h # g
      BY <1>1, <1>3, <2>1, <3>2 DEF Placed
    <3> QED BY <3>1, <3>2
  <2> QED BY <2>5, <2>6 DEF Placed, M
<1>16. Preparing'
  <2>1. ASSUME NEW y \in Packets, y[2] <= made'[y[1]] PROVE Ready(data'[y], length'[y], mode, pkt_data)
    <3>1. CASE y = x
      BY <1>11, <1>12, <3>1
    <3>2. CASE y # x
      <4>1. y[1] \in Generators /\ y[2] \in 1..PoolSize /\ y = <<y[1], y[2]>>
        BY DEF Packets
      <4>2. y[2] <= made[y[1]]
        <5>1. CASE y[1] = g
          <6>1. made'[g] = n + 1
            BY <1>1, <1>3 DEF Types
          <6>2. y[2] # n + 1
            BY <1>7, <3>2, <4>1, <5>1
          <6> QED BY <1>2, <2>1, <4>1, <5>1, <6>1, <6>2 DEF n
        <5>2. CASE y[1] # g
          BY <1>1, <1>3, <2>1, <4>1, <5>2 DEF Types
        <5> QED BY <5>1, <5>2
      <4> QED BY <1>1, <1>9, <1>12, <3>2, <4>2 DEF Preparing, OnlyIn
    <3> QED BY <3>1, <3>2
  <2>2. ASSUME NEW h \in Generators, made'[h] < PoolSize PROVE pool'[h] = Turned(h, made'[h])
    <3>1. CASE h = g
      BY <1>1, <1>3, <1>7, <3>1 DEF Types
    <3>2. CASE h # g
      BY <1>1, <1>3, <2>2, <3>2 DEF Types, Preparing
    <3> QED BY <3>1, <3>2
  <2> QED BY <1>3, <1>9, <2>1, <2>2 DEF Preparing
<1>17. OnTheWay' /\ Filed'
  BY <1>1, <1>2, <1>3, <1>12, Rest DEF OnTheWay, x
<1> QED BY <1>13, <1>14, <1>15, <1>16, <1>17 DEF IInv

(* The packet in hand goes to a parser, as it was sent. *)
LEMMA HandedOver ==
    ASSUME Types, InTurn, Placed, OnTheWay, Filed, NEW g \in Generators, pool[g] # <<>>,
           NEW x, x = Head(pool[g]), Dispatch(g, x), OnlyIn(x), flows' = flows,
           Sent(data'[x], length'[x], wire'[x])
    PROVE  /\ InTurn' /\ Placed' /\ OnTheWay' /\ Filed'
           /\ pool' \in [Generators -> Seq(Packets)] /\ queue' \in [Parsers -> Seq(Packets)]
           /\ \A h \in Generators : h # g => pool'[h] = pool[h]
<1> DEFINE p == next_thread_id[g]
<1>1. pool' = [pool EXCEPT ![g] = Tail(pool[g])] /\ queue' = [queue EXCEPT ![p] = Append(queue[p], x)]
  BY DEF Dispatch
<1>2. p \in Parsers
  BY DEF InTurn
<1> HIDE DEF p
<1>3. pool \in [Generators -> Seq(Packets)] /\ queue \in [Parsers -> Seq(Packets)]
  BY DEF Types
<1>4. x \in Packets /\ x[1] = g /\ pool[g] \in Seq(Packets) /\ queue[p] \in Seq(Packets)
  BY <1>2, <1>3, InHand
<1>5. /\ Tail(pool[g]) \in Seq(Packets) /\ Range(Tail(pool[g])) \subseteq Range(pool[g])
      /\ Append(queue[p], x) \in Seq(Packets) /\ Range(Append(queue[p], x)) \subseteq Range(queue[p]) \cup {x}
  BY <1>4, Members
<1>6. pool' \in [Generators -> Seq(Packets)] /\ queue' \in [Parsers -> Seq(Packets)]
  BY <1>1, <1>3, <1>5
<1>7. /\ pool'[g] = Tail(pool[g]) /\ \A h \in Generators : h # g => pool'[h] = pool[h]
      /\ queue'[p] = Append(queue[p], x) /\ \A q \in Parsers : q # p => queue'[q] = queue[q]
  BY <1>1, <1>2, <1>3
<1>8. InTurn'
  BY DispatchStep
<1>9. Placed'
  <2> DEFINE L == Lines(pool, queue, flows)
             M == Lines(pool', queue', flows')
  <2>1. M = Add(Take(L, <<"pool", g>>), <<"queue", p>>, x)
    <3>1. /\ pool \in Pools /\ Becomes(pool, pool', g, Tail(pool[g]))
          /\ queue \in Inboxes /\ Becomes(queue, queue', p, Append(queue[p], x))
      BY <1>1, <1>3 DEF Pools, Inboxes, Becomes
    <3>2. Lines(pool', queue', flows) = Add(Take(L, <<"pool", g>>), <<"queue", p>>, x)
      BY <1>2, <3>1, ToParser
    <3> QED BY <3>2
  <2>2. <<"pool", g>> \in Places /\ L[<<"pool", g>>] = pool[g]
    BY AtPool
  <2>3. <<"queue", p>> \in Places
    BY <1>2, AtQueue
  <2>4. Single(L)
    BY DEF Placed
  <2> HIDE DEF L, M
  <2>5. Single(M)
    BY <2>1, <2>2, <2>3, <2>4, Arranged
  <2>6. \A h \in Generators : Own(pool'[h], h)
    BY <1>5, <1>7 DEF Placed, Own
  <2> QED BY <2>5, <2>6 DEF Placed, M
<1>10. /\ Filed'
       /\ \A q \in Parsers : \A y \in Range(queue[q]) : Sent(data'[y], length'[y], wire'[y])
       /\ \A m \in Managers : \A e \in Range(flows[m]) :
            Sent(data'[e.packet], length'[e.packet], wire'[e.packet])
  BY Rest
<1>11. \A q \in Parsers : \A y \in Range(queue'[q]) : Sent(data'[y], length'[y], wire'[y])
  BY <1>5, <1>7, <1>10
<1>12. OnTheWay'
  BY <1>10, <1>11 DEF OnTheWay
<1> QED BY <1>6, <1>7, <1>8, <1>9, <1>10, <1>12

(* packet_generator: a ready packet is sent with new cursors. *)
LEMMA SendStep ==
    ASSUME IInv, NEW g \in Generators, SendPacket(g)
    PROVE  IInv'
<1> DEFINE x == Head(pool[g])
           c == GetNext(g)
           e == Write(data[x], Cursors(c))
           t == Repeated(pkt_data, PayloadRoom)
           w == [saddr |-> htonl(c.saddr), daddr |-> htonl(c.daddr), sport |-> htons(c.sport),
                 dport |-> htons(c.dport), protocol |-> IF mode = "tcp" THEN IPPROTO_TCP ELSE IPPROTO_UDP,
                 payload |-> t, padding |-> <<>>]
<1>1. Types /\ InTurn /\ Placed /\ Preparing /\ OnTheWay /\ Filed
  BY DEF IInv
<1>2. /\ mode # "collect" /\ made[g] = PoolSize /\ pool[g] # <<>> /\ cur' = [cur EXCEPT ![g] = c]
      /\ Dispatch(g, x) /\ UNCHANGED <<mode, pkt_data, made, length, flows>>
  BY DEF SendPacket
<1>3. cur'[g] = c
  BY <1>1, <1>2 DEF Types
<1>4. data' = [data EXCEPT ![x] = e] /\ wire' = [wire EXCEPT ![x] = w]
  BY <1>3 DEF SendPacket, Repeated
<1>5. /\ x \in Packets /\ x[1] = g /\ x[2] \in 1..PoolSize
      /\ PoolSize \in Nat
  BY <1>1, <1>2, InHand, TrafficAssumption
<1>6. c \in [Ranges -> Word] /\ \A r \in Ranges : c[r] \in Span(r)
  BY <1>1, CursorStep
<1>7. pkt_data \in Seq(Word) /\ pkt_data # <<>> /\ (mode = "tcp" \/ mode = "udp")
  BY <1>1, <1>2, TheText
<1>8. data[x] \in [Offsets -> Word] /\ Ready(data[x], length[x], mode, pkt_data)
  BY <1>1, <1>2, <1>5 DEF Types, Preparing
<1>9. t \in Seq(Word)
  BY <1>7, RepeatedSteps, Room
<1>10. e \in [Offsets -> Word]
  <2> HIDE DEF c, x
  <2> QED BY <1>6, <1>8, CursorsWritten
<1>11. length[x] = Pktlen /\ Ready(e, length[x], mode, pkt_data) /\ Sent(e, length[x], w)
  <2>1. length[x] = Pktlen
    BY <1>8 DEF Ready
  <2>2. CASE mode = "tcp"
    <3>1. TcpReady(data[x], pkt_data)
      BY <1>8, <2>2 DEF Ready
    <3>2. w = [saddr |-> htonl(c.saddr), daddr |-> htonl(c.daddr), sport |-> htons(c.sport),
               dport |-> htons(c.dport), protocol |-> IPPROTO_TCP, payload |-> t, padding |-> <<>>]
      BY <2>2
    <3>3. TcpReady(e, pkt_data) /\ Sent(e, Pktlen, w)
      <4> HIDE DEF c, x, w, e
      <4>1. e = Write(data[x], Cursors(c))
        BY DEF e
      <4> QED BY <1>6, <1>7, <1>8, <3>1, <3>2, <4>1, TcpSent
    <3> HIDE DEF e, w, x
    <3> QED BY <2>1, <2>2, <3>3 DEF Ready
  <2>3. CASE mode = "udp"
    <3>1. UdpReady(data[x])
      BY <1>8, <2>3 DEF Ready
    <3>2. w = [saddr |-> htonl(c.saddr), daddr |-> htonl(c.daddr), sport |-> htons(c.sport),
               dport |-> htons(c.dport), protocol |-> IPPROTO_UDP, payload |-> t, padding |-> <<>>]
      BY <2>3
    <3>3. UdpReady(e) /\ Sent(e, Pktlen, w)
      <4> HIDE DEF c, x, w, e, t
      <4>1. e = Write(data[x], Cursors(c))
        BY DEF e
      <4> QED BY <1>6, <1>8, <1>9, <3>1, <3>2, <4>1, UdpSent
    <3> HIDE DEF e, w, x
    <3> QED BY <2>1, <2>3, <3>3 DEF Ready
  <2> QED BY <1>7, <2>1, <2>2, <2>3
<1> HIDE DEF x, c, e, t, w
<1>12. data'[x] = e /\ wire'[x] = w /\ OnlyIn(x)
  BY <1>1, <1>2, <1>4, <1>5 DEF Types, OnlyIn
<1>13. Sent(data'[x], length'[x], wire'[x])
  BY <1>2, <1>11, <1>12
<1>14. /\ InTurn' /\ Placed' /\ OnTheWay' /\ Filed'
       /\ pool' \in [Generators -> Seq(Packets)] /\ queue' \in [Parsers -> Seq(Packets)]
       /\ \A h \in Generators : h # g => pool'[h] = pool[h]
  BY <1>1, <1>2, <1>12, <1>13, HandedOver DEF x
<1>15. Types'
  <2>1. cur' \in [Generators -> [Ranges -> Word]] /\ \A h \in Generators, r \in Ranges : cur'[h][r] \in Span(r)
    BY <1>1, <1>2, <1>6 DEF Types
  <2>2. w \in Wires
    BY <1>11 DEF Sent
  <2>3. data' \in [Packets -> [Offsets -> Word]] /\ wire' \in [Packets -> Wires]
    BY <1>1, <1>4, <1>5, <1>10, <2>2 DEF Types
  <2> QED BY <1>1, <1>2, <1>14, <2>1, <2>3 DEF Types
<1>16. Preparing'
  <2>1. ASSUME NEW y \in Packets, y[2] <= made'[y[1]] PROVE Ready(data'[y], length'[y], mode, pkt_data)
    <3>1. CASE y = x
      BY <1>2, <1>11, <1>12, <3>1
    <3>2. CASE y # x
      BY <1>1, <1>2, <1>12, <2>1, <3>2 DEF Preparing, OnlyIn
    <3> QED BY <3>1, <3>2
  <2>2. \A h \in Generators : made'[h] < PoolSize => pool'[h] = Turned(h, made'[h])
    BY <1>1, <1>2, <1>5, <1>14 DEF Preparing
  <2> QED BY <1>2, <2>1, <2>2 DEF Preparing
<1> QED BY <1>14, <1>15, <1>16 DEF IInv

(* A collector: the frame is sent. *)
LEMMA CollectStep ==
    ASSUME IInv, NEW g \in Generators, NEW f \in Frames, CollectFrame(g, f)
    PROVE  IInv'
<1> DEFINE x == Head(pool[g])
           e == Write(data[x], FrameAt(PAY_LEN, f))
           w == [r \in DOMAIN NoWire |-> f[r]]
<1>1. Types /\ InTurn /\ Placed /\ Preparing /\ OnTheWay /\ Filed
  BY DEF IInv
<1>2. /\ mode = "collect" /\ pool[g] # <<>> /\ Dispatch(g, x)
      /\ data' = [data EXCEPT ![x] = e] /\ length' = [length EXCEPT ![x] = FrameLength(f)]
      /\ wire' = [wire EXCEPT ![x] = w]
      /\ UNCHANGED <<mode, pkt_data, cur, made, flows>>
  BY DEF CollectFrame
<1>3. x \in Packets /\ FrameLength(f) \in 0..Pktlen
  BY <1>1, <1>2, InHand, FrameSizes
<1>4. data[x] \in [Offsets -> Word]
  BY <1>1, <1>3 DEF Types
<1>5. e \in [Offsets -> Word] /\ Sent(e, FrameLength(f), w)
  <2> HIDE DEF x
  <2> QED BY <1>4, FrameSent
<1> HIDE DEF x, e, w
<1>6. data'[x] = e /\ length'[x] = FrameLength(f) /\ wire'[x] = w /\ OnlyIn(x)
  BY <1>1, <1>2, <1>3 DEF Types, OnlyIn
<1>7. Sent(data'[x], length'[x], wire'[x])
  BY <1>5, <1>6
<1>8. /\ InTurn' /\ Placed' /\ OnTheWay' /\ Filed'
      /\ pool' \in [Generators -> Seq(Packets)] /\ queue' \in [Parsers -> Seq(Packets)]
  BY <1>1, <1>2, <1>6, <1>7, HandedOver DEF x
<1>9. Types'
  <2>1. w \in Wires
    BY <1>5 DEF Sent
  <2>2. /\ data' \in [Packets -> [Offsets -> Word]] /\ length' \in [Packets -> 0..Pktlen]
        /\ wire' \in [Packets -> Wires]
    BY <1>1, <1>2, <1>3, <1>5, <2>1 DEF Types
  <2> QED BY <1>1, <1>2, <1>8, <2>2 DEF Types
<1>10. Preparing'
  <2>1. \A h \in Generators : made[h] = PoolSize
    BY <1>1, <1>2 DEF Preparing
  <2>2. PoolSize \in Nat
    BY TrafficAssumption
  <2>3. mode' = "collect" /\ made' = made
    BY <1>2
  <2> QED BY <2>1, <2>2, <2>3 DEF Preparing
<1> QED BY <1>8, <1>9, <1>10 DEF IInv

(* packet_parser: the flow item goes where its hash says. *)
LEMMA ParseStep ==
    ASSUME IInv, NEW p \in Parsers, ParsePacket(p)
    PROVE  IInv'
<1> DEFINE x == Head(queue[p])
           e == Item(data[x], length[x], x)
           m == hash_index(e)
<1>1. Types /\ InTurn /\ Placed /\ Preparing /\ OnTheWay /\ Filed
  BY DEF IInv
<1>2. /\ queue[p] # <<>> /\ queue' = [queue EXCEPT ![p] = Tail(queue[p])]
      /\ flows' = [flows EXCEPT ![m] = Append(flows[m], e)]
      /\ UNCHANGED <<mode, pkt_data, cur, next_thread_id, made, pool, data, length, wire, lead>>
  BY ItemOf DEF ParsePacket
<1>3. /\ queue[p] \in Seq(Packets) /\ x \in Range(queue[p]) /\ x \in Packets
      /\ Tail(queue[p]) \in Seq(Packets) /\ Range(Tail(queue[p])) \subseteq Range(queue[p])
  <2>1. queue[p] \in Seq(Packets)
    BY <1>1 DEF Types
  <2> QED BY <1>2, <2>1, Members
<1>4. Sent(data[x], length[x], wire[x]) /\ length[x] \in 0..Pktlen
  BY <1>1, <1>3 DEF OnTheWay, Types
<1>5. e \in Items /\ e.packet = x /\ m \in Managers
  <2>1. ReadsAs(e, x, data[x], wire[x])
    BY <1>3, <1>4, Read
  <2> HIDE DEF e, x
  <2> QED BY <2>1 DEF ReadsAs
<1>6. e = Item(data[e.packet], length[e.packet], e.packet) /\ hash_index(e) = m
  BY <1>5
<1> HIDE DEF x, e, m
<1>7. /\ queue \in [Parsers -> Seq(Packets)] /\ flows \in [Managers -> Seq(Items)] /\ flows[m] \in Seq(Items)
      /\ pool \in [Generators -> Seq(Packets)]
  BY <1>1, <1>5 DEF Types
<1>8. Append(flows[m], e) \in Seq(Items) /\ Range(Append(flows[m], e)) \subseteq Range(flows[m]) \cup {e}
  BY <1>5, <1>7, Members
<1>9. /\ queue'[p] = Tail(queue[p]) /\ \A q \in Parsers : q # p => queue'[q] = queue[q]
      /\ flows'[m] = Append(flows[m], e) /\ \A n \in Managers : n # m => flows'[n] = flows[n]
  BY <1>2, <1>5, <1>7
<1>10. Types'
  <2>1. queue' \in [Parsers -> Seq(Packets)] /\ flows' \in [Managers -> Seq(Items)]
    BY <1>2, <1>3, <1>5, <1>7, <1>8
  <2> QED BY <1>1, <1>2, <2>1 DEF Types
<1>11. InTurn' /\ Preparing'
  BY <1>1, <1>2 DEF InTurn, Preparing
<1>12. Placed'
  <2> DEFINE L == Lines(pool, queue, flows)
             M == Lines(pool', queue', flows')
  <2>1. M = Add(Take(L, <<"queue", p>>), <<"flows", m>>, x)
    <3>1. /\ queue \in Inboxes /\ Becomes(queue, queue', p, Tail(queue[p]))
          /\ flows \in FlowQueues /\ Becomes(flows, flows', m, Append(flows[m], e))
          /\ Carries(e, x)
      BY <1>2, <1>5, <1>7 DEF Inboxes, FlowQueues, Becomes, Carries
    <3>2. Lines(pool, queue', flows') = Add(Take(L, <<"queue", p>>), <<"flows", m>>, x)
      BY <1>5, <3>1, ToManager
    <3> QED BY <1>2, <3>2
  <2>2. <<"queue", p>> \in Places /\ L[<<"queue", p>>] = queue[p]
    BY AtQueue
  <2>3. <<"flows", m>> \in Places
    BY <1>5, AtFlows
  <2>4. Single(L)
    BY <1>1 DEF Placed
  <2> HIDE DEF L, M
  <2>5. Single(M)
    BY <1>2, <2>1, <2>2, <2>3, <2>4, Arranged DEF x
  <2> QED BY <1>1, <1>2, <2>5 DEF Placed, M
<1>13. OnTheWay'
  <2>1. \A q \in Parsers : \A y \in Range(queue'[q]) : Sent(data[y], length[y], wire[y])
    BY <1>1, <1>3, <1>9 DEF OnTheWay
  <2>2. \A n \in Managers : \A y \in Range(flows'[n]) : Sent(data[y.packet], length[y.packet], wire[y.packet])
    BY <1>1, <1>4, <1>5, <1>8, <1>9 DEF OnTheWay
  <2> QED BY <1>2, <2>1, <2>2 DEF OnTheWay
<1>14. Filed'
  <2>1. \A n \in Managers : \A y \in Range(flows'[n]) :
           y = Item(data[y.packet], length[y.packet], y.packet) /\ hash_index(y) = n
    BY <1>1, <1>6, <1>8, <1>9 DEF Filed
  <2> QED BY <1>2, <2>1 DEF Filed
<1> QED BY <1>10, <1>11, <1>12, <1>13, <1>14 DEF IInv

(* The manager returns the packet; its pool is not being prepared. *)
LEMMA FileStep ==
    ASSUME IInv, NEW m \in Managers, FileFlow(m)
    PROVE  IInv'
<1> DEFINE e == Head(flows[m])
           x == e.packet
           g == x[1]
<1>1. Types /\ InTurn /\ Placed /\ Preparing /\ OnTheWay /\ Filed
  BY DEF IInv
<1>2. /\ flows[m] # <<>> /\ flows' = [flows EXCEPT ![m] = Tail(flows[m])]
      /\ pool' = [pool EXCEPT ![g] = Append(pool[g], x)]
      /\ UNCHANGED <<mode, pkt_data, cur, next_thread_id, made, data, length, wire, queue, lead>>
  BY DEF FileFlow
<1>3. /\ flows[m] \in Seq(Items) /\ e \in Range(flows[m]) /\ e \in Items
      /\ Tail(flows[m]) \in Seq(Items) /\ Range(Tail(flows[m])) \subseteq Range(flows[m])
  <2>1. flows[m] \in Seq(Items)
    BY <1>1 DEF Types
  <2> QED BY <1>2, <2>1, Members
<1>4. x \in Packets /\ g \in Generators /\ x[2] \in 1..PoolSize /\ x = <<g, x[2]>>
  <2>1. x \in Packets
    BY <1>3 DEF Items
  <2> HIDE DEF x
  <2> QED BY <2>1 DEF Packets
<1> HIDE DEF e, x, g
<1>5. flows \in [Managers -> Seq(Items)] /\ pool \in [Generators -> Seq(Packets)] /\ pool[g] \in Seq(Packets)
  BY <1>1, <1>4 DEF Types
<1>6. Append(pool[g], x) \in Seq(Packets) /\ Range(Append(pool[g], x)) \subseteq Range(pool[g]) \cup {x}
  BY <1>4, <1>5, Members
<1>7. /\ pool'[g] = Append(pool[g], x) /\ \A h \in Generators : h # g => pool'[h] = pool[h]
      /\ flows'[m] = Tail(flows[m]) /\ \A n \in Managers : n # m => flows'[n] = flows[n]
  BY <1>2, <1>4, <1>5
<1>8. Types'
  <2>1. pool' \in [Generators -> Seq(Packets)] /\ flows' \in [Managers -> Seq(Items)]
    BY <1>2, <1>3, <1>4, <1>5, <1>6
  <2> QED BY <1>1, <1>2, <2>1 DEF Types
<1>9. InTurn'
  BY <1>1, <1>2 DEF InTurn
<1>10. Placed'
  <2> DEFINE L == Lines(pool, queue, flows)
             M == Lines(pool', queue', flows')
  <2>1. M = Add(Take(L, <<"flows", m>>), <<"pool", g>>, x)
    <3>1. /\ pool \in Pools /\ Becomes(pool, pool', g, Append(pool[g], x))
          /\ flows \in FlowQueues /\ Becomes(flows, flows', m, Tail(flows[m]))
      BY <1>2, <1>5 DEF Pools, FlowQueues, Becomes
    <3>2. Lines(pool', queue, flows') = Add(Take(L, <<"flows", m>>), <<"pool", g>>, x)
      BY <1>2, <1>4, <3>1, ToPool
    <3> QED BY <1>2, <3>2
  <2>2. <<"flows", m>> \in Places /\ L[<<"flows", m>>] = Carried(flows[m])
    BY AtFlows
  <2>3. <<"pool", g>> \in Places
    BY <1>4, AtPool
  <2>4. Single(L)
    BY <1>1 DEF Placed
  <2> HIDE DEF L, M
  <2>5. L[<<"flows", m>>] # <<>> /\ Head(L[<<"flows", m>>]) = x
    BY <1>2, <1>3, <2>2, CarriedIs DEF x, e
  <2>6. Single(M)
    BY <2>1, <2>2, <2>3, <2>4, <2>5, Arranged
  <2>7. ASSUME NEW h \in Generators PROVE Own(pool'[h], h)
    <3>1. Own(pool[h], h)
      BY <1>1 DEF Placed
    <3>2. CASE h = g
      <4>1. x[1] = h
        BY <3>2 DEF g
      <4> QED BY <1>6, <1>7, <3>1, <3>2, <4>1 DEF Own
    <3>3. CASE h # g
      BY <1>7, <3>1, <3>3
    <3> QED BY <3>2, <3>3
  <2> QED BY <2>6, <2>7 DEF Placed, M
<1>11. Preparing'
  <2>1. ~(made[g] < PoolSize)
    <3> SUFFICES ASSUME made[g] < PoolSize PROVE FALSE
      OBVIOUS
    <3>1. pool[g] = Turned(g, made[g]) /\ made[g] \in 0..PoolSize
      BY <1>1, <1>4 DEF Preparing, Types
    <3>2. <<g, x[2]>> \in Range(pool[g])
      BY <1>4, <3>1, Turn
    <3> QED BY <1>1, <1>3, <1>4, <3>2, Apart DEF x
  <2>2. \A h \in Generators : made[h] < PoolSize => pool'[h] = Turned(h, made[h])
    BY <1>1, <1>7, <2>1 DEF Preparing
  <2> QED BY <1>1, <1>2, <2>2 DEF Preparing
<1>12. OnTheWay' /\ Filed'
  <2>1. \A n \in Managers : Range(flows'[n]) \subseteq Range(flows[n])
    BY <1>3, <1>7
  <2>2. \A n \in Managers : \A y \in Range(flows'[n]) : Sent(data[y.packet], length[y.packet], wire[y.packet])
    BY <1>1, <2>1 DEF OnTheWay
  <2>3. \A n \in Managers : \A y \in Range(flows'[n]) :
           y = Item(data[y.packet], length[y.packet], y.packet) /\ hash_index(y) = n
    BY <1>1, <2>1 DEF Filed
  <2> QED BY <1>1, <1>2, <2>2, <2>3 DEF OnTheWay, Filed
<1> QED BY <1>8, <1>9, <1>10, <1>11, <1>12 DEF IInv

-----------------------------------------------------------------------------
(* The invariant always holds *)

(* At first every generator is at its first parser. *)
LEMMA FirstTurn == ASSUME Init PROVE InTurn
<1>1. /\ next_thread_id = [g \in Generators |-> g] /\ lead = [p \in Parsers |-> 0]
  BY DEF Init
<1>2. ASSUME NEW g \in Generators PROVE g \in Fed(g) /\ g \in Parsers /\ \A q \in Fed(g) : q \in Parsers /\ ~(q < g)
  <2>1. /\ g \in Nat /\ g < generator_nums /\ generator_nums \in Nat /\ g \in Parsers
        /\ \A q \in Parsers : q \in Nat
    BY Numbers
  <2>2. g % generator_nums = g
    BY <2>1
  <2>3. \A q \in Nat : q < generator_nums => q % generator_nums = q
    BY <2>1
  <2>4. ASSUME NEW q \in Fed(g) PROVE q \in Parsers /\ ~(q < g)
    <3>1. q \in Parsers /\ q % generator_nums = g /\ q \in Nat
      BY <2>1 DEF Fed
    <3> QED BY <2>1, <2>3, <3>1
  <2> QED BY <2>1, <2>2, <2>4 DEF Fed
<1> QED BY <1>1, <1>2 DEF InTurn

(* At first every packet is in its pool. *)
LEMMA FirstPlaces == ASSUME Init PROVE Types /\ Placed /\ Preparing /\ OnTheWay /\ Filed
<1>1. /\ mode \in Modes /\ (IF mode = "collect" THEN pkt_data = <<>> ELSE pkt_data \in Texts)
      /\ cur = [g \in Generators |-> Low]
      /\ made = [g \in Generators |-> IF mode = "collect" THEN PoolSize ELSE 0]
      /\ pool = [g \in Generators |-> [k \in 1..PoolSize |-> <<g, k>>]]
      /\ data = [x \in Packets |-> [o \in Offsets |-> {}]]
      /\ length = [x \in Packets |-> 0] /\ wire = [x \in Packets |-> NoWire]
      /\ queue = [p \in Parsers |-> <<>>] /\ flows = [m \in Managers |-> <<>>]
  BY DEF Init
<1>2. PoolSize \in Nat /\ PoolSize >= 1 /\ Pktlen \in Nat
  BY TrafficAssumption
<1>3. <<>> \in Seq(Packets) /\ <<>> \in Seq(Items) /\ <<>> \in Seq(Word) /\ Range(<<>>) = {} /\ DOMAIN <<>> = {}
  BY DEF Range
<1>4. ASSUME NEW g \in Generators
      PROVE  /\ pool[g] \in Seq(Packets) /\ DOMAIN pool[g] = 1..PoolSize
             /\ \A k \in 1..PoolSize : pool[g][k] = <<g, k>>
  <2>1. pool[g] = [k \in 1..PoolSize |-> <<g, k>>]
    BY <1>1
  <2>2. pool[g] \in [1..PoolSize -> Packets]
    BY <2>1 DEF Packets
  <2> QED BY <1>2, <2>1, <2>2
<1>5. Types
  <2>1. \A r \in Ranges : Low[r] \in Word /\ Low[r] \in Span(r)
    <3> SUFFICES ASSUME NEW r \in Ranges PROVE Low[r] \in Word /\ Low[r] \in Span(r)
      OBVIOUS
    <3>1. Low[r] \in Word /\ Extra[r] \in Nat
      BY TrafficAssumption
    <3>2. Plus(Low[r], 0) = Low[r] /\ 0 \in 0..Extra[r]
      BY <3>1, PlusFacts
    <3> QED BY <3>1, <3>2 DEF Span
  <2>2. Low \in [Ranges -> Word]
    BY TrafficAssumption
  <2>3. {} \in Word
    BY DEF Word
  <2>4. NoWire \in Wires
    BY <1>3, <2>3 DEF NoWire, Wires
  <2>5. /\ cur \in [Generators -> [Ranges -> Word]] /\ \A g \in Generators, r \in Ranges : cur[g][r] \in Span(r)
        /\ made \in [Generators -> 0..PoolSize] /\ length \in [Packets -> 0..Pktlen]
    BY <1>1, <1>2, <2>1, <2>2
  <2>6. data \in [Packets -> [Offsets -> Word]] /\ wire \in [Packets -> Wires]
    BY <1>1, <2>3, <2>4
  <2>7. /\ pool \in [Generators -> Seq(Packets)] /\ queue \in [Parsers -> Seq(Packets)]
        /\ flows \in [Managers -> Seq(Items)]
    BY <1>1, <1>3, <1>4
  <2> QED BY <1>1, <2>5, <2>6, <2>7 DEF Types
<1>6. Placed
  <2> DEFINE L == Lines(pool, queue, flows)
  <2>1. Queues(L, Places, Packets) /\ DOMAIN L = Places
    BY <1>5, LinesType, LinesAre DEF Types
  <2>2. ASSUME NEW a \in Places, NEW i \in DOMAIN L[a]
        PROVE  \E g \in Generators : a = <<"pool", g>> /\ i \in 1..PoolSize /\ L[a][i] = <<g, i>>
    <3>1. CASE \E g \in Generators : a = <<"pool", g>>
      <4>1. PICK g \in Generators : a = <<"pool", g>>
        BY <3>1
      <4>2. L[a] = pool[g]
        BY <4>1, AtPool
      <4> QED BY <1>4, <2>2, <4>1, <4>2
    <3>2. CASE \E p \in Parsers : a = <<"queue", p>>
      <4>1. PICK p \in Parsers : a = <<"queue", p>>
        BY <3>2
      <4>2. L[a] = <<>>
        BY <1>1, <4>1, AtQueue
      <4> QED BY <1>3, <2>2, <4>2
    <3>3. CASE \E m \in Managers : a = <<"flows", m>>
      <4>1. PICK m \in Managers : a = <<"flows", m>>
        BY <3>3
      <4>2. L[a] = Carried(<<>>)
        BY <1>1, <4>1, AtFlows
      <4>3. DOMAIN L[a] = {}
        BY <1>3, <4>2 DEF Carried
      <4> QED BY <2>2, <4>3
    <3> QED BY <3>1, <3>2, <3>3, LinesAre
  <2>3. ASSUME NEW x \in Packets PROVE Somewhere(L, x)
    <3>1. x[1] \in Generators /\ x[2] \in 1..PoolSize /\ x = <<x[1], x[2]>>
      BY DEF Packets
    <3>2. <<"pool", x[1]>> \in Places /\ L[<<"pool", x[1]>>] = pool[x[1]]
      BY <3>1, AtPool
    <3>3. x[2] \in DOMAIN L[<<"pool", x[1]>>] /\ L[<<"pool", x[1]>>][x[2]] = x
      BY <1>4, <3>1, <3>2
    <3> HIDE DEF L
    <3> QED BY <2>1, <3>2, <3>3 DEF Somewhere
  <2> HIDE DEF L
  <2>4. Sole(L)
    <3> SUFFICES ASSUME NEW a \in Places, NEW b \in Places, NEW i \in DOMAIN L[a], NEW j \in DOMAIN L[b],
                        L[a][i] = L[b][j]
                 PROVE  a = b /\ i = j
      BY <2>1 DEF Sole
    <3>1. PICK g \in Generators : a = <<"pool", g>> /\ i \in 1..PoolSize /\ L[a][i] = <<g, i>>
      BY <2>2
    <3>2. PICK h \in Generators : b = <<"pool", h>> /\ j \in 1..PoolSize /\ L[b][j] = <<h, j>>
      BY <2>2
    <3>3. <<g, i>> = <<h, j>>
      BY <3>1, <3>2
    <3>4. g = h /\ i = j
      BY <3>3
    <3> QED BY <3>1, <3>2, <3>4
  <2>5. \A g \in Generators : Own(pool[g], g)
    <3> SUFFICES ASSUME NEW g \in Generators, NEW x \in Range(pool[g]) PROVE x[1] = g
      BY DEF Own
    <3>1. PICK k \in DOMAIN pool[g] : x = pool[g][k]
      BY DEF Range
    <3>2. x = <<g, k>>
      BY <1>4, <3>1
    <3> QED BY <3>2
  <2> QED BY <2>1, <2>3, <2>4, <2>5 DEF Placed, Single, L
<1>7. Preparing
  <2>1. ASSUME NEW g \in Generators, made[g] < PoolSize PROVE pool[g] = Turned(g, made[g])
    <3>1. made[g] = 0
      BY <1>1, <1>2, <2>1
    <3>2. pool[g] = [k \in 1..PoolSize |-> <<g, k>>]
      BY <1>1
    <3>3. \A i \in 1..PoolSize : i + 0 = i /\ i <= PoolSize
      BY <1>2
    <3>4. Turned(g, 0) = [k \in 1..PoolSize |-> <<g, k>>]
      BY <3>3 DEF Turned
    <3> QED BY <3>1, <3>2, <3>4
  <2>2. ASSUME mode # "collect", NEW x \in Packets PROVE ~(x[2] <= made[x[1]])
    <3>1. x[1] \in Generators /\ x[2] \in 1..PoolSize
      BY DEF Packets
    <3>2. made[x[1]] = 0
      BY <1>1, <2>2, <3>1
    <3> QED BY <3>1, <3>2
  <2>3. mode = "collect" => \A g \in Generators : made[g] = PoolSize
    BY <1>1
  <2> QED BY <2>1, <2>2, <2>3 DEF Preparing
<1>8. OnTheWay /\ Filed
  BY <1>1, <1>3 DEF OnTheWay, Filed
<1> QED BY <1>5, <1>6, <1>7, <1>8

(* From the first state on, and by every step. *)
LEMMA Invariance == Spec => []IInv
<1>1. Init => IInv
  BY FirstTurn, FirstPlaces DEF IInv
<1>2. IInv /\ [Next]_vars => IInv'
  <2> SUFFICES ASSUME IInv, [Next]_vars PROVE IInv'
    OBVIOUS
  <2>1. CASE UNCHANGED vars
    BY <2>1 DEF vars, IInv, Types, InTurn, Placed, Preparing, OnTheWay, Filed
  <2>2. ASSUME NEW g \in Generators, Prepare(g) PROVE IInv'
    BY <2>2, PrepareStep
  <2>3. ASSUME NEW g \in Generators, SendPacket(g) PROVE IInv'
    BY <2>3, SendStep
  <2>4. ASSUME NEW g \in Generators, NEW f \in Frames, CollectFrame(g, f) PROVE IInv'
    BY <2>4, CollectStep
  <2>5. ASSUME NEW p \in Parsers, ParsePacket(p) PROVE IInv'
    BY <2>5, ParseStep
  <2>6. ASSUME NEW m \in Managers, FileFlow(m) PROVE IInv'
    BY <2>6, FileStep
  <2> QED BY <2>1, <2>2, <2>3, <2>4, <2>5, <2>6 DEF Next
<1> QED BY <1>1, <1>2, PTL DEF Spec

-----------------------------------------------------------------------------
(* What follows from it *)

LEMMA TypesHold == IInv => TypeOK
<1> SUFFICES ASSUME IInv PROVE TypeOK
  OBVIOUS
<1>1. Types /\ InTurn
  BY DEF IInv
<1>2. ASSUME NEW m \in Managers, NEW i \in DOMAIN flows[m] PROVE flows[m][i].packet \in Packets
  <2>1. flows[m] \in Seq(Items)
    BY <1>1 DEF Types
  <2> QED BY <1>2, <2>1, CarriedIs
<1>3. \A g \in Generators : DOMAIN cur[g] = Ranges /\ \A r \in Ranges : cur[g][r] \in Span(r)
  BY <1>1 DEF Types
<1>4. \A x \in Packets : DOMAIN data[x] = Offsets /\ length[x] \in 0..Pktlen
  BY <1>1 DEF Types
<1> QED BY <1>1, <1>2, <1>3, <1>4 DEF TypeOK, Types, InTurn

(* Types, and no cursor ever leaves its range: also not where a range ends *)
(* at, or passes, the largest address or port.                             *)
THEOREM TypeCorrect == Spec => []TypeOK
BY TypesHold, Invariance, PTL

(* No parser is ever more than one packet ahead of another that the same   *)
(* generator feeds, also when the parsers cannot be shared out equally     *)
(* among the generators.                                                   *)
THEOREM DispatchIsEven == Spec => []EvenDispatch
<1>1. IInv => EvenDispatch
  BY DEF IInv, InTurn, EvenDispatch
<1> QED BY <1>1, Invariance, PTL

(* A flow item in a manager's queue, and the packet it is about. *)
LEMMA OfAFlow ==
    ASSUME IInv, NEW m \in Managers, NEW e \in Range(flows[m])
    PROVE  ReadsAs(e, e.packet, data[e.packet], wire[e.packet]) /\ hash_index(e) = m
<1>1. Types /\ OnTheWay /\ Filed
  BY DEF IInv
<1>2. flows[m] \in Seq(Items)
  BY <1>1 DEF Types
<1>3. e \in Items
  BY <1>2, Members
<1> DEFINE x == e.packet
<1>4. x \in Packets
  BY <1>3 DEF Items
<1>5. Sent(data[x], length[x], wire[x]) /\ e = Item(data[x], length[x], x) /\ hash_index(e) = m
  BY <1>1 DEF OnTheWay, Filed
<1>6. length[x] \in 0..Pktlen
  BY <1>1, <1>4 DEF Types
<1> HIDE DEF x
<1>7. ReadsAs(Item(data[x], length[x], x), x, data[x], wire[x])
  BY <1>4, <1>5, <1>6, Read
<1> QED BY <1>5, <1>7 DEF x

(* A flow item in flight is in the queue of a manager. *)
LEMMA Flying == ASSUME NEW e \in InFlight PROVE \E m \in Managers : e \in Range(flows[m])
BY DEF InFlight, Range

(* The parser finds the addresses, the ports and the protocol that were    *)
(* sent, for every length of the headers, every address range and however  *)
(* often a prepared packet has been sent before.                           *)
THEOREM FieldsAreFound == Spec => []ParsedAsSent
<1>1. IInv => ParsedAsSent
  <2> SUFFICES ASSUME IInv, NEW e \in InFlight
               PROVE  LET sent == wire[e.packet] IN
                      /\ e.protocol = sent.protocol
                      /\ {e.upper_ip, e.lower_ip} = {sent.saddr, sent.daddr}
                      /\ {e.upper_port, e.lower_port} = {sent.sport, sent.dport}
    BY TypesHold DEF ParsedAsSent
  <2>1. PICK m \in Managers : e \in Range(flows[m])
    BY Flying
  <2> DEFINE w == wire[e.packet]
  <2>2. ReadsAs(e, e.packet, data[e.packet], w)
    BY <2>1, OfAFlow
  <2> HIDE DEF w
  <2>3. /\ w \in Wires /\ e.protocol = w.protocol
        /\ e.upper_ip = Upper(w.saddr, w.daddr) /\ e.lower_ip = Lower(w.saddr, w.daddr)
        /\ e.upper_port = Upper(w.sport, w.dport) /\ e.lower_port = Lower(w.sport, w.dport)
    BY <2>2 DEF ReadsAs
  <2>4. w.saddr \in Word /\ w.daddr \in Word /\ w.sport \in Word /\ w.dport \in Word
    BY <2>3 DEF Wires
  <2>5. /\ {Upper(w.saddr, w.daddr), Lower(w.saddr, w.daddr)} = {w.saddr, w.daddr}
        /\ {Upper(w.sport, w.dport), Lower(w.sport, w.dport)} = {w.sport, w.dport}
    BY <2>4, Sorted
  <2> QED BY <2>3, <2>5 DEF w
<1> QED BY <1>1, Invariance, PTL

(* The payload of a TCP flow item is the payload sent and, of a collected  *)
(* frame, its padding, for every length of the text against the room in    *)
(* the packet, every length of the headers and whatever the buffer held    *)
(* before.                                                                 *)
THEOREM PayloadIsFound == Spec => []PayloadIntact
<1>1. IInv => PayloadIntact
  <2> SUFFICES ASSUME IInv, NEW e \in InFlight, e.protocol = IPPROTO_TCP
               PROVE  [k \in 1..e.payload_len |-> data[e.packet][e.payload + k - 1]] = Body(wire[e.packet])
    BY DEF PayloadIntact
  <2>1. PICK m \in Managers : e \in Range(flows[m])
    BY Flying
  <2> DEFINE w == wire[e.packet]
             d == data[e.packet]
  <2>2. ReadsAs(e, e.packet, d, w)
    BY <2>1, OfAFlow
  <2> HIDE DEF w, d
  <2>3. [k \in 1..e.payload_len |-> d[e.payload + k - 1]] = Body(w)
    BY <2>2 DEF ReadsAs
  <2> QED BY <2>3 DEF w, d
<1> QED BY <1>1, Invariance, PTL

(* Two pairs are the same exactly when they are sorted into the same. *)
Agree(v1, v2, w1, w2) ==
    {v1, v2} = {w1, w2} <=> Upper(v1, v2) = Upper(w1, w2) /\ Lower(v1, v2) = Lower(w1, w2)

LEMMA SamePair ==
    ASSUME NEW v1 \in Word, NEW v2 \in Word, NEW w1 \in Word, NEW w2 \in Word
    PROVE  Agree(v1, v2, w1, w2)
<1>1. /\ {Upper(v1, v2), Lower(v1, v2)} = {v1, v2} /\ {Upper(w1, w2), Lower(w1, w2)} = {w1, w2}
      /\ Upper(w1, w2) = Upper(w2, w1) /\ Lower(w1, w2) = Lower(w2, w1)
  BY Sorted
<1>2. ASSUME {v1, v2} = {w1, w2} PROVE (v1 = w1 /\ v2 = w2) \/ (v1 = w2 /\ v2 = w1)
  <2>1. v1 \in {w1, w2} /\ v2 \in {w1, w2} /\ w1 \in {v1, v2} /\ w2 \in {v1, v2}
    BY ONLY <1>2, Zenon
  <2> QED BY ONLY <2>1
<1>3. ASSUME {v1, v2} = {w1, w2} PROVE Upper(v1, v2) = Upper(w1, w2) /\ Lower(v1, v2) = Lower(w1, w2)
  BY <1>1, <1>2, <1>3
<1>4. ASSUME Upper(v1, v2) = Upper(w1, w2), Lower(v1, v2) = Lower(w1, w2) PROVE {v1, v2} = {w1, w2}
  BY <1>1, <1>4
<1> QED BY <1>3, <1>4 DEF Agree

(* What OneSessionPerConversation says of two flow items. *)
Meet(a, b, m, n) ==
    LET v == wire[a.packet]
        w == wire[b.packet]
        together ==
          /\ v.protocol = w.protocol
          /\ {v.saddr, v.daddr} = {w.saddr, w.daddr}
          /\ {v.sport, v.dport} = {w.sport, w.dport}
        key(flow) == <<flow.protocol, flow.upper_ip, flow.lower_ip, flow.upper_port, flow.lower_port>>
    IN  /\ together <=> key(a) = key(b)
        /\ together => m = n /\ BucketIndex(a) = BucketIndex(b)

(* Packets of one conversation, in either direction, have one key, one     *)
(* manager and one bucket, for every number of managers and every size of  *)
(* the table; packets of different conversations have different keys.      *)
THEOREM ConversationsMeet == Spec => []OneSessionPerConversation
<1>1. ASSUME IInv, NEW m \in Managers, NEW n \in Managers, NEW a \in Range(flows[m]), NEW b \in Range(flows[n])
      PROVE  Meet(a, b, m, n)
  <2> DEFINE v == wire[a.packet]
             w == wire[b.packet]
             together ==
               /\ v.protocol = w.protocol
               /\ {v.saddr, v.daddr} = {w.saddr, w.daddr}
               /\ {v.sport, v.dport} = {w.sport, w.dport}
             key(flow) == <<flow.protocol, flow.upper_ip, flow.lower_ip, flow.upper_port, flow.lower_port>>
             alike == /\ a.protocol = b.protocol /\ a.upper_ip = b.upper_ip /\ a.lower_ip = b.lower_ip
                      /\ a.upper_port = b.upper_port /\ a.lower_port = b.lower_port
  <2>1. ReadsAs(a, a.packet, data[a.packet], v) /\ hash_index(a) = m
    BY <1>1, OfAFlow
  <2>2. ReadsAs(b, b.packet, data[b.packet], w) /\ hash_index(b) = n
    BY <1>1, OfAFlow
  <2>3. key(a) = key(b) <=> alike
    OBVIOUS
  <2> HIDE DEF v, w
  <2>4. /\ v \in Wires /\ a.protocol = v.protocol
        /\ a.upper_ip = Upper(v.saddr, v.daddr) /\ a.lower_ip = Lower(v.saddr, v.daddr)
        /\ a.upper_port = Upper(v.sport, v.dport) /\ a.lower_port = Lower(v.sport, v.dport)
    BY <2>1 DEF ReadsAs
  <2>5. /\ w \in Wires /\ b.protocol = w.protocol
        /\ b.upper_ip = Upper(w.saddr, w.daddr) /\ b.lower_ip = Lower(w.saddr, w.daddr)
        /\ b.upper_port = Upper(w.sport, w.dport) /\ b.lower_port = Lower(w.sport, w.dport)
    BY <2>2 DEF ReadsAs
  <2>6. /\ v.saddr \in Word /\ v.daddr \in Word /\ v.sport \in Word /\ v.dport \in Word
        /\ w.saddr \in Word /\ w.daddr \in Word /\ w.sport \in Word /\ w.dport \in Word
    BY <2>4, <2>5 DEF Wires
  <2>7. /\ {v.saddr, v.daddr} = {w.saddr, w.daddr} <=> a.upper_ip = b.upper_ip /\ a.lower_ip = b.lower_ip
        /\ {v.sport, v.dport} = {w.sport, w.dport} <=> a.upper_port = b.upper_port /\ a.lower_port = b.lower_port
    <3>1. Agree(v.saddr, v.daddr, w.saddr, w.daddr) /\ Agree(v.sport, v.dport, w.sport, w.dport)
      BY <2>6, SamePair
    <3> QED BY <2>4, <2>5, <3>1 DEF Agree
  <2>8. together <=> alike
    BY <2>4, <2>5, <2>7
  <2>9. alike => m = n /\ BucketIndex(a) = BucketIndex(b)
    BY <2>1, <2>2 DEF hash_index, BucketIndex
  <2> HIDE DEF together, key, alike
  <2>10. (together <=> key(a) = key(b)) /\ (together => m = n /\ BucketIndex(a) = BucketIndex(b))
    BY <2>3, <2>8, <2>9
  <2> QED BY <2>10 DEF Meet, together, key, v, w
<1>2. \A m \in Managers : \A i \in DOMAIN flows[m] : flows[m][i] \in Range(flows[m])
  BY DEF Range
<1>3. IInv => OneSessionPerConversation
  <2> SUFFICES ASSUME IInv PROVE OneSessionPerConversation
    OBVIOUS
  <2>1. \A m, n \in Managers : \A i \in DOMAIN flows[m], j \in DOMAIN flows[n] :
           Meet(flows[m][i], flows[n][j], m, n)
    BY <1>1, <1>2
  <2> QED BY <2>1 DEF OneSessionPerConversation, Meet
<1> QED BY <1>3, Invariance, PTL
=============================================================================
