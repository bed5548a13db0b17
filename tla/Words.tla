------------------------------- MODULE Words -------------------------------
(***************************************************************************)
(* Unsigned 32-bit words as the sets of their one bits, and what the code  *)
(* does with them: ++, comparison, shifts, exclusive or, %, byte order,    *)
(* the hash MAKE_HASH and the table size next_prime.                       *)
(***************************************************************************)
EXTENDS Integers, FiniteSetsExt

Bits == 0..31
Word == SUBSET Bits

(* The word of a small number, and the number of a word of four bits. *)
WordOf(n) == {b \in 0..30 : (n \div 2^b) % 2 = 1}
Num(w) == CHOOSE n \in 0..15 : WordOf(n) = w

Xor(v, w) == (v \ w) \cup (w \ v)

(* ++w, modulo 2^32: a bit changes when all the bits below it are one. *)
Inc(w) == Xor(w, {b \in Bits : 0..b - 1 \subseteq w})

(* w + n *)
Plus(w, n) ==
    LET Sum[k \in 0..n] == IF k = 0 THEN w ELSE Inc(Sum[k - 1]) IN Sum[n]

Shl(w, n) == {b + n : b \in w} \cap Bits
Shr(w, n) == {b - n : b \in w} \cap Bits
AtLeast(v, w) == v = w \/ Max(Xor(v, w)) \in v

(* w % size, with the remainder of the k upper bits for k = 0..32. *)
Mod(w, size) ==
    LET rest[k \in 0..32] ==
          IF k = 0 THEN 0 ELSE (2 * rest[k - 1] + (IF 32 - k \in w THEN 1 ELSE 0)) % size
    IN  rest[32]

(* Host to network order on a little-endian machine, for 32 and 16 bits;   *)
(* htons drops what does not fit.                                          *)
htonl(w) == {(8 * (3 - (b \div 8))) + (b % 8) : b \in w}
htons(w) == {(8 * (1 - (b \div 8))) + (b % 8) : b \in w \cap (0..15)}

MAKE_HASH(f1, f2, f3, f4, size) ==
    LET v1 == Xor(f1, f2)
        v2 == Xor(f3, f4)
        remainder[w \in Word] == Mod(w, size)
    IN  remainder[Xor(Xor(Xor(Shl(v1, 8), Shr(v1, 4)), Xor(Shr(v1, 12), Shr(v1, 16))),
                      Xor(Xor(Shl(v2, 6), Shl(v2, 10)), Xor(Shl(v2, 14), Shr(v2, 7))))]

(* The first number above x that no smaller one divides; there is always   *)
(* one up to 2x.                                                           *)
next_prime(x) ==
    LET from == IF x = 0 THEN 1 ELSE x
    IN  Min({i \in from + 1..2 * from : \A j \in 2..i - 1 : i % j # 0})
=============================================================================
