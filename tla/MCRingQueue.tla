---------------------------- MODULE MCRingQueue ----------------------------
(* Instances of RingQueue for TLC.  The cfg files give the constants;      *)
(* the widths are scaled down with the ring, keeping 1 << LOG2_ENTRIES a   *)
(* divisor of 2^32 and 2^32 a divisor of 2^64.                             *)
EXTENDS RingQueue, TLC

CONSTANTS p1, p2, c1, c2, x, y

(* Threads on one side run the same code, and the ring never looks at an   *)
(* item.                                                                   *)
Symmetry ==
    Permutations(Producers) \cup Permutations(Consumers) \cup Permutations(Items)
=============================================================================
