---------------------------- MODULE MCBucketList ----------------------------
EXTENDS BucketList

CONSTANTS k1, k2, k3

(* Two keys share the first bucket. *)
MCBucketOf == [k \in Keys |-> IF k = k3 THEN 2 ELSE 1]
=============================================================================
