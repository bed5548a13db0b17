-------------------------- MODULE MCSessionTable --------------------------
(* Instances of SessionTable for TLC. *)
EXTENDS SessionTable, TLC

CONSTANTS s1, s2, s3, a, b, c

(* Two managers with one bucket each: a and b collide in manager 1. *)
TwoManagersHome == s1 :> 1 @@ s2 :> 1 @@ s3 :> 2
TwoManagersManagerOf == a :> 1 @@ b :> 1 @@ c :> 2
TwoManagersBucketOf == a :> 1 @@ b :> 1 @@ c :> 1

(* One manager with two buckets: a and b collide in bucket 1. *)
OneManagerHome == [s \in Sessions |-> 1]
OneManagerManagerOf == [k \in Keys |-> 1]
OneManagerBucketOf == [k \in Keys |-> IF k = c THEN 2 ELSE 1]

(* The sessions of one pool are interchangeable. *)
Symmetry == {f \in Permutations(Sessions) : \A s \in Sessions : Home[f[s]] = Home[s]}
=============================================================================
