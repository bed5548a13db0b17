--------------------------- MODULE OrderedBuckets ---------------------------
(***************************************************************************)
(* What the session table takes its buckets for: lists of sessions, each   *)
(* with a key that hashes to the bucket, no two with one key and no        *)
(* session in two places.  BucketList, with its pointers, cursors and two  *)
(* threads, implements it.                                                 *)
(***************************************************************************)
EXTENDS Integers, Sequences

CONSTANTS Buckets, Nodes, Keys, BucketOf

VARIABLE chain   \* per bucket: <<node, key>> pairs, oldest first

Entries(b) == {chain[b][i] : i \in DOMAIN chain[b]}

Init == chain = [b \in Buckets |-> <<>>]

(* The session of a new key goes to the end of its bucket. *)
Insert(n, k) ==
    /\ \A b \in Buckets : \A e \in Entries(b) : e[1] # n /\ e[2] # k
    /\ chain' = [chain EXCEPT ![BucketOf[k]] = Append(@, <<n, k>>)]

(* The sequence s without its i-th element. *)
Without(s, i) == [j \in 1..Len(s) - 1 |-> IF j < i THEN s[j] ELSE s[j + 1]]

(* A session leaves its bucket; the others keep their order. *)
Remove(b, i) == chain' = [chain EXCEPT ![b] = Without(@, i)]

Next ==
    \/ \E n \in Nodes, k \in Keys : Insert(n, k)
    \/ \E b \in Buckets : \E i \in DOMAIN chain[b] : Remove(b, i)

Spec == Init /\ [][Next]_chain
=============================================================================
