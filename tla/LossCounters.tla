---------------------------- MODULE LossCounters ----------------------------
(***************************************************************************)
(* What a generator counts after each packet: its own total_send_byte, and *)
(* global_loss->send_total, which all generators share.  The second        *)
(* addition is a load and a store with nothing to keep another generator   *)
(* out between them.                                                       *)
(***************************************************************************)
EXTENDS Integers, FiniteSets, FiniteSetsExt

CONSTANTS
    Generators,
    Pktlen,        \* config->pktlen, what a packet adds
    MaxPackets     \* bound on the packets of one generator

ASSUME CountersAssumption ==
    /\ IsFiniteSet(Generators)
    /\ Pktlen \in Nat \ {0} /\ MaxPackets \in Nat

VARIABLES
    total_send_byte,   \* per generator
    send_total,        \* global_loss->send_total
    step,              \* per generator: inside the shared addition or not
    loaded,            \* per generator: send_total as it was loaded
    collided           \* history: two generators were between load and store

counterVars == <<total_send_byte, send_total, step, loaded, collided>>

CountersTypeOK ==
    /\ total_send_byte \in [Generators -> 0..(MaxPackets * Pktlen)]
    /\ send_total \in Nat
    /\ step \in [Generators -> {"add", "store"}]
    /\ loaded \in [Generators -> Nat] /\ collided \in BOOLEAN

CountersInit ==
    /\ total_send_byte = [g \in Generators |-> 0]
    /\ send_total = 0
    /\ step = [g \in Generators |-> "add"]
    /\ loaded = [g \in Generators |-> 0] /\ collided = FALSE

(* generator->total_send_byte += config->pktlen, which is the generator's  *)
(* own, and the load of global_loss->send_total += config->pktlen ...      *)
AddAndLoad(g) ==
    /\ step[g] = "add" /\ total_send_byte[g] < MaxPackets * Pktlen
    /\ total_send_byte' = [total_send_byte EXCEPT ![g] = @ + Pktlen]
    /\ loaded' = [loaded EXCEPT ![g] = send_total]
    /\ step' = [step EXCEPT ![g] = "store"]
    /\ collided' = (collided \/ \E h \in Generators : step[h] = "store")
    /\ UNCHANGED send_total

StoreTotalTwice(g) ==
    /\ step[g] = "store"
    /\ send_total' = loaded[g] + Pktlen
    /\ \/ step' = [step EXCEPT ![g] = "add"] /\ loaded' = [loaded EXCEPT ![g] = 0]
       \/ step' = step /\ loaded' = [loaded EXCEPT ![g] = send_total']
    /\ UNCHANGED <<total_send_byte, collided>>

(* ... and the store. *)
StoreTotal(g) ==
    /\ step[g] = "store"
    /\ send_total' = loaded[g] + Pktlen
    /\ step' = [step EXCEPT ![g] = "add"]
    /\ loaded' = [loaded EXCEPT ![g] = 0]
    /\ UNCHANGED <<total_send_byte, collided>>

Count(g) == AddAndLoad(g) \/ StoreTotal(g)

(* What all generators have sent (a byte is its generator and its number), *)
(* and the part that is not in send_total yet.                             *)
Sent == {b \in Generators \X (1..(MaxPackets * Pktlen)) : b[2] <= total_send_byte[b[1]]}
SentBytes == Cardinality(Sent)
Storing == {g \in Generators : step[g] = "store"}
Pending == Pktlen * Cardinality(Storing)

(* send_total never shows more than was sent, and a byte can only be       *)
(* missing from it after two generators were inside the addition at once.  *)
LossOnlyByCollision ==
    /\ send_total <= SentBytes
    /\ ~collided => send_total + Pending = SentBytes
=============================================================================
