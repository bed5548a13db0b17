-------------------------------- MODULE Fifo --------------------------------
(***************************************************************************)
(* What the queue macros promise to their callers, stated without ring,    *)
(* counters or mutexes: NAME_enqueue, NAME_enqueue_multiple, NAME_dequeue  *)
(* and NAME_dequeue_multiple act on one bounded FIFO, each call takes      *)
(* effect at one instant between its invocation and its return, and a call *)
(* returns -1 only when the queue has no room for what it brings, or holds *)
(* less than it asks for ("The enqueue and dequeue methods return -1 if    *)
(* the queue is full or empty, respectively", queue_tilegx.h:54).          *)
(*                                                                         *)
(* Spec is that promise.  LosslessSpec is a weaker one, in which a dequeue *)
(* may also return -1 with the items there: what enters still leaves once, *)
(* whole and in order.                                                     *)
(***************************************************************************)
EXTENDS Integers, Sequences

CONSTANTS
    Producers,   \* threads that enqueue
    Consumers,   \* threads that dequeue
    Items,       \* the pointers the queue carries
    Capacity,    \* 1 << LOG2_ENTRIES
    Batch        \* COUNT, the size of every *_multiple call

VARIABLES
    content,     \* what is queued, oldest first
    phase,       \* per thread: "idle", "called", "ok" (0) or "failed" (-1)
    offer,       \* per producer: what the current call brings
    want,        \* per consumer: how many items the current call asks for
    got          \* per consumer: what a successful call hands back

fifoVars == <<content, phase, offer, want, got>>

Offers == {<<x>> : x \in Items} \cup [1..Batch -> Items]

Init ==
    /\ content = <<>>
    /\ phase = [t \in Producers \cup Consumers |-> "idle"]
    /\ offer = [p \in Producers |-> <<>>]
    /\ want = [c \in Consumers |-> 0]
    /\ got = [c \in Consumers |-> <<>>]

Becomes(t, from, to) ==
    /\ phase[t] = from
    /\ phase' = [phase EXCEPT ![t] = to]

CallEnqueue(p) ==
    /\ Becomes(p, "idle", "called")
    /\ \E s \in Offers : offer' = [offer EXCEPT ![p] = s]
    /\ UNCHANGED <<content, want, got>>

(* The whole offer enters the queue at once, behind what is there. *)
Put(p) ==
    /\ Becomes(p, "called", "ok")
    /\ Len(content) + Len(offer[p]) <= Capacity
    /\ content' = content \o offer[p]
    /\ UNCHANGED <<offer, want, got>>

Full(p) ==
    /\ Becomes(p, "called", "failed")
    /\ Len(content) + Len(offer[p]) > Capacity
    /\ UNCHANGED <<content, offer, want, got>>

ReturnEnqueue(p) ==
    /\ \/ Becomes(p, "ok", "idle")
       \/ Becomes(p, "failed", "idle")
    /\ offer' = [offer EXCEPT ![p] = <<>>]
    /\ UNCHANGED <<content, want, got>>

CallDequeue(c) ==
    /\ Becomes(c, "idle", "called")
    /\ \E n \in {1, Batch} : want' = [want EXCEPT ![c] = n]
    /\ UNCHANGED <<content, offer, got>>

(* The caller receives the oldest items, in order, and nobody else does. *)
Get(c) ==
    /\ Becomes(c, "called", "ok")
    /\ want[c] <= Len(content)
    /\ got' = [got EXCEPT ![c] = SubSeq(content, 1, want[c])]
    /\ content' = SubSeq(content, want[c] + 1, Len(content))
    /\ UNCHANGED <<offer, want>>

Empty(c) ==
    /\ Becomes(c, "called", "failed")
    /\ want[c] > Len(content)
    /\ UNCHANGED <<content, offer, want, got>>

(* A call that gives up, whatever the queue holds, and leaves it as it is. *)
Refuse(c) ==
    /\ Becomes(c, "called", "failed")
    /\ UNCHANGED <<content, offer, want, got>>

ReturnDequeue(c) ==
    /\ \/ Becomes(c, "ok", "idle")
       \/ Becomes(c, "failed", "idle")
    /\ got' = [got EXCEPT ![c] = <<>>]
    /\ want' = [want EXCEPT ![c] = 0]
    /\ UNCHANGED <<content, offer>>

Next ==
    \/ \E p \in Producers :
         CallEnqueue(p) \/ Put(p) \/ Full(p) \/ ReturnEnqueue(p)
    \/ \E c \in Consumers :
         CallDequeue(c) \/ Get(c) \/ Empty(c) \/ ReturnDequeue(c)

Spec == Init /\ [][Next]_fifoVars

LosslessNext == Next \/ \E c \in Consumers : Refuse(c)

LosslessSpec == Init /\ [][LosslessNext]_fifoVars
=============================================================================
