------------------------------ MODULE Pipeline ------------------------------
(***************************************************************************)
(* The pipeline that packets and flow items circulate in: generator        *)
(* threads (packet_generator, or packet_collector in collector mode),      *)
(* parser threads (packet_parser_loop) and manager threads                 *)
(* (packet_manager_loop), joined by the bounded queues and pools that      *)
(* RingQueue models step by step and that are atomic FIFOs here.           *)
(* What a manager does between taking a flow and recycling it is           *)
(* SessionTable; here it is a thread that holds the flow.                  *)
(*                                                                         *)
(* A spin loop around a queue function is an action enabled when the       *)
(* function would return 0.  pipe_depth is reloaded at run time and read   *)
(* again at every decision.                                                *)
(***************************************************************************)
EXTENDS Integers, Sequences, FiniteSets

CONSTANTS
    GNums, PNums, MNums,   \* generator_nums, parser_nums, manager_nums
    Packets, PacketOf,     \* the buffers, and the generator each is allocated by
    FlowItems, FlowOf,     \* the flow items, and the parser each is allocated by
    Capacity,              \* 1 << LG2_CAPACITY, of every queue and pool
    Count,                 \* COUNT, a parser's batch
    Tilera,                \* TMC_QUEUE's dequeue_multiple or INTEL_QUEUE's
    Modes,                 \* values of PACKET_GENERATOR_MODE
    Depths, StartDepths,   \* values of PIPE_DEPTH in the file, and at start-up
    NoPool, NoPacket

Generators == 0..(GNums - 1)
Parsers == 0..(PNums - 1)
Managers == 0..(MNums - 1)

PacketsOf(g) == {x \in Packets : PacketOf[x] = g}
FlowsOf(p) == {f \in FlowItems : FlowOf[f] = p}

(* main refuses generator_nums > parser_nums.  A pool is filled once, with *)
(* no more than fits.                                                      *)
ASSUME PipelineAssumption ==
    /\ GNums \in Nat \ {0} /\ PNums \in Nat \ {0} /\ MNums \in Nat \ {0}
    /\ GNums <= PNums
    /\ PacketOf \in [Packets -> Generators] /\ FlowOf \in [FlowItems -> Parsers]
    /\ IsFiniteSet(Packets) /\ \A g \in Generators : Cardinality(PacketsOf(g)) \in 1..Capacity
    /\ IsFiniteSet(FlowItems) /\ \A p \in Parsers : Cardinality(FlowsOf(p)) \in 1..Capacity
    /\ Capacity \in Nat /\ Count \in 1..Capacity /\ Tilera \in BOOLEAN
    /\ Modes \subseteq {"generator", "collector"} /\ StartDepths \subseteq Depths /\ Depths \subseteq Nat
    /\ NoPool \notin Generators /\ NoPacket \notin Packets

VARIABLES
    gpool,     \* per generator: its pool of packets
    ppool,     \* per parser: its pool of flow items
    pqueue,    \* per parser: packets to parse
    mqueue,    \* per manager: flow items to file
    pool,      \* packet->pool
    packet,    \* flow->packet, written by make_flow_item_tcp
    ghand,     \* per generator: the packet in hand
    gpc,       \* per generator: where it is
    prepared,  \* per generator: iterations of make_all_packet done
    next_thread_id,  \* per generator: the parser that is next
    target,    \* per generator: the parser it is sending to
    mode,      \* packet_generator_mode
    pbatch, fbatch,  \* per parser: packet[COUNT] and flow[COUNT]
    ppc,       \* per parser: where it is
    mhand,     \* per manager: the flow in hand, as a sequence of at most one
    mpc,       \* per manager: where it is
    depth      \* global_config->pipe_depth

genVars == <<ghand, gpc, prepared, next_thread_id, target, pool, mode>>
parVars == <<pbatch, fbatch, ppc, packet>>
manVars == <<mhand, mpc>>
vars == <<gpool, ppool, pqueue, mqueue, genVars, parVars, manVars, depth>>

(* Types, and no queue or pool holds more than its Capacity: the spinning   *)
(* senders wait for room.                                                  *)
TypeOK ==
    /\ gpool \in [Generators -> Seq(Packets)] /\ ppool \in [Parsers -> Seq(FlowItems)]
    /\ pqueue \in [Parsers -> Seq(Packets)] /\ mqueue \in [Managers -> Seq(FlowItems)]
    /\ \A g \in Generators : Len(gpool[g]) <= Capacity
    /\ \A p \in Parsers : Len(ppool[p]) <= Capacity /\ Len(pqueue[p]) <= Capacity
    /\ \A m \in Managers : Len(mqueue[m]) <= Capacity
    /\ pool \in [Packets -> Generators \cup {NoPool}]
    /\ packet \in [FlowItems -> Packets \cup {NoPacket}]
    /\ ghand \in [Generators -> Packets \cup {NoPacket}]
    /\ gpc \in [Generators -> {"prepare", "take", "send", "return"}]
    /\ prepared \in [Generators -> 0..Capacity]
    /\ next_thread_id \in [Generators -> Parsers] /\ target \in [Generators -> Parsers]
    /\ pbatch \in [Parsers -> Seq(Packets)] /\ fbatch \in [Parsers -> Seq(FlowItems)]
    /\ ppc \in [Parsers -> {"take", "flows", "forward", "packets", "flowsback"}]
    /\ mhand \in [Managers -> Seq(FlowItems)]
    /\ mpc \in [Managers -> {"take", "packet", "flow"}]
    /\ mode \in Modes /\ depth \in Depths

(* Each pool starts with its owner's items, in allocation order. *)
Orders(S) == {s \in [1..Cardinality(S) -> S] : \A x \in S : \E i \in DOMAIN s : s[i] = x}
Filled(items) ==
    {q \in [DOMAIN items -> UNION {Orders(items[o]) : o \in DOMAIN items}] :
       \A o \in DOMAIN items : q[o] \in Orders(items[o])}

Init ==
    /\ gpool \in Filled([g \in Generators |-> PacketsOf(g)])
    /\ ppool \in Filled([p \in Parsers |-> FlowsOf(p)])
    /\ pqueue = [p \in Parsers |-> <<>>] /\ mqueue = [m \in Managers |-> <<>>]
    /\ pool = [x \in Packets |-> NoPool] /\ packet = [f \in FlowItems |-> NoPacket]
    /\ ghand = [g \in Generators |-> NoPacket]
    /\ gpc = [g \in Generators |-> "prepare"]
    /\ prepared = [g \in Generators |-> 0]
    /\ next_thread_id = [g \in Generators |-> g]
    /\ target = [g \in Generators |-> g]
    /\ pbatch = [p \in Parsers |-> <<>>] /\ fbatch = [p \in Parsers |-> <<>>]
    /\ ppc = [p \in Parsers |-> "take"]
    /\ mhand = [m \in Managers |-> <<>>] /\ mpc = [m \in Managers |-> "take"]
    /\ mode \in Modes /\ depth \in StartDepths

RoomOffByOne(q, n) == Len(q) + n <= Capacity + 1
HasBatchAndMore(q) == Len(q) > Count

(* The queue functions, as RingQueue implements them. *)
Room(q, n) == Len(q) + n <= Capacity
HasBatch(q) == IF Tilera THEN Len(q) > Count ELSE Len(q) >= Count
First(q, n) == SubSeq(q, 1, n)
Rest(q, n) == SubSeq(q, n + 1, Len(q))

Goto(pcs, t, there) == [pcs EXCEPT ![t] = there]

(* read_config_simple takes a new PIPE_DEPTH from the configuration file. *)
Reload ==
    /\ \E d \in Depths : d # depth /\ depth' = d
    /\ UNCHANGED <<gpool, ppool, pqueue, mqueue, genVars, parVars, manVars>>

-----------------------------------------------------------------------------
(* packet_generator *)

(* One iteration of the loop that a generator starts with: a packet goes   *)
(* round the pool.                                                         *)
Rotate(g, iterations) ==
    /\ gpc[g] = "prepare"
    /\ gpool' = [gpool EXCEPT ![g] = Append(Tail(@), Head(@))]
    /\ prepared' = [prepared EXCEPT ![g] = @ + 1]
    /\ gpc' = IF prepared[g] + 1 = iterations THEN Goto(gpc, g, "take") ELSE gpc
    /\ UNCHANGED <<ppool, pqueue, mqueue, ghand, next_thread_id, target, mode,
                   parVars, manVars, depth>>

PreparePacketOneShort(g) ==
    /\ mode = "generator" /\ Rotate(g, Capacity - 1)
    /\ pool' = [pool EXCEPT ![Head(gpool[g])] = g]

(* make_all_packet writes packet->pool, *)
PreparePacket(g) ==
    /\ mode = "generator" /\ Rotate(g, Capacity)
    /\ pool' = [pool EXCEPT ![Head(gpool[g])] = g]

(* make_clean_packet does not. *)
CleanPacket(g) ==
    /\ mode = "collector" /\ Rotate(g, Capacity)
    /\ UNCHANGED pool

NextParserByOne(g, n) == IF n + 1 < PNums THEN n + 1 ELSE g

(* (next_thread_id + g_nums < p_nums) ? next_thread_id + g_nums : index *)
NextParser(g, n) == IF n + GNums < PNums THEN n + GNums ELSE g

(* A packet is taken; with pipe_depth > 1 next_thread_id moves on before    *)
(* the packet is sent.                                                      *)
TakePacket(g) ==
    /\ gpc[g] = "take" /\ gpool[g] # <<>>
    /\ ghand' = [ghand EXCEPT ![g] = Head(gpool[g])]
    /\ gpool' = [gpool EXCEPT ![g] = Tail(@)]
    /\ IF depth > 1
       THEN /\ target' = [target EXCEPT ![g] = next_thread_id[g]]
            /\ next_thread_id' = [next_thread_id EXCEPT ![g] = NextParser(g, @)]
            /\ gpc' = Goto(gpc, g, "send")
       ELSE /\ gpc' = Goto(gpc, g, "return")
            /\ UNCHANGED <<target, next_thread_id>>
    /\ UNCHANGED <<ppool, pqueue, mqueue, prepared, mode, parVars, manVars, depth>>

(* packet_generator rewrites the headers of a prepared packet; *)
GeneratePacket(g) ==
    /\ mode = "generator" /\ TakePacket(g)
    /\ UNCHANGED pool

(* a collector copies a frame that arrived into a clean one. *)
CollectPacket(g) ==
    /\ mode = "collector" /\ TakePacket(g)
    /\ pool' = [pool EXCEPT ![Head(gpool[g])] = g]

SendPacket(g) ==
    /\ gpc[g] = "send" /\ Room(pqueue[target[g]], 1)
    /\ pqueue' = [pqueue EXCEPT ![target[g]] = Append(@, ghand[g])]
    /\ ghand' = [ghand EXCEPT ![g] = NoPacket]
    /\ target' = [target EXCEPT ![g] = g]
    /\ gpc' = Goto(gpc, g, "take")
    /\ UNCHANGED <<gpool, ppool, mqueue, prepared, next_thread_id, pool, mode,
                   parVars, manVars, depth>>

ReturnPacket(g) ==
    /\ gpc[g] = "return" /\ Room(gpool[pool[ghand[g]]], 1)
    /\ gpool' = [gpool EXCEPT ![pool[ghand[g]]] = Append(@, ghand[g])]
    /\ ghand' = [ghand EXCEPT ![g] = NoPacket]
    /\ gpc' = Goto(gpc, g, "take")
    /\ UNCHANGED <<ppool, pqueue, mqueue, prepared, next_thread_id, target, pool, mode,
                   parVars, manVars, depth>>

-----------------------------------------------------------------------------
(* packet_parser_loop *)

TakeBatch(p) ==
    /\ ppc[p] = "take" /\ HasBatch(pqueue[p])
    /\ pbatch' = [pbatch EXCEPT ![p] = First(pqueue[p], Count)]
    /\ pqueue' = [pqueue EXCEPT ![p] = Rest(@, Count)]
    /\ ppc' = Goto(ppc, p, IF depth > 2 THEN "flows" ELSE "packets")
    /\ UNCHANGED <<gpool, ppool, mqueue, genVars, fbatch, packet, manVars, depth>>

(* COUNT flow items are taken and make_flow_item_tcp fills them; with       *)
(* pipe_depth > 3 the packets now belong to their flows.                    *)
TakeFlows(p) ==
    /\ ppc[p] = "flows" /\ HasBatch(ppool[p])
    /\ LET fs == First(ppool[p], Count) IN
         /\ packet' = [f \in FlowItems |->
              IF \E k \in 1..Count : fs[k] = f
              THEN pbatch[p][CHOOSE k \in 1..Count : fs[k] = f] ELSE packet[f]]
         /\ fbatch' = [fbatch EXCEPT ![p] = fs]
    /\ ppool' = [ppool EXCEPT ![p] = Rest(@, Count)]
    /\ IF depth > 3
       THEN /\ ppc' = Goto(ppc, p, "forward")
            /\ pbatch' = [pbatch EXCEPT ![p] = <<>>]
       ELSE /\ ppc' = Goto(ppc, p, "packets")
            /\ UNCHANGED pbatch
    /\ UNCHANGED <<gpool, pqueue, mqueue, genVars, manVars, depth>>

(* hash_index of the flow's 5-tuple selects any manager. *)
ForwardFlow(p, m) ==
    /\ ppc[p] = "forward" /\ Room(mqueue[m], 1)
    /\ mqueue' = [mqueue EXCEPT ![m] = Append(@, Head(fbatch[p]))]
    /\ fbatch' = [fbatch EXCEPT ![p] = Tail(@)]
    /\ ppc' = IF Len(fbatch[p]) = 1 THEN Goto(ppc, p, "take") ELSE ppc
    /\ UNCHANGED <<gpool, ppool, pqueue, genVars, pbatch, packet, manVars, depth>>

ReturnBatchForgettingFlows(p) ==
    LET home == pool[pbatch[p][1]] IN
    /\ ppc[p] = "packets" /\ Room(gpool[home], Count)
    /\ gpool' = [gpool EXCEPT ![home] = @ \o pbatch[p]]
    /\ pbatch' = [pbatch EXCEPT ![p] = <<>>]
    /\ fbatch' = [fbatch EXCEPT ![p] = <<>>]
    /\ ppc' = Goto(ppc, p, "take")
    /\ UNCHANGED <<ppool, pqueue, mqueue, genVars, packet, manVars, depth>>

(* The whole batch goes to the pool of its first packet. *)
ReturnBatch(p) ==
    LET home == pool[pbatch[p][1]] IN
    /\ ppc[p] = "packets" /\ Room(gpool[home], Count)
    /\ gpool' = [gpool EXCEPT ![home] = @ \o pbatch[p]]
    /\ pbatch' = [pbatch EXCEPT ![p] = <<>>]
    /\ ppc' = Goto(ppc, p, IF fbatch[p] = <<>> THEN "take" ELSE "flowsback")
    /\ UNCHANGED <<ppool, pqueue, mqueue, genVars, fbatch, packet, manVars, depth>>

ReturnFlows(p) ==
    /\ ppc[p] = "flowsback" /\ Room(ppool[p], Count)
    /\ ppool' = [ppool EXCEPT ![p] = @ \o fbatch[p]]
    /\ packet' = [f \in FlowItems |->
         IF \E k \in 1..Count : fbatch[p][k] = f THEN NoPacket ELSE packet[f]]
    /\ fbatch' = [fbatch EXCEPT ![p] = <<>>]
    /\ ppc' = Goto(ppc, p, "take")
    /\ UNCHANGED <<gpool, pqueue, mqueue, genVars, pbatch, manVars, depth>>

-----------------------------------------------------------------------------
(* packet_manager_loop *)

TakeFlow(m) ==
    /\ mpc[m] = "take" /\ mqueue[m] # <<>>
    /\ mhand' = [mhand EXCEPT ![m] = <<Head(mqueue[m])>>]
    /\ mqueue' = [mqueue EXCEPT ![m] = Tail(@)]
    /\ mpc' = Goto(mpc, m, "packet")
    /\ UNCHANGED <<gpool, ppool, pqueue, genVars, parVars, depth>>

RecyclePacketTwice(m) ==
    LET x == packet[mhand[m][1]] IN
    /\ mpc[m] = "packet" /\ Room(gpool[pool[x]], 2)
    /\ gpool' = [gpool EXCEPT ![pool[x]] = @ \o <<x, x>>]
    /\ mpc' = Goto(mpc, m, "flow")
    /\ UNCHANGED <<ppool, pqueue, mqueue, genVars, parVars, mhand, depth>>

RecyclePacket(m) ==
    LET x == packet[mhand[m][1]] IN
    /\ mpc[m] = "packet" /\ Room(gpool[pool[x]], 1)
    /\ gpool' = [gpool EXCEPT ![pool[x]] = Append(@, x)]
    /\ mpc' = Goto(mpc, m, "flow")
    /\ UNCHANGED <<ppool, pqueue, mqueue, genVars, parVars, mhand, depth>>

RecycleFlow(m) ==
    LET f == mhand[m][1] IN
    /\ mpc[m] = "flow" /\ Room(ppool[FlowOf[f]], 1)
    /\ ppool' = [ppool EXCEPT ![FlowOf[f]] = Append(@, f)]
    /\ packet' = [packet EXCEPT ![f] = NoPacket]
    /\ mhand' = [mhand EXCEPT ![m] = <<>>]
    /\ mpc' = Goto(mpc, m, "take")
    /\ UNCHANGED <<gpool, pqueue, mqueue, genVars, pbatch, fbatch, ppc, depth>>

-----------------------------------------------------------------------------
GeneratorStep(g) ==
    \/ PreparePacket(g) \/ CleanPacket(g) \/ GeneratePacket(g) \/ CollectPacket(g)
    \/ SendPacket(g) \/ ReturnPacket(g)

ParserStep(p) == TakeBatch(p) \/ TakeFlows(p) \/ ReturnBatch(p) \/ ReturnFlows(p)

ManagerStep(m) == TakeFlow(m) \/ RecyclePacket(m) \/ RecycleFlow(m)

Next ==
    \/ Reload
    \/ \E g \in Generators : GeneratorStep(g)
    \/ \E p \in Parsers : ParserStep(p)
    \/ \E p \in Parsers, m \in Managers : ForwardFlow(p, m)
    \/ \E m \in Managers : ManagerStep(m)

Spec == Init /\ [][Next]_vars

(* Every thread keeps running.  A parser spinning on a manager queue that   *)
(* other parsers also fill gets in once room appears again and again.       *)
FairSpec ==
    /\ Spec
    /\ \A g \in Generators : WF_vars(GeneratorStep(g))
    /\ \A p \in Parsers : WF_vars(ParserStep(p))
    /\ \A p \in Parsers : SF_vars(\E m \in Managers : ForwardFlow(p, m))
    /\ \A m \in Managers : WF_vars(ManagerStep(m))

-----------------------------------------------------------------------------
Where(q, x) == {i \in DOMAIN q : q[i] = x}

(* A flow whose packet has not been recycled yet. *)
OwnsPacket(f) ==
    \/ \E p \in Parsers : ppc[p] = "forward" /\ Where(fbatch[p], f) # {}
    \/ \E m \in Managers : Where(mqueue[m], f) # {}
    \/ \E m \in Managers : mpc[m] = "packet" /\ Where(mhand[m], f) # {}

(* Where x is in a family of queues. *)
Places(kind, queues, x) ==
    UNION {{<<kind, o, i>> : i \in Where(queues[o], x)} : o \in DOMAIN queues}

PacketPlaces(x) ==
    UNION {Places("gpool", gpool, x), Places("pqueue", pqueue, x), Places("pbatch", pbatch, x),
           {<<"ghand", g, 1>> : g \in {h \in Generators : ghand[h] = x}},
           {<<"flow", f, 1>> : f \in {h \in FlowItems : packet[h] = x /\ OwnsPacket(h)}}}

FlowPlaces(f) ==
    UNION {Places("ppool", ppool, f), Places("fbatch", fbatch, f),
           Places("mqueue", mqueue, f), Places("mhand", mhand, f)}

(* A packet, and likewise a flow item, is in exactly one place, whatever   *)
(* pipe_depth does meanwhile: in particular a buffer is never back in a    *)
(* pool, ready to be overwritten, while a parser or a manager can still    *)
(* read it.                                                                *)
BuffersConserved ==
    /\ \A x \in Packets : Cardinality(PacketPlaces(x)) = 1
    /\ \A f \in FlowItems : Cardinality(FlowPlaces(f)) = 1

(* Packets and flows return to the pool they were allocated to, although a *)
(* parser returns a batch of COUNT packets by looking at the first alone.  *)
ReturnedHome ==
    /\ \A g \in Generators : \A i \in DOMAIN gpool[g] : PacketOf[gpool[g][i]] = g
    /\ \A p \in Parsers : \A i \in DOMAIN ppool[p] : FlowOf[ppool[p][i]] = p

(* A parser's queue has one sender, which TMC_QUEUE_SINGLE_SENDER presumes: *)
(* two generators are never about to send to the same parser.              *)
OneSenderPerQueue ==
    \A p \in Parsers :
      Cardinality({g \in Generators : gpc[g] = "send" /\ target[g] = p}
        \cup {PacketOf[pqueue[p][i]] : i \in DOMAIN pqueue[p]}) <= 1

(* A packet outside its pool knows the way back: make_all_packet has       *)
(* reached every packet of the pool before the first one leaves.           *)
PreparedBeforeUse ==
    \A x \in Packets :
      Where(gpool[PacketOf[x]], x) = {} => pool[x] = PacketOf[x]

(* Every generator gets a packet again and again: what is left over in     *)
(* parser queues, less than a batch in each, never starves it.             *)
GeneratorsKeepSending == \A g \in Generators : []<>(ghand[g] # NoPacket)

(* A flow that entered the pipeline returns to its parser's pool. *)
FlowsReturn == \A f \in FlowItems : (packet[f] # NoPacket) ~> (packet[f] = NoPacket)

(* A packet that a generator has queued is taken by its parser. *)
QueuedPacketsAreTaken ==
    \A p \in Parsers, x \in Packets :
      (Where(pqueue[p], x) # {}) ~> (Where(pqueue[p], x) = {})
=============================================================================
