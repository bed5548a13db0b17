------------------------------ MODULE Traffic ------------------------------
(***************************************************************************)
(* What the packets contain on their way: a generator writes headers and   *)
(* payload into a buffer and walks through its ranges of addresses and     *)
(* ports, a collector copies a frame into one, a parser finds the fields   *)
(* again and sorts them into a key, and two hashes of the key choose the   *)
(* manager and the bucket.                                                 *)
(*                                                                         *)
(* A buffer maps the offsets the code computes to words: a field lies at   *)
(* its first byte, text at every byte.  How packets circulate, in batches  *)
(* and through bounded queues, is the subject of Pipeline; here a packet   *)
(* goes to its parser and its manager and back to its pool.                *)
(***************************************************************************)
EXTENDS Words, Sequences

CONSTANTS
    generator_nums, parser_nums, manager_nums,
    PoolSize,      \* packets of a generator
    HashLength,    \* manager_hash_length
    Pktlen,        \* config->pktlen
    Texts,         \* config->pkt_data, as sequences of bytes
    Low, Extra,    \* per range: its first value, and the "+n" after it
    Frames,        \* what a collector may be handed
    Modes          \* "tcp" and "udp" generate, "collect" takes frames

IP_IDX == 16
TCP_IDX == 36
PAY_LEN == 2
ETH_HLEN == 14
IPPROTO_TCP == WordOf(6)
IPPROTO_UDP == WordOf(17)

Generators == 0..generator_nums - 1
Parsers == 0..parser_nums - 1
Managers == 0..manager_nums - 1
Packets == Generators \X (1..PoolSize)
Ranges == {"saddr", "daddr", "sport", "dport"}
Offsets == IP_IDX..Pktlen + PAY_LEN - 1

(* read_config_file: max = min + counter *)
High == [r \in Ranges |-> Plus(Low[r], Extra[r])]

(* A frame: its header fields as they are on the wire, its payload, and    *)
(* the padding that fills a short frame up to the 60 bytes of Ethernet.    *)
(* The collectors know only l2_length, which counts all of it.  A UDP      *)
(* header has eight bytes.                                                 *)
Body(f) == f.payload \o f.padding
TransportLength(f) == IF f.protocol = IPPROTO_TCP THEN 4 * f.doff ELSE 8
FrameLength(f) == ETH_HLEN + 4 * f.ihl + TransportLength(f) + Len(Body(f))

(* pktlen leaves room for the headers, the text is not empty and no frame  *)
(* is longer than pktlen: the code checks none of the three.  A longer     *)
(* frame is copied over the packet_t behind its buffer (memcpy in the      *)
(* collectors), an empty text keeps pop_payload in its loop; what follows  *)
(* then is not modelled.                                                   *)
ASSUME TrafficAssumption ==
    /\ parser_nums \in Nat /\ generator_nums \in 1..parser_nums /\ manager_nums \in Nat \ {0}
    /\ PoolSize \in Nat \ {0} /\ HashLength \in Nat
    /\ Pktlen \in Nat /\ Pktlen > 58
    /\ \A t \in Texts : t # <<>> /\ t \in Seq(Word)
    /\ Low \in [Ranges -> Word] /\ Extra \in [Ranges -> Nat]
    /\ Frames \subseteq
         [ihl : 5..15, doff : 5..15, protocol : Word, saddr : Word, daddr : Word,
          sport : Word, dport : Word, payload : Seq(Word), padding : Seq(Word)]
    /\ \A f \in Frames : FrameLength(f) <= Pktlen
    /\ Modes \subseteq {"tcp", "udp", "collect"}

VARIABLES
    mode, pkt_data,    \* from the configuration
    cur,               \* per generator: saddr_cur, daddr_cur, sport_cur, dport_cur
    next_thread_id,    \* per generator
    made,              \* per generator: how far make_all_packet is
    pool,              \* per generator: its free packets
    data, length,      \* per packet
    wire,              \* history, per packet: what was sent in it
    queue,             \* per parser: packets
    flows,             \* per manager: its queue of flow items
    lead               \* history, per parser: packets it got beyond the least served
                       \* parser of its generator

vars == <<mode, pkt_data, cur, next_thread_id, made, pool, data, length, wire, queue, flows, lead>>

Span(r) == {Plus(Low[r], n) : n \in 0..Extra[r]}

(* Types; no cursor ever leaves its range, also where the range passes the *)
(* largest address or port.                                                *)
TypeOK ==
    /\ mode \in Modes /\ pkt_data \in Texts \cup {<<>>}
    /\ \A g \in Generators : DOMAIN cur[g] = Ranges /\ \A r \in Ranges : cur[g][r] \in Span(r)
    /\ next_thread_id \in [Generators -> Parsers]
    /\ made \in [Generators -> 0..PoolSize]
    /\ pool \in [Generators -> Seq(Packets)]
    /\ \A x \in Packets : DOMAIN data[x] = Offsets /\ length[x] \in 0..Pktlen
    /\ queue \in [Parsers -> Seq(Packets)]
    /\ \A m \in Managers : \A i \in DOMAIN flows[m] : flows[m][i].packet \in Packets

NoWire == [saddr |-> {}, daddr |-> {}, sport |-> {}, dport |-> {}, protocol |-> {}, payload |-> <<>>,
           padding |-> <<>>]

Init ==
    /\ mode \in Modes
    /\ IF mode = "collect" THEN pkt_data = <<>> ELSE pkt_data \in Texts
    /\ cur = [g \in Generators |-> Low]
    /\ next_thread_id = [g \in Generators |-> g]
    /\ made = [g \in Generators |-> IF mode = "collect" THEN PoolSize ELSE 0]
    /\ pool = [g \in Generators |-> [k \in 1..PoolSize |-> <<g, k>>]]
    /\ data = [x \in Packets |-> [o \in Offsets |-> {}]]
    /\ length = [x \in Packets |-> 0] /\ wire = [x \in Packets |-> NoWire]
    /\ queue = [p \in Parsers |-> <<>>] /\ flows = [m \in Managers |-> <<>>]
    /\ lead = [p \in Parsers |-> 0]

-----------------------------------------------------------------------------
(* The generator's view of a packet *)

NextBeforeEnd(g) ==
    [r \in Ranges |-> IF High[r] \in {cur[g][r], Inc(cur[g][r])} THEN Low[r] ELSE Inc(cur[g][r])]

(* GET_NEXT_SRCIP, _DSTIP, _SRCPORT, _DSTPORT: all four move with every packet. *)
GetNext(g) ==
    [r \in Ranges |-> IF cur[g][r] = High[r] THEN Low[r] ELSE Inc(cur[g][r])]

(* What pop_payload's loop writes while j bytes remain: the whole text     *)
(* while more remains, and the rest from its beginning.                    *)
PayloadRoom == Pktlen - 54
CopyLoop(text) ==
    LET Copied[j \in 0..PayloadRoom] ==
          IF j > Len(text) THEN text \o Copied[j - Len(text)] ELSE SubSeq(text, 1, j)
    IN  Copied[PayloadRoom]

(* Writes into a buffer: pairs of an offset and a word, text from an offset on. *)
Write(d, fields) ==
    [o \in DOMAIN d \cup {f[1] : f \in fields} |->
        LET written == {f \in fields : f[1] = o}
        IN  IF written = {} THEN d[o] ELSE (CHOOSE f \in written : TRUE)[2]]
TextAt(o, text) == {<<o + i - 1, text[i]>> : i \in DOMAIN text}

Cursors(c) ==
    {<<IP_IDX + 12, htonl(c.saddr)>>, <<IP_IDX + 16, htonl(c.daddr)>>,
     <<TCP_IDX, htons(c.sport)>>, <<TCP_IDX + 2, htons(c.dport)>>}

(* generator_tcp_packet and generator_udp_packet, but for the cursors: the *)
(* version (TCP only) with the IP header's length, the protocol, and the   *)
(* TCP header's length in the upper half of its byte.                      *)
TcpTemplate ==
    {<<IP_IDX, WordOf(4 * 16 + 5)>>, <<IP_IDX + 9, IPPROTO_TCP>>, <<TCP_IDX + 12, WordOf(5 * 16)>>}
        \cup TextAt(56, CopyLoop(pkt_data))

UdpTemplate ==
    {<<IP_IDX, WordOf(5)>>, <<IP_IDX + 9, IPPROTO_UDP>>} \cup TextAt(44, CopyLoop(pkt_data))

(* An iteration of make_all_packet: the packet is taken, written and put back. *)
Prepare(g) ==
    /\ made[g] < PoolSize
    /\ pool[g] # <<>>
    /\ made' = [made EXCEPT ![g] = @ + 1]
    /\ cur' = [cur EXCEPT ![g] = GetNext(g)]
    /\ LET x == Head(pool[g])
           template == IF mode = "tcp" THEN TcpTemplate ELSE UdpTemplate
       IN  /\ data' = [data EXCEPT ![x] = Write(@, Cursors(cur'[g]) \cup template)]
           /\ length' = [length EXCEPT ![x] = Pktlen]
           /\ pool' = [pool EXCEPT ![g] = Append(Tail(@), x)]
    /\ UNCHANGED <<mode, pkt_data, next_thread_id, wire, queue, flows, lead>>

(* The parsers a generator feeds. *)
Fed(g) == {p \in Parsers : p % generator_nums = g}

NextWrapsToFirst(g) ==
    LET next == next_thread_id[g] + generator_nums IN IF next < parser_nums THEN next ELSE 0

NextThread(g) ==
    LET next == next_thread_id[g] + generator_nums IN IF next < parser_nums THEN next ELSE g

(* The packet goes to the generator's next parser, in turn. *)
Dispatch(g, x) ==
    LET p == next_thread_id[g]
        more == [lead EXCEPT ![p] = @ + 1]
        least == Min({more[q] : q \in Fed(g)})
    IN  /\ queue' = [queue EXCEPT ![p] = Append(@, x)]
        /\ next_thread_id' = [next_thread_id EXCEPT ![g] = NextThread(g)]
        /\ lead' = [q \in Parsers |-> IF q \in Fed(g) THEN more[q] - least ELSE more[q]]
        /\ pool' = [pool EXCEPT ![g] = Tail(@)]

(* An iteration of packet_generator: only addresses and ports are new. *)
SendPacket(g) ==
    /\ mode # "collect"
    /\ made[g] = PoolSize
    /\ pool[g] # <<>>
    /\ cur' = [cur EXCEPT ![g] = GetNext(g)]
    /\ LET x == Head(pool[g])
           c == cur'[g]
       IN  /\ data' = [data EXCEPT ![x] = Write(@, Cursors(c))]
           /\ wire' = [wire EXCEPT ![x] =
                  [saddr |-> htonl(c.saddr), daddr |-> htonl(c.daddr),
                   sport |-> htons(c.sport), dport |-> htons(c.dport),
                   protocol |-> IF mode = "tcp" THEN IPPROTO_TCP ELSE IPPROTO_UDP,
                   payload |-> [k \in 1..PayloadRoom |-> pkt_data[((k - 1) % Len(pkt_data)) + 1]],
                   padding |-> <<>>]]
           /\ Dispatch(g, x)
    /\ UNCHANGED <<mode, pkt_data, made, length, flows>>

(* A frame's bytes in a buffer. *)
FrameAt(o, f) ==
    LET ip == o + ETH_HLEN
        transport == ip + 4 * f.ihl
    IN  {<<ip, WordOf(4 * 16 + f.ihl)>>, <<ip + 9, f.protocol>>,
         <<ip + 12, f.saddr>>, <<ip + 16, f.daddr>>, <<transport, f.sport>>, <<transport + 2, f.dport>>}
        \cup (IF f.protocol = IPPROTO_TCP THEN {<<transport + 12, WordOf(16 * f.doff)>>} ELSE {})
        \cup TextAt(transport + TransportLength(f), Body(f))

CollectFrameKeepsLength(g, f) ==
    /\ mode = "collect" /\ FrameLength(f) > 40 /\ pool[g] # <<>>
    /\ LET x == Head(pool[g]) IN
          /\ data' = [data EXCEPT ![x] = Write(@, FrameAt(PAY_LEN, f))]
          /\ length' = [length EXCEPT ![x] = IF @ = 0 THEN FrameLength(f) ELSE @]
          /\ wire' = [wire EXCEPT ![x] = [r \in DOMAIN NoWire |-> f[r]]]
          /\ Dispatch(g, x)
    /\ UNCHANGED <<mode, pkt_data, cur, made, flows>>

(* An iteration of a packet collector that finds a frame; shorter ones are left. *)
CollectFrame(g, f) ==
    /\ mode = "collect"
    /\ FrameLength(f) > 40
    /\ pool[g] # <<>>
    /\ LET x == Head(pool[g]) IN
          /\ data' = [data EXCEPT ![x] = Write(@, FrameAt(PAY_LEN, f))]
          /\ length' = [length EXCEPT ![x] = FrameLength(f)]
          /\ wire' = [wire EXCEPT ![x] = [r \in DOMAIN NoWire |-> f[r]]]
          /\ Dispatch(g, x)
    /\ UNCHANGED <<mode, pkt_data, cur, made, flows>>

-----------------------------------------------------------------------------
(* The parser's and the manager's view *)

LowHalf(byte) == Num(byte \cap (0..3))
HighHalf(byte) == Num(Shr(byte, 4) \cap (0..3))
Upper(v, w) == IF AtLeast(v, w) THEN v ELSE w
Lower(v, w) == IF AtLeast(v, w) THEN w ELSE v

ParseWithoutOptions(x) ==
    LET d == data[x]
        header_len == ETH_HLEN + 20 + 4 * HighHalf(d[TCP_IDX + 12]) + PAY_LEN
    IN  [packet |-> x, protocol |-> d[IP_IDX + 9],
         upper_ip |-> Upper(d[IP_IDX + 12], d[IP_IDX + 16]),
         lower_ip |-> Lower(d[IP_IDX + 12], d[IP_IDX + 16]),
         upper_port |-> Upper(d[TCP_IDX], d[TCP_IDX + 2]),
         lower_port |-> Lower(d[TCP_IDX], d[TCP_IDX + 2]),
         payload |-> header_len, payload_len |-> length[x] - header_len + PAY_LEN]

ParseUnsortedPorts(x) ==
    LET d == data[x]
        ihl == 4 * LowHalf(d[PAY_LEN + ETH_HLEN])
        tcp == PAY_LEN + ETH_HLEN + ihl
        header_len == ETH_HLEN + ihl + 4 * HighHalf(d[tcp + 12]) + PAY_LEN
    IN  [packet |-> x, protocol |-> d[IP_IDX + 9],
         upper_ip |-> Upper(d[IP_IDX + 12], d[IP_IDX + 16]),
         lower_ip |-> Lower(d[IP_IDX + 12], d[IP_IDX + 16]),
         upper_port |-> d[tcp], lower_port |-> d[tcp + 2],
         payload |-> header_len, payload_len |-> length[x] - header_len + PAY_LEN]

(* make_flow_item_tcp, which the parser calls for every packet.  A         *)
(* negative length stands for the unsigned one the code stores.            *)
make_flow_item_tcp(x) ==
    LET d == data[x]
        ip == PAY_LEN + ETH_HLEN
        ihl == 4 * LowHalf(d[ip])
        tcp == ip + ihl
        header_len == ETH_HLEN + ihl + 4 * HighHalf(d[tcp + 12]) + PAY_LEN
    IN  [packet |-> x, protocol |-> d[ip + 9],
         upper_ip |-> Upper(d[ip + 12], d[ip + 16]), lower_ip |-> Lower(d[ip + 12], d[ip + 16]),
         upper_port |-> Upper(d[tcp], d[tcp + 2]), lower_port |-> Lower(d[tcp], d[tcp + 2]),
         payload |-> header_len, payload_len |-> length[x] - header_len + PAY_LEN]

hash_index(flow) ==
    MAKE_HASH(flow.lower_ip, flow.upper_ip, flow.lower_port, flow.upper_port, manager_nums)

(* The parser's step for a packet: its flow item goes to the manager the   *)
(* hash names.                                                             *)
ParsePacket(p) ==
    /\ queue[p] # <<>>
    /\ \E flow \in {make_flow_item_tcp(Head(queue[p]))} :
          flows' = [flows EXCEPT ![hash_index(flow)] = Append(@, flow)]
    /\ queue' = [queue EXCEPT ![p] = Tail(@)]
    /\ UNCHANGED <<mode, pkt_data, cur, next_thread_id, made, pool, data, length, wire, lead>>

(* The bucket packet_manager_loop looks the flow up in. *)
num_buckets == next_prime(HashLength)
BucketIndex(flow) ==
    MAKE_HASH(flow.lower_port, flow.upper_ip, flow.upper_port, flow.lower_ip, num_buckets)

(* The manager is done with a flow, and the packet goes back to its pool. *)
FileFlow(m) ==
    /\ flows[m] # <<>>
    /\ flows' = [flows EXCEPT ![m] = Tail(@)]
    /\ LET x == Head(flows[m]).packet IN pool' = [pool EXCEPT ![x[1]] = Append(@, x)]
    /\ UNCHANGED <<mode, pkt_data, cur, next_thread_id, made, data, length, wire, queue, lead>>

Next ==
    \/ \E g \in Generators : Prepare(g)
    \/ \E g \in Generators : SendPacket(g)
    \/ \E g \in Generators, f \in Frames : CollectFrame(g, f)
    \/ \E p \in Parsers : ParsePacket(p)
    \/ \E m \in Managers : FileFlow(m)

(* Every thread is a loop that the operating system runs; a frame need not *)
(* arrive.                                                                 *)
Fairness ==
    /\ \A g \in Generators : WF_vars(Prepare(g)) /\ WF_vars(SendPacket(g))
    /\ \A p \in Parsers : WF_vars(ParsePacket(p))
    /\ \A m \in Managers : WF_vars(FileFlow(m))

Spec == Init /\ [][Next]_vars /\ Fairness

-----------------------------------------------------------------------------
(* Properties *)

InFlight == UNION {{flows[m][i] : i \in DOMAIN flows[m]} : m \in Managers}

(* Types hold, and the parser reads back, at the offsets it computes from  *)
(* the header lengths, the addresses, ports and protocol that the          *)
(* generator wrote at fixed offsets or that the frame carried, with IP     *)
(* options too, and although a prepared packet is sent again and again     *)
(* with only part of it rewritten.                                         *)
ParsedAsSent ==
    /\ TypeOK
    /\ \A flow \in InFlight :
         LET sent == wire[flow.packet] IN
         /\ flow.protocol = sent.protocol
         /\ {flow.upper_ip, flow.lower_ip} = {sent.saddr, sent.daddr}
         /\ {flow.upper_port, flow.lower_port} = {sent.sport, sent.dport}

(* The payload of a TCP flow item is the payload sent: the text over and   *)
(* over, whatever its length against the room, or the frame's payload.     *)
(* Behind it lies the padding of a short frame, which payload_len counts   *)
(* in, and none of what the buffer held before.                            *)
PayloadIntact ==
    \A flow \in InFlight :
        flow.protocol = IPPROTO_TCP =>
            [k \in 1..flow.payload_len |-> data[flow.packet][flow.payload + k - 1]]
                = Body(wire[flow.packet])

(* Two packets are filed under one key exactly when they have the same     *)
(* protocol and the same pairs of addresses and of ports, in either        *)
(* direction, and then one manager gets both and looks into one bucket:    *)
(* no conversation has two sessions.                                       *)
OneSessionPerConversation ==
    \A m, n \in Managers : \A i \in DOMAIN flows[m], j \in DOMAIN flows[n] :
        LET a == flows[m][i]
            b == flows[n][j]
            v == wire[a.packet]
            w == wire[b.packet]
            together ==
              /\ v.protocol = w.protocol
              /\ {v.saddr, v.daddr} = {w.saddr, w.daddr}
              /\ {v.sport, v.dport} = {w.sport, w.dport}
            key(flow) == <<flow.protocol, flow.upper_ip, flow.lower_ip, flow.upper_port, flow.lower_port>>
        IN  /\ together <=> key(a) = key(b)
            /\ together => m = n /\ BucketIndex(a) = BucketIndex(b)

(* No parser is ever more than one packet ahead of another parser that the *)
(* same generator feeds.                                                   *)
EvenDispatch == \A p \in Parsers : lead[p] <= 1

(* Every address and every port of a configured range is sent again and    *)
(* again, the two ends and a range across the largest address included.    *)
RangeVisited ==
    mode # "collect" =>
        \A g \in Generators, r \in Ranges : \A v \in Span(r) : []<>(cur[g][r] = v)
=============================================================================
