----------------------------- MODULE MCTraffic -----------------------------
EXTENDS Traffic

Letter(c) == WordOf(64 + c)

(* Shorter than the room of ten bytes, as long, and longer. *)
MCTexts == {[i \in 1..n |-> Letter(i)] : n \in {4, 10, 11}}

(* The source addresses pass the largest one, the source ports the largest *)
(* port.                                                                   *)
MCLow == [saddr |-> Bits, daddr |-> WordOf(258), sport |-> WordOf(65535), dport |-> WordOf(80)]
MCExtra == [saddr |-> 1, daddr |-> 2, sport |-> 1, dport |-> 0]

Frame(ihl, doff, protocol, saddr, daddr, sport, dport, size, pad) ==
    [ihl |-> ihl, doff |-> doff, protocol |-> protocol, saddr |-> WordOf(saddr), daddr |-> WordOf(daddr),
     sport |-> WordOf(sport), dport |-> WordOf(dport), payload |-> [i \in 1..size |-> Letter(16 + i)],
     padding |-> [i \in 1..pad |-> WordOf(1)]]

(* A request that fills the packet, its answer with IP options, the same   *)
(* with crossed ports, TCP options and no payload, and a datagram between  *)
(* the same ends; the last three are padded to 60 bytes.                   *)
MCFrames ==
    {Frame(5, 5, IPPROTO_TCP, 70, 9, 3, 5, 10, 0), Frame(6, 5, IPPROTO_TCP, 9, 70, 5, 3, 1, 1),
     Frame(5, 6, IPPROTO_TCP, 70, 9, 5, 3, 0, 2), Frame(5, 5, IPPROTO_UDP, 70, 9, 3, 5, 6, 12)}
=============================================================================
