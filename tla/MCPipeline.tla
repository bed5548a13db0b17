---------------------------- MODULE MCPipeline ----------------------------
(* Instances of Pipeline for TLC. *)
EXTENDS Pipeline, TLC

CONSTANTS x1, x2, x3, x4, x5, f1, f2, f3, f4, f5, f6

(* Two generators with three and two packets, three parsers with two flows. *)
TwoGenerators == x1 :> 0 @@ x2 :> 0 @@ x3 :> 0 @@ x4 :> 1 @@ x5 :> 1
ThreeParsers == f1 :> 0 @@ f2 :> 0 @@ f3 :> 1 @@ f4 :> 1 @@ f5 :> 2 @@ f6 :> 2

(* One generator owns every packet; two parsers. *)
OneGenerator == [x \in Packets |-> 0]
TwoParsers == f1 :> 0 @@ f2 :> 0 @@ f3 :> 1 @@ f4 :> 1

(* The items of one pool are interchangeable. *)
Symmetry ==
    {f \in Permutations(Packets) : \A x \in Packets : PacketOf[f[x]] = PacketOf[x]}
      \cup {f \in Permutations(FlowItems) : \A x \in FlowItems : FlowOf[f[x]] = FlowOf[x]}
=============================================================================
