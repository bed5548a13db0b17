------------------------------- MODULE MCIpc -------------------------------
(* An instance of Ipc for TLC. *)
EXTENDS Ipc, TLC

CONSTANTS c1, c2, g1, g2

MCClients == {c1, c2}
MCGenerators == {g1, g2}
=============================================================================
