---------------------------- MODULE MCWsBroadcast ----------------------------
(* Small instances of WsBroadcast.                                         *)
EXTENDS WsBroadcast, TLC

Symmetry == Permutations(Producer) \cup Permutations(Client)
=============================================================================
