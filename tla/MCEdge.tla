------------------------------- MODULE MCEdge -------------------------------
(* Instances of Edge for TLC.                                               *)
EXTENDS Edge, TLC

Symmetric == Permutations(VMs) \cup Permutations(Slots)

=============================================================================
