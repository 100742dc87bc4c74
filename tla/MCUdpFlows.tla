----------------------------- MODULE MCUdpFlows -----------------------------
(***************************************************************************)
(* UdpFlows for a search of its states: the loops are interchangeable.     *)
(***************************************************************************)
EXTENDS UdpFlows, TLC

Symmetry == Permutations(Loops)
=============================================================================
