---------------------------- MODULE MCPeerOwner -----------------------------
(* Model-checking instance of PeerOwner: two interchangeable Macs. *)
EXTENDS PeerOwner, TLC

CONSTANTS a, b

MCMacs == {a, b}

Symmetry == Permutations(MCMacs)
=============================================================================
