----------------------------- MODULE MCPeerHome -----------------------------
(* PeerHome for TLC: two host paths, of which users edit and list the first. *)
EXTENDS PeerHome

CONSTANTS h1, h2

=============================================================================
