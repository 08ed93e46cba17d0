---------------------------- MODULE MCHostMerge ----------------------------
(* HostMerge for TLC: two entries and two values of everything else. *)
EXTENDS HostMerge

CONSTANTS n1, n2

=============================================================================
