---------------------------- MODULE MCMirrorSync ----------------------------
(* MirrorSync for TLC: one plain path and one whose name the mirror cannot *)
(* store, or two plain ones; the policies of a push.                       *)
EXTENDS MirrorSync

CONSTANTS a, o

FullPolicy == [create |-> TRUE, update |-> TRUE, delete |-> TRUE]
DefaultPolicy == [FullPolicy EXCEPT !.delete = FALSE]
FullOnly == {FullPolicy}
NoUpdates == {[FullPolicy EXCEPT !.update = FALSE]}
Both == {FullPolicy, DefaultPolicy}
=============================================================================
