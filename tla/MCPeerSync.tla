----------------------------- MODULE MCPeerSync -----------------------------
(* PeerSync for TLC: two paths, a few versions, and symmetry of the paths. *)
EXTENDS PeerSync, TLC

PathSymmetry == Permutations(Paths)

AllModes == {"both", "push", "pull"}
TwoWay == {"both"}
Either == {TRUE, FALSE}
Propagated == {TRUE}
Fresh == {"fresh"}
Established == {"established"}
AnyProfile == {"fresh", "established"}
NoFaults == {}
PlanGap == {"planGap"}
PullGap == {"pullGap"}
PushGap == {"pushGap"}
MarkCrash == {"markCrash"}

=============================================================================
