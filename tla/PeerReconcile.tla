---------------------------- MODULE PeerReconcile ----------------------------
(***************************************************************************)
(* The three-way classification of `dot peer sync`:                        *)
(* internal/syncer/peer_reconcile.go (PlanPeerReconcile and                *)
(* ValidatePeerPlanSafety) as operators on the baseline b, the local       *)
(* inventory l and the remote inventory r.                                 *)
(*                                                                         *)
(* An inventory is a function from paths to versions; None (0) is an       *)
(* absent file.  Two payloads with the same fingerprint are one version.   *)
(***************************************************************************)
EXTENDS Naturals, FiniteSets

CONSTANTS
    Paths,     \* workspace-relative paths of regular files
    MaxDelete  \* max_delete of the profile; 0 means no cap

None == 0
Inventories == [Paths -> Nat]
NoFiles == [p \in Paths |-> None]
Held(t) == {p \in Paths : t[p] # None}

LocalChanged(b, l) == {p \in Paths : l[p] # b[p]}
RemoteChanged(b, r) == {p \in Paths : r[p] # b[p]}

\* Changed on the peer only: accepted, a deletion included.
Accepted(b, l, r) == RemoteChanged(b, r) \ LocalChanged(b, l)
Pull(b, l, r) == {p \in Accepted(b, l, r) : r[p] # None}
DeleteLocal(b, l, r) == {p \in Accepted(b, l, r) : r[p] = None}

\* Changed here: sent, unless both sides already agree.
Sent(b, l, r) == {p \in LocalChanged(b, l) : l[p] # r[p]}
Push(b, l, r) == {p \in Sent(b, l, r) : l[p] # None}
DeleteRemote(b, l, r) == {p \in Sent(b, l, r) : l[p] = None}

\* Mutant: a payload the peer changed is overwritten like any other.
QuarantineNever(b, l, r) == {}

\* Both changed, both present: the peer's payload is retained once.
QuarantineRemote(b, l, r) ==
    {p \in Push(b, l, r) : p \in RemoteChanged(b, r) /\ r[p] # None}

NextBaseline(b, l, r) ==
    [p \in Paths |-> IF p \in LocalChanged(b, l) THEN l[p] ELSE r[p]]

BaselineCount(b, l, r) == Cardinality(Held(b) \cap (Held(l) \cup Held(r)))

PlanSafe(b, l, r) ==
    LET known == BaselineCount(b, l, r)
        here == Cardinality(Held(l))
        there == Cardinality(Held(r))
        in == Cardinality(DeleteLocal(b, l, r))
        out == Cardinality(DeleteRemote(b, l, r))
    IN /\ ~(known > 0 /\ here > 0 /\ there = 0 /\ in > 0)
       /\ ~(there * 2 < known /\ in * 2 > known)
       /\ ~(here * 2 < known /\ out * 2 > known)
       /\ MaxDelete > 0 => in <= MaxDelete /\ out <= MaxDelete

=============================================================================
