----------------------------- MODULE MirrorPlan -----------------------------
(***************************************************************************)
(* What `dot sync` decides about the files of a workspace and of the       *)
(* folder a cloud client mirrors: PlanPush (internal/syncer/push_plan.go), *)
(* PullTracked (pull.go), Intake and RefreshBaseline (intake.go), as       *)
(* operators on the baseline b, the workspace l, the mirror m and the set  *)
(* e of mirror files the provider has evicted.                             *)
(*                                                                         *)
(* A tree is a function from paths to contents.  Two files with the same   *)
(* fingerprint are one content; reading an evicted file gives Empty.       *)
(***************************************************************************)
EXTENDS Naturals, FiniteSets

CONSTANTS
    Paths,     \* paths of regular files that pass the filters
    Odd,       \* those whose name the provider cannot store: a segment ends
               \* in a space or a period
    MaxDelete  \* max_delete of the profile

None == 0    \* no such file
Empty == 1   \* a file without content
Torn == 2    \* what an interrupted copy leaves
FirstVersion == 3

Policy == [create : BOOLEAN, update : BOOLEAN, delete : BOOLEAN]
Trees == [Paths -> Nat]
NoFiles == [p \in Paths |-> None]
Plain == Paths \ Odd

Has(t, p) == t[p] # None
Reads(m, e, p) == IF p \in e THEN Empty ELSE m[p]

-----------------------------------------------------------------------------
(* PlanPush *)

Creates(l, m, pol) == {p \in Plain : pol.create /\ Has(l, p) /\ ~Has(m, p)}

\* Mirror-only files are deleted when the baseline proves the workspace had
\* put this very content there.
MirrorOnly(l, m) == {p \in Plain : ~Has(l, p) /\ Has(m, p)}
Proven(b, m, e, p) == Has(b, p) /\ b[p] = Reads(m, e, p)

\* Mutant: a deletion needs no proof.
DeletesUnproven(b, l, m, e, pol) == {p \in MirrorOnly(l, m) : pol.delete}

Deletes(b, l, m, e, pol) ==
    {p \in MirrorOnly(l, m) : pol.delete /\ Proven(b, m, e, p)}

\* An empty file whose copy was evicted has nothing to rehydrate, if it is no
\* newer than that copy: contents are numbered in the order of their times.
EmptyTwin(b, l, m, p) == l[p] = Empty /\ b[p] = Empty /\ l[p] <= m[p]

Differing(b, l, m, e) ==
    {p \in Plain : /\ Has(l, p) /\ Has(m, p)
                   /\ IF p \in e THEN ~EmptyTwin(b, l, m, p) ELSE l[p] # m[p]}

\* Only the workspace changed the file; an evicted copy is a derived copy.
Updates(b, l, m, e, pol) ==
    {p \in Differing(b, l, m, e) : pol.update /\ (p \in e \/ b[p] = m[p])}

PushConflicts(b, l, m, e, pol) ==
    ({p \in MirrorOnly(l, m) : pol.delete} \ Deletes(b, l, m, e, pol))
    \cup ({p \in Differing(b, l, m, e) : pol.update} \ Updates(b, l, m, e, pol))

\* Copies pushed before the name filter that the workspace renamed away.
Leftovers(b, l, m, e) ==
    {p \in Odd : ~Has(l, p) /\ Has(m, p) /\ p \notin e /\ Proven(b, m, e, p)}

HasChanges(b, l, m, e, pol) ==
    \/ Creates(l, m, pol) # {}
    \/ Updates(b, l, m, e, pol) # {}
    \/ Deletes(b, l, m, e, pol) # {}
    \/ pol.delete /\ Leftovers(b, l, m, e) # {}

-----------------------------------------------------------------------------
(* RefreshBaseline, after a push that wrote the files w *)

\* Mutant: only files with a local twin stay in the baseline.
CarriedNever(b, m, e, p) == None

\* The entry stays while every copy still matches it.
Carried(b, m, e, p) == IF p \notin e /\ b[p] = m[p] THEN b[p] ELSE None

OddEntry(b, l, m, e, pol, p) ==
    IF Has(l, p) THEN IF l[p] = b[p] THEN Carried(b, m, e, p) ELSE None
    ELSE IF pol.delete THEN Carried(b, m, e, p) ELSE None

\* Mutant: a mirror-only file enters the baseline.
PlainEntryAnew(b, l, m, e, w, pol, p) == IF p \in e THEN b[p] ELSE m[p]

PlainEntry(b, l, m, e, w, pol, p) ==
    IF ~Has(l, p) /\ p \notin w
    THEN IF pol.delete THEN Carried(b, m, e, p) ELSE None
    ELSE IF p \in e THEN b[p] ELSE m[p]

Refreshed(b, l, m, e, w, pol) ==
    [p \in Paths |-> IF ~Has(m, p) THEN None
                     ELSE IF p \in Odd THEN OddEntry(b, l, m, e, pol, p)
                     ELSE PlainEntry(b, l, m, e, w, pol, p)]

-----------------------------------------------------------------------------
(* PullTracked *)

Tracked(b, m) == {p \in Paths : Has(b, p) /\ Has(m, p)}
MirrorChanged(b, m, e) == {p \in Tracked(b, m) : Reads(m, e, p) # b[p]}

\* A name the push never sends that the workspace renamed away stays away.
Restores(b, l, m, pol) ==
    {p \in Tracked(b, m) : ~Has(l, p) /\ ~(pol.delete /\ p \in Odd)}

Pulls(b, l, m, e) == {p \in MirrorChanged(b, m, e) : l[p] = b[p]}

BothChanged(b, l, m, e) ==
    {p \in MirrorChanged(b, m, e) : Has(l, p) /\ l[p] # b[p]}
Adopts(b, l, m, e) ==
    {p \in BothChanged(b, l, m, e) : l[p] = Reads(m, e, p)}
PullConflicts(b, l, m, e) == BothChanged(b, l, m, e) \ Adopts(b, l, m, e)

Tombstones(b, m) == {p \in Paths : Has(b, p) /\ ~Has(m, p)}

PullWork(b, l, m, e, pol) ==
    Restores(b, l, m, pol) \cup Pulls(b, l, m, e) \cup Tombstones(b, m)
        \cup PullConflicts(b, l, m, e)

-----------------------------------------------------------------------------
(* Intake: cloud files the baseline does not know, in a content not staged
   before *)
Staged(b, imports, m, e) ==
    {p \in Paths : Has(m, p) /\ ~Has(b, p) /\ imports[p] # Reads(m, e, p)}
=============================================================================
