----------------------------- MODULE MirrorSync -----------------------------
(***************************************************************************)
(* `dot sync push`, `pull`, `intake` and `fetch` between a workspace and a *)
(* folder that a cloud client keeps in step with other machines:           *)
(* PushCommand and PullCommand (internal/syncer/sync_transfer_ops.go),     *)
(* Push and Fetch (sync.go), PullTracked (pull.go), Intake (intake.go) and *)
(* MoveMirrorLeftovers (unsupported_names.go), deciding with MirrorPlan.   *)
(*                                                                         *)
(* One command runs at a time (the sync lock); the user edits the          *)
(* workspace and the cloud client edits, deletes, evicts and downloads     *)
(* files of the mirror while it works.  A step is one plan, one file moved *)
(* by rsync, rsync's deletion pass, or one file of the store written; a    *)
(* pull compares, backs up, copies and hashes a file in a step each.  The  *)
(* command may be killed between any two.                                  *)
(*                                                                         *)
(* A configuration admits or not:                                          *)
(*   "evictedPull"  a pull, a fetch or an intake meets an evicted file     *)
(*   "pullSave"     the user saves a file after the pull has compared it,  *)
(*                  or backed it up, and before the copy truncates it      *)
(*   "pullWrite"    the cloud writes a file between the pull's copy of it  *)
(*                  and the hash the baseline will record                  *)
(***************************************************************************)
EXTENDS MirrorPlan

CONSTANTS
    MaxEdits,    \* bound on the changes the user and the cloud make
    Modes,       \* run modes: subset of {"clean", "force"}; a run the operator
                 \* confirms at the prompt of the manual mode is a forced one
    Policies,    \* propagation policies, one for each behaviour
    Commands,    \* subset of {"push", "pull", "intake", "fetch"}
    Faults       \* the windows that are hit

ASSUME MirrorSyncAssumption ==
    /\ IsFiniteSet(Paths)
    /\ Odd \subseteq Paths
    /\ MaxDelete \in Nat \ {0}
    /\ MaxEdits \in Nat
    /\ Modes \subseteq {"clean", "force"}
    /\ Policies \subseteq Policy
    /\ Commands \subseteq {"push", "pull", "intake", "fetch"}
    /\ Faults \subseteq {"evictedPull", "pullSave", "pullWrite"}

VARIABLES
    local,      \* the workspace
    mirror,     \* the mirrored folder, by the content the cloud holds
    evicted,    \* mirror files whose content is only in the cloud
    kept,       \* <<path, content>> under .sync-conflicts of either tree
    baseline,   \* baseline.manifest
    imports,    \* imports.manifest: what was staged under inbox/gdrive
    policy,     \* the profile's propagation policy
    pc,         \* where the command stands; "idle" when there is none
    mode,       \* its run mode
    doomed,     \* the plan's Deletes
    leftovers,  \* the plan's Leftovers
    flist,      \* the files rsync listed
    todo,       \* files the pass has not reached
    written,    \* files rsync reports as sent
    exit,       \* rsync's exit status: 0, 23, 24, 25 or 12 for any other
    manifest,   \* the manifest the command is about to save
    copying,    \* the file a pull has compared and works on; at most one
    stamped,    \* last_push stands for the latest push
    edits,      \* changes the user and the cloud have made
    newest,     \* the last content written
    live,       \* <<path, content>> written by a user or by the cloud and
                \* not replaced or deleted by its writer
    proof,      \* <<path, content>> that the workspace has held, that was on
                \* the mirror of a path that changed on either side during a
                \* push, or that its plan waived
    touched,    \* paths changed on the mirror by the cloud or a killed push
    busy        \* paths that changed on either side since the plan

trees == <<local, mirror, evicted, kept>>
store == <<baseline, imports, policy>>
planned == <<mode, doomed, leftovers>>
transfer == <<flist, todo, written, exit, manifest, copying>>
marks == <<newest, live, proof, touched, edits>>
history == <<marks, busy>>
vars == <<trees, store, pc, planned, transfer, stamped, history>>

Contents == {None, Empty, Torn} \cup (FirstVersion..(FirstVersion + 1 + MaxEdits))
Entries == Paths \X Contents
PushPcs == {"list", "send", "delete", "refresh", "check", "move", "drop"}
PullPcs == {"pull", "backup", "copy", "hash"}
Pcs == {"idle"} \cup PushPcs \cup PullPcs \cup {"stage"}

Entry(t, S) == {<<p, t[p]>> : p \in S}
Held(t) == {p \in Paths : Has(t, p)}

\* A fresh profile over whatever the two sides hold, or an established one.
Init ==
    /\ \/ /\ local \in [Paths -> {None, FirstVersion}]
          /\ mirror \in [Paths -> {None, FirstVersion + 1}]
          /\ baseline = NoFiles
          /\ touched = {p \in Paths : Has(mirror, p)}
       \/ /\ local \in [Paths -> {None, FirstVersion}]
          /\ mirror = local
          /\ baseline = local
          /\ touched = {}
    /\ evicted = {}
    /\ kept = {}
    /\ imports = NoFiles
    /\ policy \in Policies
    /\ pc = "idle"
    /\ mode = "clean"
    /\ doomed = {}
    /\ leftovers = {}
    /\ flist = {}
    /\ todo = {}
    /\ written = {}
    /\ exit = 0
    /\ manifest = NoFiles
    /\ copying = {}
    /\ stamped = FALSE
    /\ edits = 0
    /\ newest = FirstVersion + 1
    /\ live = Entry(local, Held(local)) \cup Entry(mirror, Held(mirror))
    /\ proof = Entry(local, Held(local))
    /\ busy = {}

-----------------------------------------------------------------------------
(* The command ends: its plan is gone with its process *)

Forget ==
    /\ pc' = "idle"
    /\ mode' = "clean"
    /\ doomed' = {}
    /\ leftovers' = {}
    /\ flist' = {}
    /\ todo' = {}
    /\ written' = {}
    /\ exit' = 0
    /\ manifest' = NoFiles
    /\ copying' = {}
    /\ busy' = {}

-----------------------------------------------------------------------------
(* The user and the cloud client *)

Edit(p) ==
    /\ edits < MaxEdits
    /\ edits' = edits + 1
    /\ busy' = IF pc = "idle" THEN busy ELSE busy \cup {p}

\* A new content replaces what the writer had; a deletion replaces it by none.
Rewrite(t, p) ==
    /\ newest' = newest + 1
    /\ live' = (live \ {<<p, t[p]>>}) \cup {<<p, newest + 1>>}

Remove(t, p) ==
    /\ Has(t, p)
    /\ live' = live \ {<<p, t[p]>>}
    /\ UNCHANGED newest

UserWrite(p) ==
    /\ Rewrite(local, p)
    /\ pc = "copy" /\ p \in copying => "pullSave" \in Faults
    /\ local' = [local EXCEPT ![p] = newest + 1]
    /\ proof' = proof \cup {<<p, newest + 1>>}

UserDelete(p) ==
    /\ Remove(local, p)
    /\ local' = [local EXCEPT ![p] = None]
    /\ UNCHANGED proof

User(p) ==
    /\ Edit(p)
    /\ UserWrite(p) \/ UserDelete(p)
    /\ UNCHANGED <<mirror, evicted, kept, store, pc, planned, transfer,
                   stamped, touched>>

\* The user files a staged document where it came from.
UserAccept(p) ==
    /\ Edit(p)
    /\ Has(imports, p)
    /\ ~Has(local, p)
    /\ local' = [local EXCEPT ![p] = imports[p]]
    /\ proof' = proof \cup Entry(imports, {p})
    /\ UNCHANGED <<mirror, evicted, kept, store, pc, planned, transfer,
                   stamped, newest, live, touched>>

\* The pull copies p apart from the hash of it that the baseline will have.
Apart(p) == p \in copying /\ (pc = "hash" \/ manifest[p] # baseline[p])

CloudWrite(p) ==
    /\ Rewrite(mirror, p)
    /\ Apart(p) => "pullWrite" \in Faults
    /\ mirror' = [mirror EXCEPT ![p] = newest + 1]
    /\ evicted' = evicted \ {p}
    /\ proof' = IF pc \in PushPcs THEN proof \cup {<<p, newest + 1>>} ELSE proof

CloudDelete(p) ==
    /\ Remove(mirror, p)
    /\ mirror' = [mirror EXCEPT ![p] = None]
    /\ evicted' = evicted \ {p}
    /\ UNCHANGED proof

\* A pull does not look for the mark the provider leaves.
Reading == pc \in PullPcs \cup {"stage"}

Evict(p) ==
    /\ Has(mirror, p)
    /\ p \notin evicted
    /\ "evictedPull" \in Faults \/ ~Reading
    /\ evicted' = evicted \cup {p}
    /\ UNCHANGED <<mirror, newest, live, proof>>

Cloud(p) ==
    /\ Edit(p)
    /\ CloudWrite(p) \/ CloudDelete(p) \/ Evict(p)
    /\ touched' = touched \cup {p}
    /\ UNCHANGED <<local, kept, store, pc, planned, transfer, stamped>>

Download(p) ==
    /\ p \in evicted
    /\ evicted' = evicted \ {p}
    /\ UNCHANGED <<local, mirror, kept, store, pc, planned, transfer,
                   stamped, history>>

-----------------------------------------------------------------------------
(* Push *)

PlanConflicts == PushConflicts(baseline, local, mirror, evicted, policy)
PlanChanges == HasChanges(baseline, local, mirror, evicted, policy)

\* Nothing to send: the run is complete.
PushNothing ==
    /\ "push" \in Commands
    /\ pc = "idle"
    /\ ~PlanChanges
    /\ PlanConflicts = {}
    /\ stamped' = TRUE
    /\ UNCHANGED <<trees, store, pc, planned, transfer, history>>

\* A clean push refuses a conflict before anything moves.
PushRefused ==
    /\ "push" \in Commands
    /\ pc = "idle"
    /\ "clean" \in Modes
    /\ PlanConflicts # {}
    /\ stamped' = FALSE
    /\ UNCHANGED <<trees, store, pc, planned, transfer, history>>

\* Files with a twin in the workspace that the operator overrides, or whose
\* content the plan cannot see.
Waived(md) == IF md = "clean" THEN evicted ELSE evicted \cup PlanConflicts

\* The operator accepts conflicts by --mode=force, or at the prompt.
Plan(md) ==
    /\ "push" \in Commands
    /\ pc = "idle"
    /\ PlanChanges \/ PlanConflicts # {}
    /\ md = "clean" => PlanConflicts = {}
    /\ pc' = "list"
    /\ mode' = md
    /\ doomed' = Deletes(baseline, local, mirror, evicted, policy)
    /\ leftovers' = Leftovers(baseline, local, mirror, evicted)
    /\ stamped' = FALSE
    /\ proof' = proof \cup Entry(mirror, Waived(md) \cap Held(local))
    /\ UNCHANGED <<trees, store, transfer, newest, live, touched, edits, busy>>

\* rsync lists the workspace.
List ==
    /\ pc = "list"
    /\ pc' = "send"
    /\ flist' = Held(local) \ Odd
    /\ todo' = Held(local) \ Odd
    /\ UNCHANGED <<trees, store, planned, written, exit, manifest, copying, stamped, history>>

\* rsync's quick check and the policy's --existing and --ignore-existing.
Wanted(p) ==
    IF Has(mirror, p)
    THEN policy.update /\ local[p] # Reads(mirror, evicted, p)
    ELSE policy.create

Skip(p) ==
    /\ Has(local, p)
    /\ ~Wanted(p)
    /\ UNCHANGED <<local, mirror, evicted, kept, written, exit>>

Vanished(p) ==
    /\ ~Has(local, p)
    /\ exit' = IF exit = 0 THEN 24 ELSE exit
    /\ UNCHANGED <<local, mirror, evicted, kept, written>>

NotReceived(p) ==
    /\ Has(local, p)
    /\ Wanted(p)
    /\ exit' = 23
    /\ UNCHANGED <<local, mirror, evicted, kept, written>>

Receive(p, backup) ==
    /\ Has(local, p)
    /\ Wanted(p)
    /\ mirror' = [mirror EXCEPT ![p] = local[p]]
    /\ evicted' = evicted \ {p}
    /\ kept' = kept \cup backup
    /\ written' = written \cup {p}
    /\ UNCHANGED <<local, exit>>

\* Mutant: the push has no --backup.
TransferNoBackup(p) == Receive(p, {})

\* What is overwritten moves under .sync-conflicts of the mirror.
Transfer(p) == Receive(p, Entry(mirror, {p} \cap Held(mirror)))

Send(p) ==
    /\ pc = "send"
    /\ p \in todo
    /\ todo' = todo \ {p}
    /\ Skip(p) \/ Vanished(p) \/ NotReceived(p) \/ Transfer(p)
    /\ UNCHANGED <<store, pc, planned, flist, manifest, copying, stamped, history>>

\* All files were sent, or rsync stopped for an error of its own.
SendEnds ==
    /\ pc = "send"
    /\ \/ /\ todo = {}
          /\ pc' = "delete"
          /\ UNCHANGED exit
       \/ /\ exit' = 12
          /\ pc' = "refresh"
    /\ todo' = {}
    /\ UNCHANGED <<trees, store, planned, flist, written, manifest, copying, stamped, history>>

\* --delete-after: what was not listed goes under .sync-conflicts, at most
\* max_delete of it.  After an error, and under openrsync, nothing goes.
Extra == {p \in Plain : Has(mirror, p) /\ p \notin flist}

DeletePass ==
    /\ pc = "delete"
    /\ pc' = "refresh"
    /\ \E D \in SUBSET Extra :
          /\ \/ D = {}
             \/ policy.delete /\ D = Extra /\ Cardinality(D) <= MaxDelete
             \/ policy.delete /\ Cardinality(D) = MaxDelete
          /\ mirror' = [p \in Paths |-> IF p \in D THEN None ELSE mirror[p]]
          /\ evicted' = evicted \ D
          /\ kept' = kept \cup Entry(mirror, D)
          /\ exit' = IF D # {} /\ D # Extra THEN 25 ELSE exit
    /\ UNCHANGED <<local, store, planned, flist, todo, written, manifest,
                   copying, stamped, history>>

RefreshIf(ran) ==
    /\ pc = "refresh"
    /\ pc' = "check"
    /\ baseline' = IF ran THEN Refreshed(baseline, local, mirror, evicted, written, policy)
                   ELSE baseline
    /\ proof' = proof \cup Entry(mirror, busy)
    /\ UNCHANGED <<trees, imports, policy, planned, transfer, stamped, newest,
                   live, touched, edits, busy>>

\* Mutant: a run that did not exit with 0 is not finalized.
RefreshClean == RefreshIf(exit = 0)

\* Any exit status is finalized; a failure is reported after.
Refresh == RefreshIf(TRUE)

Unapplied == {p \in doomed : ~Has(local, p) /\ Has(mirror, p)}

\* Exit 23 and 24 are downgraded; anything else fails the run.
PushFails ==
    /\ pc = "check"
    /\ exit \in {12, 25} \/ Unapplied # {}
    /\ Forget
    /\ UNCHANGED <<trees, store, stamped, marks>>

\* MoveMirrorLeftovers picks what is still proven and absent here.
Movable == {p \in leftovers : ~Has(local, p) /\ Has(baseline, p)}

CheckPasses ==
    /\ pc = "check"
    /\ exit \notin {12, 25}
    /\ Unapplied = {}
    /\ policy.delete => Cardinality(Movable) <= MaxDelete
    /\ pc' = "move"
    /\ todo' = IF policy.delete THEN Movable ELSE {}
    /\ manifest' = baseline
    /\ UNCHANGED <<trees, store, planned, flist, written, exit, copying, stamped, history>>

Move(p) ==
    /\ pc = "move"
    /\ p \in todo
    /\ Has(mirror, p)
    /\ todo' = todo \ {p}
    /\ mirror' = [mirror EXCEPT ![p] = None]
    /\ evicted' = evicted \ {p}
    /\ kept' = kept \cup {<<p, mirror[p]>>}
    /\ manifest' = [manifest EXCEPT ![p] = None]
    /\ UNCHANGED <<local, store, pc, planned, flist, written, exit, copying,
                   stamped, history>>

PushEnds(complete) ==
    /\ pc = "move"
    /\ todo = {}
    /\ baseline' = manifest
    /\ stamped' = complete
    /\ Forget
    /\ UNCHANGED <<trees, imports, policy, marks>>

\* Mutant: a partial transfer counts as a push.
PushDoneAlways == PushEnds(TRUE)

\* Only a run that sent every file stamps last_push.
PushDone == PushEnds(exit # 23)

\* A file the move cannot take, or too many of them: the run fails.
MoveFails ==
    /\ \/ pc = "move" /\ todo # {}
       \/ pc = "check" /\ exit \notin {12, 25} /\ Unapplied = {} /\ policy.delete
             /\ Cardinality(Movable) > MaxDelete
    /\ baseline' = IF pc = "move" THEN manifest ELSE baseline
    /\ Forget
    /\ UNCHANGED <<trees, imports, policy, stamped, marks>>

-----------------------------------------------------------------------------
(* Pull *)

Readable == "evictedPull" \in Faults \/ evicted = {}

PullPlan(md) ==
    /\ "pull" \in Commands
    /\ pc = "idle"
    /\ Readable
    /\ PullWork(baseline, local, mirror, evicted, policy) # {}
    /\ md = "clean" => PullConflicts(baseline, local, mirror, evicted) = {}
    /\ pc' = "pull"
    /\ mode' = md
    /\ todo' = Held(baseline)
    /\ manifest' = baseline
    /\ UNCHANGED <<trees, store, doomed, leftovers, flist, written, exit,
                   copying, stamped, history>>

\* The mirror's file replaces the workspace's; a forced one keeps the latter.
Overwritten(p) ==
    \/ p \in Restores(baseline, local, mirror, policy)
    \/ p \in Pulls(baseline, local, mirror, evicted)
    \/ p \in PullConflicts(baseline, local, mirror, evicted) /\ mode # "clean"

PullKeep(p) ==
    /\ ~Overwritten(p)
    /\ manifest' = IF p \in Adopts(baseline, local, mirror, evicted)
                   THEN [manifest EXCEPT ![p] = Reads(mirror, evicted, p)] ELSE manifest
    /\ UNCHANGED <<pc, copying>>

PullChange(p) ==
    /\ Overwritten(p)
    /\ pc' = IF p \in PullConflicts(baseline, local, mirror, evicted) THEN "backup" ELSE "copy"
    /\ copying' = {p}
    /\ manifest' = [manifest EXCEPT ![p] = Reads(mirror, evicted, p)]

\* The fingerprints of both sides are compared with the baseline's.
PullCompare(p) ==
    /\ pc = "pull"
    /\ p \in todo
    /\ todo' = todo \ {p}
    /\ PullKeep(p) \/ PullChange(p)
    /\ UNCHANGED <<trees, store, planned, flist, written, exit, stamped, history>>

\* backupLocalBeforePull.
PullBackup(p) ==
    /\ pc = "backup"
    /\ p \in copying
    /\ Has(local, p)
    /\ pc' = "copy"
    /\ kept' = kept \cup {<<p, local[p]>>}
    /\ UNCHANGED <<local, mirror, evicted, store, planned, transfer, stamped, history>>

\* pullCopy.  A file the baseline matched by size and time has no hash yet,
\* unless the pull is a strict one.
PullCopy(p) ==
    /\ pc = "copy"
    /\ p \in copying
    /\ Has(mirror, p)
    /\ local' = [local EXCEPT ![p] = Reads(mirror, evicted, p)]
    /\ proof' = proof \cup {<<p, local'[p]>>}
    /\ \/ pc' = "pull" /\ copying' = {}
       \/ manifest[p] = baseline[p] /\ pc' = "hash" /\ UNCHANGED copying
    /\ UNCHANGED <<mirror, evicted, kept, store, planned, flist, todo, written, exit,
                   manifest, stamped, newest, live, touched, busy, edits>>

\* ensureStrictFingerprint.
PullHash(p) ==
    /\ pc = "hash"
    /\ p \in copying
    /\ Has(mirror, p)
    /\ pc' = "pull"
    /\ copying' = {}
    /\ manifest' = [manifest EXCEPT ![p] = Reads(mirror, evicted, p)]
    /\ UNCHANGED <<trees, store, planned, flist, todo, written, exit, stamped, history>>

\* copyFilePreservingMtime truncates the file before it writes it.
PullTorn(p) ==
    /\ pc = "copy"
    /\ p \in copying
    /\ local' = [local EXCEPT ![p] = Torn]
    /\ proof' = proof \cup {<<p, Torn>>}
    /\ Forget
    /\ UNCHANGED <<mirror, evicted, kept, store, stamped, newest, live, touched, edits>>

PullSave ==
    /\ pc = "pull"
    /\ todo = {}
    /\ baseline' = manifest
    /\ Forget
    /\ UNCHANGED <<trees, imports, policy, stamped, marks>>

-----------------------------------------------------------------------------
(* Intake and fetch *)

IntakePlan ==
    /\ "intake" \in Commands
    /\ pc = "idle"
    /\ Readable
    /\ Staged(baseline, imports, mirror, evicted) # {}
    /\ pc' = "stage"
    /\ todo' = Staged(baseline, imports, mirror, evicted)
    /\ manifest' = [p \in Paths |-> IF p \in todo' THEN Reads(mirror, evicted, p)
                                    ELSE imports[p]]
    /\ UNCHANGED <<trees, store, planned, flist, written, exit, copying, stamped, history>>

\* One rsync copies them to the inbox and the manifest is saved after it.
IntakeSave ==
    /\ pc = "stage"
    /\ todo \subseteq Held(mirror)
    /\ imports' = manifest
    /\ Forget
    /\ UNCHANGED <<trees, baseline, policy, stamped, marks>>

IntakeFails ==
    /\ pc = "stage"
    /\ ~(todo \subseteq Held(mirror))
    /\ Forget
    /\ UNCHANGED <<trees, store, stamped, marks>>

\* rsync --update --backup of one path: only a newer file replaces.
Fetch(p) ==
    /\ "fetch" \in Commands
    /\ pc = "idle"
    /\ Readable
    /\ Has(mirror, p)
    /\ mirror[p] > local[p]
    /\ local[p] # Torn
    /\ local' = [local EXCEPT ![p] = Reads(mirror, evicted, p)]
    /\ kept' = IF Has(local, p) THEN kept \cup {<<p, local[p]>>} ELSE kept
    /\ proof' = proof \cup {<<p, local'[p]>>}
    /\ UNCHANGED <<mirror, evicted, store, pc, planned, transfer, stamped,
                   newest, live, touched, busy, edits>>

-----------------------------------------------------------------------------
\* Killed, interrupted by the user, or a pull that finds a file gone: nothing is
\* finalized.
Kill ==
    /\ pc # "idle"
    /\ touched' = IF pc \in {"send", "delete", "refresh"} THEN touched \cup written
                  ELSE touched
    /\ Forget
    /\ UNCHANGED <<trees, store, stamped, newest, live, proof, edits>>

Outside ==
    \/ \E p \in Paths : User(p) \/ UserAccept(p) \/ Cloud(p) \/ Download(p)

Push ==
    \/ PushNothing \/ PushRefused
    \/ \E md \in Modes : Plan(md)
    \/ List
    \/ \E p \in Paths : Send(p) \/ Move(p)
    \/ SendEnds \/ DeletePass \/ Refresh
    \/ PushFails \/ CheckPasses \/ PushDone \/ MoveFails

Pull ==
    \/ \E md \in Modes : PullPlan(md)
    \/ \E p \in Paths : PullCompare(p) \/ PullBackup(p) \/ PullCopy(p) \/ PullHash(p)
                        \/ PullTorn(p)
    \/ PullSave

Others ==
    \/ IntakePlan \/ IntakeSave \/ IntakeFails
    \/ \E p \in Paths : Fetch(p)
    \/ Kill

Next == Outside \/ Push \/ Pull \/ Others

Spec == Init /\ [][Next]_vars
-----------------------------------------------------------------------------
(* Properties *)

\* No writer of this model leaves an empty file, so only the stub of an
\* evicted one reads as Empty.
Recorded == IF "evictedPull" \in Faults THEN Contents ELSE Contents \ {Empty}

\* Every variable has its type, and no tree or manifest holds an eviction
\* taken for content.
TypeOK ==
    /\ {local, mirror, baseline, imports, manifest} \subseteq [Paths -> Recorded]
    /\ {evicted, doomed, leftovers, flist, todo, written, touched, busy}
          \subseteq SUBSET Paths
    /\ copying \subseteq Paths
    /\ {kept, live, proof} \subseteq SUBSET Entries
    /\ policy \in Policies
    /\ pc \in Pcs
    /\ mode \in {"clean", "force"}
    /\ exit \in {0, 12, 23, 24, 25}
    /\ stamped \in BOOLEAN
    /\ newest \in FirstVersion..(FirstVersion + 1 + MaxEdits)
    /\ edits \in 0..MaxEdits

\* No run of any command destroys content: whatever a user or the cloud wrote
\* and did not itself replace or delete is in the workspace, on the mirror, or in
\* a conflict directory of one of them.
NoContentLost ==
    live \subseteq Entry(local, Paths) \cup Entry(mirror, Paths) \cup kept

\* The same of what the workspace holds: "clean mode aborts, and force mode
\* overwrites local after backing up the local version"
\* (docs/commands/dot_sync_pull.md:15-16), so a pull destroys no local edit.
\* False with "pullSave".
EditsBackedUp ==
    live \cap proof \subseteq Entry(local, Paths) \cup Entry(mirror, Paths) \cup kept

\* The baseline proves something about the workspace: a content it records was
\* once in the workspace, or its path changed on either side while a push ran,
\* or had a twin there when a push found it evicted or was forced over it.
\* Deletions and overwrites of a clean push rest on it.
BaselineProven == Entry(baseline, Held(baseline)) \subseteq proof

\* A clean push replaces or removes a file of the mirror only if its content
\* came from the workspace, arrived since the plan, or was evicted by then.
CleanPushProven ==
    [][mode = "clean" /\ <<pc, todo>> # <<pc, todo>>'
          => \A p \in Held(mirror) :
                mirror'[p] # mirror[p] => <<p, mirror[p]>> \in proof]_vars

\* What a clean plan deletes, the workspace had put on the mirror: "Deleting here
\* is destructive and the baseline cannot prove the path came from local, so
\* this stays a conflict" (push_plan.go:170-172).
DeletesProven ==
    mode = "clean" => Entry(mirror, Held(mirror) \cap (doomed \ busy)) \subseteq proof

\* What a push reports as a conflict goes back to the cloud or to a push that
\* was killed: no run that ends, however it failed, makes the workspace's own
\* files conflict with themselves (#224).
NoSelfConflict == pc = "idle" /\ policy.delete => PlanConflicts \subseteq touched

\* Intake stages what came from the cloud, never a file this workspace pushed
\* and still accounts for.
IntakeNotOwn ==
    pc = "stage" /\ policy.delete => todo \subseteq touched \cup Odd

\* last_push is stamped only when the mirror has every file the policy sends
\* and nothing its plan proved deleted, but for what changed during the run.
StampHonest ==
    [][~stamped /\ stamped' =>
          \A p \in Plain \ busy :
             IF Has(local, p)
             THEN IF Has(mirror, p) THEN policy.update => mirror[p] = local[p]
                                    ELSE ~policy.create
             ELSE p \in doomed => ~Has(mirror, p)]_vars

\* A pull takes a file's content from the cloud: it never makes a workspace
\* file empty because the provider evicted its copy ("`dot` now recognizes
\* cloud placeholders by their provider marker and treats them as evictions",
\* docs/releases/v2.70.8.md:4).
EvictionIsNoEdit ==
    [][\A p \in evicted : local'[p] = Empty => local[p] = Empty]_vars
=============================================================================
