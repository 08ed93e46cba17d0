------------------------------ MODULE PeerSync ------------------------------
(***************************************************************************)
(* The workspace pass of `dot peer sync`: PeerSync in                      *)
(* internal/syncer/peer_commands.go with ComputeTombstones and             *)
(* PropagateDeletes (tombstone.go) and PullPeerPlan, DeletePeerLocal,      *)
(* ValidatePeerPushRemoteStable, PushPeerPlan and CommitPeerBaseline       *)
(* (peer_reconcile.go).                                                    *)
(*                                                                         *)
(* The run owns the run lock, so there is one run; the concurrency is with *)
(* the people (and programs) that write and delete files in either tree    *)
(* while it works.  A step is one inventory, one file moved by rsync or by *)
(* rename, or one file of the store written; a run may stop between any    *)
(* two of them (an error, a lost connection, a kill).                      *)
(*                                                                         *)
(* The windows in which the code acts on a look it took earlier are faults *)
(* a configuration admits or not:                                          *)
(*   "planGap"   a user deletes or re-creates a local file between the     *)
(*               tombstones and the local inventory                        *)
(*   "pullGap"   a user writes a local file between the local inventory    *)
(*               and the pull of that file                                 *)
(*   "pushGap"   a user writes a peer file between the revalidation and    *)
(*               the push of that file                                     *)
(*   "markCrash" a run stops between the baseline and its target marker    *)
(***************************************************************************)
EXTENDS PeerReconcile

CONSTANTS
    MaxVersion,  \* bound on the versions users write
    MaxFails,    \* bound on the runs that stop half-way
    Modes,       \* the kinds of runs: subset of {"both", "push", "pull"}
    Policies,    \* the values propagation.delete takes: subset of BOOLEAN
    Profiles,    \* what a run starts from: subset of {"fresh", "established"}
    Faults       \* the windows users hit

ASSUME PeerSyncAssumption ==
    /\ IsFiniteSet(Paths)
    /\ MaxDelete \in Nat
    /\ MaxVersion \in Nat
    /\ MaxFails \in Nat
    /\ Modes \subseteq {"both", "push", "pull"}
    /\ Policies \subseteq BOOLEAN
    /\ Profiles \subseteq {"fresh", "established"}
    /\ Faults \subseteq {"planGap", "pullGap", "pushGap", "markCrash"}

VARIABLES
    local, remote,   \* the two trees
    quarantine,      \* payloads under .sync-conflicts, of either machine
    baseline, ready, \* the baseline manifest, and its target marker matches
    held,            \* state.yaml's LastHeld is set
    pc,              \* where the run stands; "idle" when there is none
    run,             \* the run's options: mode and propagation.delete
    tombstones,      \* cfg.Tombstones
    lsnap, rsnap,    \* the plan's LocalBefore and RemoteBefore
    todo,            \* files the current pass still has to move
    partial,         \* rsync met a missing source in the current pass
    complete,        \* no destructive transition of this run was held back
    fails,           \* runs that stopped half-way
    newest,          \* the last version a user wrote
    live,            \* <<path, version>> written by a user and never replaced
                     \* or deleted by a user
    dead,            \* <<path, version>> deleted by a user while the
                     \* verified baseline recorded it
    deletions,       \* <<who, path>> of the deletions that stand: "local" and
                     \* "remote" for the users, "run" for a deletion of the peer
                     \* carried out here with no baseline committed since
    grounds          \* those that stood when the run looked

trees == <<local, remote, quarantine>>
store == <<baseline, ready, held>>
planned == <<run, tombstones, lsnap, rsnap, grounds>>
history == <<newest, live, dead, deletions>>
vars == <<trees, store, pc, planned, todo, partial, complete, fails, history>>

Pcs == {"idle", "local", "remote", "pull", "dellocal", "delremote",
        "revalidate", "conflict", "push", "commit", "mark", "stamp"}
Options == [mode : {"both", "push", "pull"}, delete : BOOLEAN]
NoRun == [mode |-> "both", delete |-> TRUE]
Entries == Paths \X (Nat \ {None})

PlanPull == Pull(baseline, lsnap, rsnap)
PlanPush == Push(baseline, lsnap, rsnap)
PlanDeleteLocal == DeleteLocal(baseline, lsnap, rsnap)
PlanDeleteRemote == DeleteRemote(baseline, lsnap, rsnap)
PlanQuarantine == QuarantineRemote(baseline, lsnap, rsnap)
PlanNext == NextBaseline(baseline, lsnap, rsnap)

\* A fresh profile with whatever the two machines hold, or an established one.
Init ==
    /\ \/ /\ "fresh" \in Profiles
          /\ local \in [Paths -> {None, 1}]
          /\ remote \in [Paths -> {None, 1, 2}]
          /\ baseline = NoFiles
          /\ ready = FALSE
          /\ newest = 2
       \/ /\ "established" \in Profiles
          /\ local \in [Paths -> {None, 1}]
          /\ remote = local
          /\ baseline = local
          /\ ready = TRUE
          /\ newest = 1
    /\ quarantine = {}
    /\ held = FALSE
    /\ pc = "idle"
    /\ run = NoRun
    /\ tombstones = {}
    /\ lsnap = NoFiles
    /\ rsnap = NoFiles
    /\ todo = {}
    /\ partial = FALSE
    /\ complete = TRUE
    /\ fails = 0
    /\ live = {e \in Paths \X {1, 2} : e[2] \in {local[e[1]], remote[e[1]]}}
    /\ dead = {}
    /\ deletions = {}
    /\ grounds = {}

-----------------------------------------------------------------------------
(* The run ends: its plan is gone with its process *)

Forget ==
    /\ pc' = "idle"
    /\ run' = NoRun
    /\ tombstones' = {}
    /\ lsnap' = NoFiles
    /\ rsnap' = NoFiles
    /\ grounds' = {}
    /\ todo' = {}
    /\ partial' = FALSE
    /\ complete' = TRUE

\* An error return, a lost connection or a kill, anywhere in the run.
Fail ==
    /\ pc # "idle"
    /\ pc = "mark" => "markCrash" \in Faults
    /\ fails < MaxFails
    /\ fails' = fails + 1
    /\ Forget
    /\ UNCHANGED <<trees, store, history>>

\* A refusal of the run's own: nothing of the store changes.
Refuse == Forget /\ UNCHANGED <<trees, store, fails, history>>

-----------------------------------------------------------------------------
(* Planning *)

Evidence(delete) == IF delete /\ ready THEN Held(baseline) \ Held(local) ELSE {}

\* Owner, lock, reachability and fence passed; then ComputeTombstones.
ComputeTombstones(mode, delete) ==
    /\ pc = "idle"
    /\ run' = [mode |-> mode, delete |-> delete]
    /\ tombstones' = Evidence(delete)
    /\ pc' = "local"
    /\ UNCHANGED <<trees, store, lsnap, rsnap, grounds, todo, partial, complete, fails,
                   history>>

By(who) == {d \in deletions : d[1] \in who}

InventoryLocal ==
    /\ pc = "local"
    /\ lsnap' = local
    /\ grounds' = By({"local", "run"})
    /\ pc' = "remote"
    /\ UNCHANGED <<trees, store, run, tombstones, rsnap, todo, partial, complete,
                   fails, history>>

\* The remote listing completes the plan, and the safety caps judge it.
InventoryRemote ==
    /\ pc = "remote"
    /\ PlanSafe(baseline, lsnap, remote)
    /\ rsnap' = remote
    /\ grounds' = grounds \cup By({"remote"})
    /\ \/ /\ run.mode = "push"
          /\ pc' = "dellocal"
          /\ todo' = {}
       \/ /\ run.mode # "push"
          /\ pc' = "pull"
          /\ todo' = Pull(baseline, lsnap, remote)
    /\ UNCHANGED <<trees, store, run, tombstones, lsnap, partial, complete, fails,
                   history>>

RefusePlan ==
    /\ pc = "remote"
    /\ ~PlanSafe(baseline, lsnap, remote)
    /\ Refuse

-----------------------------------------------------------------------------
(* The passes *)

\* Move on to the pass at l with its files; the current pass has none left.
Enter(l, files) ==
    /\ todo = {}
    /\ ~partial
    /\ pc' = l
    /\ todo' = files
    /\ UNCHANGED <<trees, store, planned, partial, fails, history>>

\* rsync ended with 23 or 24: failOnPartial stops the run.
StopOnPartial ==
    /\ pc \in {"pull", "conflict", "push"}
    /\ todo = {}
    /\ partial
    /\ Refuse

\* A file of the pull: rsync -a without --update, the tombstones excluded.
PullFile(p) ==
    /\ pc = "pull"
    /\ p \in todo
    /\ todo' = todo \ {p}
    /\ partial' = (partial \/ remote[p] = None)
    /\ IF p \in tombstones \/ remote[p] = None
       THEN UNCHANGED <<local, deletions>>
       ELSE /\ local' = [local EXCEPT ![p] = remote[p]]
            /\ deletions' = deletions \ ({"local", "run"} \X {p})
    /\ UNCHANGED <<remote, quarantine, store, pc, planned, complete, fails, newest, live,
                   dead>>

DeletesAuthorized == run.delete /\ ready

PullDone ==
    /\ pc = "pull"
    /\ complete' = (DeletesAuthorized \/ PlanDeleteLocal = {})
    /\ Enter("dellocal", IF DeletesAuthorized THEN PlanDeleteLocal ELSE {})

\* DeletePeerLocal: rename into the local quarantine, whatever is there now.
DeleteLocalFile(p) ==
    /\ pc = "dellocal"
    /\ p \in todo
    /\ todo' = todo \ {p}
    /\ local' = [local EXCEPT ![p] = None]
    /\ quarantine' = quarantine \cup {<<p, v>> : v \in {local[p]} \ {None}}
    /\ deletions' = deletions \cup {<<"run", p>>}
    /\ UNCHANGED <<remote, store, pc, planned, partial, complete, fails, newest, live, dead>>

DeleteSet == IF run.delete THEN tombstones \cap PlanDeleteRemote ELSE {}

\* The owner recheck passed; a pull-only run has no remote side.
DeleteLocalDone ==
    /\ pc = "dellocal"
    /\ \/ /\ run.mode = "pull"
          /\ UNCHANGED complete
          /\ Enter("commit", {})
       \/ /\ run.mode # "pull"
          /\ complete' = (complete /\ (DeleteSet # {} \/ PlanDeleteRemote = {}))
          /\ Enter("delremote", DeleteSet)

\* PropagateDeletes: rsync --delete-missing-args with --backup-dir.
DeleteRemoteFile(p) ==
    /\ pc = "delremote"
    /\ p \in todo
    /\ todo' = todo \ {p}
    /\ remote' = [remote EXCEPT ![p] = None]
    /\ quarantine' = quarantine \cup {<<p, v>> : v \in {remote[p]} \ {None}}
    /\ UNCHANGED <<local, store, pc, planned, partial, complete, fails, history>>

DeleteRemoteDone ==
    /\ pc = "delremote"
    /\ UNCHANGED complete
    /\ Enter("revalidate", {})

\* Mutant: the peer is compared with the baseline, not with the plan.
RemoteStableBaseline == \A p \in PlanPush \ PlanQuarantine : remote[p] = baseline[p]

\* ValidatePeerPushRemoteStable on a second remote inventory.
RemoteStable == \A p \in PlanPush \ PlanQuarantine : remote[p] = rsnap[p]

Revalidate ==
    /\ pc = "revalidate"
    /\ RemoteStable
    /\ UNCHANGED complete
    /\ Enter("conflict", PlanQuarantine)

RefuseStale ==
    /\ pc = "revalidate"
    /\ ~RemoteStable
    /\ Refuse

\* What a push of p overwrites: kept by the conflict pass (--backup) alone.
Overwritten(p) == IF pc = "conflict" THEN {<<p, v>> : v \in {remote[p]} \ {None}} ELSE {}

\* A file of a push pass, conflicts first; the tombstones stay excluded.
PushFile(p) ==
    /\ pc \in {"conflict", "push"}
    /\ p \in todo
    /\ todo' = todo \ {p}
    /\ partial' = (partial \/ (p \notin tombstones /\ local[p] = None))
    /\ IF p \in tombstones \/ local[p] \in {None, remote[p]}
       THEN UNCHANGED <<remote, quarantine, deletions>>
       ELSE /\ remote' = [remote EXCEPT ![p] = local[p]]
            /\ quarantine' = quarantine \cup Overwritten(p)
            /\ deletions' = deletions \ {<<"remote", p>>}
    /\ UNCHANGED <<local, store, pc, planned, complete, fails, newest, live, dead>>

ConflictsDone ==
    /\ pc = "conflict"
    /\ UNCHANGED complete
    /\ Enter("push", PlanPush \ PlanQuarantine)

PushDone ==
    /\ pc = "push"
    /\ UNCHANGED complete
    /\ Enter("commit", {})

-----------------------------------------------------------------------------
(* Publication *)

\* Mutant: a held run advances the baseline too.
CanCommitHeld == run.mode = "both"

\* Mutant: a one-way run advances the baseline too.
CanCommitOneWay == complete

CanCommit ==
    /\ complete
    /\ run.mode = "both"
    /\ ready \/ (PlanDeleteLocal = {} /\ PlanDeleteRemote = {})

Committed == PlanNext

\* CommitPeerBaseline, first file: the manifest.
Commit ==
    /\ pc = "commit"
    /\ IF CanCommit
       THEN baseline' = Committed /\ pc' = "mark" /\ deletions' = By({"local", "remote"})
       ELSE pc' = "stamp" /\ UNCHANGED <<baseline, deletions>>
    /\ UNCHANGED <<trees, ready, held, planned, todo, partial, complete, fails, newest, live,
                   dead>>

\* CommitPeerBaseline, second file: the target marker.
Mark ==
    /\ pc = "mark"
    /\ ready' = TRUE
    /\ pc' = "stamp"
    /\ UNCHANGED <<trees, baseline, held, planned, todo, partial, complete, fails, history>>

\* recordPeerRun.
Stamp ==
    /\ pc = "stamp"
    /\ held' = (~complete \/ (held /\ run.mode # "both"))
    /\ Forget
    /\ UNCHANGED <<trees, baseline, ready, fails, history>>

-----------------------------------------------------------------------------
(* The users of the two machines *)

MayWriteLocal(p) ==
    /\ (pc = "local" /\ p \in tombstones) => "planGap" \in Faults
    /\ (pc = "remote" \/ (pc = "pull" /\ p \in todo)) => "pullGap" \in Faults

MayDeleteLocal(p) == pc = "local" => "planGap" \in Faults

MayWriteRemote(p) ==
    (pc \in {"conflict", "push"} /\ p \in PlanPush \ PlanQuarantine
       /\ (pc = "push" => p \in todo)) => "pushGap" \in Faults

\* A new file or a new content, replacing what that machine holds.
Replace(p, old) ==
    /\ newest < MaxVersion
    /\ newest' = newest + 1
    /\ live' = (live \ {<<p, old>>}) \cup {<<p, newest + 1>>}
    /\ UNCHANGED <<quarantine, store, pc, planned, todo, partial, complete, fails,
                   dead>>

WriteLocal(p) ==
    /\ MayWriteLocal(p)
    /\ local' = [local EXCEPT ![p] = newest + 1]
    /\ Replace(p, local[p])
    /\ deletions' = deletions \ ({"local", "run"} \X {p})
    /\ UNCHANGED remote

WriteRemote(p) ==
    /\ MayWriteRemote(p)
    /\ remote' = [remote EXCEPT ![p] = newest + 1]
    /\ Replace(p, remote[p])
    /\ deletions' = deletions \ {<<"remote", p>>}
    /\ UNCHANGED local

Remove(side, p, old) ==
    /\ old # None
    /\ live' = live \ {<<p, old>>}
    /\ dead' = IF ready /\ baseline[p] = old THEN dead \cup {<<p, old>>} ELSE dead
    /\ deletions' = deletions \cup {<<side, p>>}
    /\ UNCHANGED <<quarantine, store, pc, planned, todo, partial, complete, fails, newest>>

RemoveLocal(p) ==
    /\ MayDeleteLocal(p)
    /\ local' = [local EXCEPT ![p] = None]
    /\ Remove("local", p, local[p])
    /\ UNCHANGED remote

RemoveRemote(p) ==
    /\ remote' = [remote EXCEPT ![p] = None]
    /\ Remove("remote", p, remote[p])
    /\ UNCHANGED local

-----------------------------------------------------------------------------

Start == \E mode \in Modes, delete \in Policies : ComputeTombstones(mode, delete)

MoveFile ==
    \E p \in Paths :
        PullFile(p) \/ DeleteLocalFile(p) \/ DeleteRemoteFile(p) \/ PushFile(p)

Proceed ==
    \/ InventoryLocal \/ InventoryRemote \/ RefusePlan
    \/ MoveFile \/ StopOnPartial
    \/ PullDone \/ DeleteLocalDone \/ DeleteRemoteDone
    \/ Revalidate \/ RefuseStale \/ ConflictsDone \/ PushDone
    \/ Commit \/ Mark \/ Stamp

UserActs ==
    \E p \in Paths :
        WriteLocal(p) \/ WriteRemote(p) \/ RemoveLocal(p) \/ RemoveRemote(p)

Next == Start \/ Proceed \/ Fail \/ UserActs

Spec == Init /\ [][Next]_vars

\* A run that started goes on, and a full run is started again and again:
\* the schedule runs `dot peer sync`, two-way, with the profile's policy.
FairSpec ==
    /\ Spec
    /\ WF_vars(Proceed)
    /\ SF_vars(ComputeTombstones("both", TRUE))

-----------------------------------------------------------------------------
(* Properties *)

TypeOK ==
    /\ local \in Inventories
    /\ remote \in Inventories
    /\ quarantine \subseteq Entries
    /\ baseline \in Inventories
    /\ ready \in BOOLEAN
    /\ held \in BOOLEAN
    /\ pc \in Pcs
    /\ run \in Options
    /\ tombstones \subseteq Paths
    /\ lsnap \in Inventories
    /\ rsnap \in Inventories
    /\ todo \subseteq Paths
    /\ partial \in BOOLEAN
    /\ complete \in BOOLEAN
    /\ fails \in 0..MaxFails
    /\ newest \in Nat
    /\ live \subseteq Entries
    /\ dead \subseteq Entries
    /\ deletions \subseteq {"local", "remote", "run"} \X Paths
    /\ grounds \subseteq {"local", "remote", "run"} \X Paths

\* Every version a user wrote, and no user has replaced or deleted since, is
\* still in one of the trees or in a quarantine: whatever the interleaving of
\* edits on both machines with the passes of runs that may stop anywhere, the
\* plan, the revalidation and the conflict backup never destroy the only copy.
NoEditLost ==
    \A e \in live :
        \/ local[e[1]] = e[2]
        \/ remote[e[1]] = e[2]
        \/ e \in quarantine

\* A file the verified baseline recorded, once a user of either machine
\* deletes it, is never brought back by a run: tombstones are derived again
\* until the peer's copy is gone, and the baseline does not forget them.
DeletionSticks ==
    [][\A p \in Paths :
          /\ local'[p] # local[p] => <<p, local'[p]>> \notin dead
          /\ remote'[p] # remote[p] => <<p, remote'[p]>> \notin dead]_vars

\* A run deletes a file of the coordinator only when the peer's user had deleted
\* that path when the run looked, and a file of the peer only when the
\* coordinator's user had, or a run had carried out such a deletion of the peer
\* and none had committed since.  Who wrote the path again no longer deletes it.
DeletionsAreUsers ==
    [][\A p \in Paths :
          /\ (local'[p] = None /\ local[p] # None) =>
                <<"remote", p>> \in grounds \/ RemoveLocal(p)
          /\ (remote'[p] = None /\ remote[p] # None) =>
                {<<"local", p>>, <<"run", p>>} \cap grounds # {} \/ RemoveRemote(p)]_vars

\* A path that the peer created is not classified as deleted by the coordinator:
\* a run deletes a file of the peer only when the coordinator's user had.
PeerCreationsKept ==
    [][\A p \in Paths :
          (remote'[p] = None /\ remote[p] # None) =>
              <<"local", p>> \in grounds \/ RemoveRemote(p)]_vars

\* The trees a reset or a mass deletion left are for the operator to judge.
Refused == ~PlanSafe(baseline, local, remote)

\* Once the users are quiet, runs bring both trees and the baseline to the
\* same content, with nothing held back, unless the safety caps refuse.
Converges ==
    <>[](Refused \/ (local = remote /\ baseline = local /\ ~held))

=============================================================================
