------------------------------ MODULE PeerHome ------------------------------
(***************************************************************************)
(* The host paths of `dot peer sync`: peerHomeTrackedSync                  *)
(* (internal/syncer/peer_home_tracked.go), the three-way pass over the     *)
(* paths listed in home-paths-tracked.txt, and peerHomeSync                *)
(* (peer_commands.go), the newest-wins pass over the others.               *)
(*                                                                         *)
(* The classification is PeerReconcile's, on inventories of the listed     *)
(* paths alone.  It differs from the workspace pass (PeerSync) in what it  *)
(* checks again before it acts, and in that rsync here passes over a       *)
(* source that is gone.  The list is the operator's, who may edit it       *)
(* between runs and under one.  A version is the mtime of its file.        *)
(*                                                                         *)
(* The windows that no check closes are faults:                            *)
(*   "pullGap"   a local file is written between its check and its pull    *)
(*   "pushGap"   a peer file is written between its check and its push     *)
(*   "vanish"    the peer deletes a file the run is about to pull          *)
(*   "listRace"  a path is listed after the additive pass read the list    *)
(*   "markCrash" a run stops between the baseline and its target marker    *)
(***************************************************************************)
EXTENDS PeerReconcile

CONSTANTS
    Edited,      \* the paths users write, delete and list in this instance
    MaxVersion,  \* bound on the versions users write
    MaxFails,    \* bound on the runs that stop half-way
    MaxLists,    \* bound on the edits of the list
    Modes,       \* the kinds of runs: subset of {"both", "push", "pull"}
    Policies,    \* the values propagation.delete takes: subset of BOOLEAN
    Profiles,    \* what a run starts from: subset of {"fresh", "established"}
    Faults       \* the windows users hit

ASSUME PeerHomeAssumption ==
    /\ IsFiniteSet(Paths)
    /\ Edited \subseteq Paths
    /\ {MaxDelete, MaxVersion, MaxFails, MaxLists} \subseteq Nat
    /\ Modes \subseteq {"both", "push", "pull"}
    /\ Policies \subseteq BOOLEAN
    /\ Profiles \subseteq {"fresh", "established"}
    /\ Faults \subseteq {"pullGap", "pushGap", "vanish", "listRace", "markCrash"}

VARIABLES
    local, remote,   \* the host paths of the two Macs
    quarantine,      \* payloads under .dot-peer-conflicts, of either Mac
    baseline, ready, \* baseline-home.manifest, and its marker matches
    list,            \* home-paths-tracked.txt
    pc,              \* where the run stands; "idle" when there is none
    run,             \* the run's mode and propagation.delete
    listed,          \* the list as the run last read it
    lsnap, rsnap,    \* the plan's LocalBefore and RemoteBefore
    todo,            \* files the current pass still has to move
    complete,        \* no destructive transition of this run was held back
    fails,           \* runs that stopped half-way
    lists,           \* edits of the list
    newest,          \* the last version a user wrote
    live,            \* <<path, version>> that no user has replaced or deleted
    past,            \* <<path, version>> of a listed path that the verified
                     \* baseline had when a user replaced or deleted it
    userDeleted      \* <<side, path>> of every deletion by a user

trees == <<local, remote, quarantine>>
store == <<baseline, ready>>
planned == <<run, listed, lsnap, rsnap>>
bounds == <<fails, lists, newest>>
history == <<live, past, userDeleted>>
vars == <<trees, store, list, pc, planned, todo, complete, bounds, history>>

Pcs == {"idle", "remote", "check", "pull", "dellocal", "delremote", "revalidate",
        "conflict", "push", "commit", "mark", "additive", "addpull", "addpush"}
Options == [mode : {"both", "push", "pull"}, delete : BOOLEAN]
NoRun == [mode |-> "both", delete |-> TRUE]
Entries == Paths \X (Nat \ {None})

PlanPull == Pull(baseline, lsnap, rsnap)
PlanPush == Push(baseline, lsnap, rsnap)
PlanDeleteLocal == DeleteLocal(baseline, lsnap, rsnap)
PlanDeleteRemote == DeleteRemote(baseline, lsnap, rsnap)
PlanQuarantine == QuarantineRemote(baseline, lsnap, rsnap)
PlanNext == NextBaseline(baseline, lsnap, rsnap)

Init ==
    /\ list \in SUBSET Paths
    /\ \/ /\ "fresh" \in Profiles
          /\ local \in [Paths -> {None, 1}]
          /\ remote \in [Paths -> {None, 1, 2}]
          /\ baseline = NoFiles
          /\ ready = FALSE
       \/ /\ "established" \in Profiles
          /\ local \in [Paths -> {None, 1}]
          /\ remote = local
          /\ baseline = [p \in Paths |-> IF p \in list THEN local[p] ELSE None]
          /\ ready = TRUE
    /\ quarantine = {}
    /\ pc = "idle"
    /\ run = NoRun
    /\ listed = {}
    /\ lsnap = NoFiles
    /\ rsnap = NoFiles
    /\ todo = {}
    /\ complete = TRUE
    /\ fails = 0
    /\ lists = 0
    /\ newest = IF ready THEN 1 ELSE 2
    /\ live = {e \in Paths \X {1, 2} : e[2] \in {local[e[1]], remote[e[1]]}}
    /\ past = {}
    /\ userDeleted = {}

-----------------------------------------------------------------------------
(* The run ends: its plan is gone with its process *)

Forget ==
    /\ pc' = "idle"
    /\ run' = NoRun
    /\ listed' = {}
    /\ lsnap' = NoFiles
    /\ rsnap' = NoFiles
    /\ todo' = {}
    /\ complete' = TRUE

\* An error return, a lost connection or a kill, anywhere in the run.
Fail ==
    /\ pc # "idle"
    /\ pc = "mark" => "markCrash" \in Faults
    /\ fails < MaxFails
    /\ fails' = fails + 1
    /\ Forget
    /\ UNCHANGED <<trees, store, list, lists, newest, history>>

\* A refusal of the run's own: nothing of the store changes.
Refuse == Forget /\ UNCHANGED <<trees, store, list, bounds, history>>

\* On to l with its files; the current pass has none left.
Enter(l, files) ==
    /\ todo = {}
    /\ pc' = l
    /\ todo' = files
    /\ UNCHANGED <<trees, store, list, planned, bounds, history>>

-----------------------------------------------------------------------------
(* planPeerHomeTracked *)

Scoped(t, rels) == [p \in Paths |-> IF p \in rels THEN t[p] ELSE None]

\* The list and the local inventory; with an empty list there is no plan.
PlanLocal(mode, delete) ==
    /\ pc = "idle"
    /\ run' = [mode |-> mode, delete |-> delete]
    /\ listed' = list
    /\ lsnap' = Scoped(local, list)
    /\ pc' = IF list = {} THEN "additive" ELSE "remote"
    /\ UNCHANGED <<trees, store, list, rsnap, todo, complete, bounds, history>>

\* The remote inventory completes the plan, and the safety caps judge it.
PlanRemote ==
    /\ pc = "remote"
    /\ LET r == Scoped(remote, listed) IN
       /\ PlanSafe(baseline, lsnap, r)
       /\ rsnap' = r
       /\ pc' = IF run.mode = "push" THEN "dellocal" ELSE "check"
    /\ UNCHANGED <<trees, store, list, run, listed, lsnap, todo, complete, bounds, history>>

RefusePlan ==
    /\ pc = "remote"
    /\ ~PlanSafe(baseline, lsnap, Scoped(remote, listed))
    /\ Refuse

-----------------------------------------------------------------------------
(* peerHomeTrackedSync *)

\* Mutant: the paths are not looked at again.
LocalStableNever(rels) == TRUE

\* validatePeerHomeLocalStable.
LocalStable(rels) == \A p \in rels : local[p] = lsnap[p]

CheckPull ==
    /\ pc = "check"
    /\ LocalStable(PlanPull)
    /\ UNCHANGED complete
    /\ Enter("pull", PlanPull)

RefusePull ==
    /\ pc = "check"
    /\ ~LocalStable(PlanPull)
    /\ Refuse

\* One file by rsync -a without --update; --ignore-missing-args passes over a
\* source that is gone.
PullFile(p) ==
    /\ pc = "pull"
    /\ p \in todo
    /\ todo' = todo \ {p}
    /\ local' = IF remote[p] = None THEN local ELSE [local EXCEPT ![p] = remote[p]]
    /\ UNCHANGED <<remote, quarantine, store, list, pc, planned, complete, bounds, history>>

DeletesAuthorized == run.delete /\ ready

LocalDeletes == IF DeletesAuthorized THEN PlanDeleteLocal ELSE {}

PullDone ==
    /\ pc = "pull"
    /\ LocalStable(LocalDeletes)
    /\ complete' = (LocalDeletes = PlanDeleteLocal)
    /\ Enter("dellocal", LocalDeletes)

\* deletePeerHomeLocal looks again before each rename into the quarantine.
DeleteLocalFile(p) ==
    /\ pc = "dellocal"
    /\ p \in todo
    /\ LocalStable({p})
    /\ todo' = todo \ {p}
    /\ local' = [local EXCEPT ![p] = None]
    /\ quarantine' = quarantine \cup {<<p, v>> : v \in {local[p]} \ {None}}
    /\ UNCHANGED <<remote, store, list, pc, planned, complete, bounds, history>>

\* A file that is gone by then is passed over.
SkipLocalFile(p) ==
    /\ pc = "dellocal"
    /\ p \in todo
    /\ local[p] = None
    /\ todo' = todo \ {p}
    /\ UNCHANGED <<trees, store, list, pc, planned, complete, bounds, history>>

RefuseDelete ==
    /\ \/ /\ pc = "pull"
          /\ todo = {}
          /\ ~LocalStable(LocalDeletes)
       \/ /\ pc = "dellocal"
          /\ \E p \in todo : local[p] # None /\ ~LocalStable({p})
    /\ Refuse

\* computeHomeTombstones, from the inventory before the pull.
Tombstones == {p \in Held(baseline) \ Held(lsnap) : p \in listed}

DeleteSet == IF DeletesAuthorized THEN Tombstones \cap PlanDeleteRemote ELSE {}

DeleteLocalDone ==
    /\ pc = "dellocal"
    /\ \/ /\ run.mode = "pull"
          /\ UNCHANGED complete
          /\ Enter("commit", {})
       \/ /\ run.mode # "pull"
          /\ complete' = (complete /\ (DeleteSet # {} \/ PlanDeleteRemote = {}))
          /\ Enter("delremote", DeleteSet)

\* propagatePeerHomeDeletes: --delete-missing-args with --backup-dir.
DeleteRemoteFile(p) ==
    /\ pc = "delremote"
    /\ p \in todo
    /\ todo' = todo \ {p}
    /\ remote' = [remote EXCEPT ![p] = None]
    /\ quarantine' = quarantine \cup {<<p, v>> : v \in {remote[p]} \ {None}}
    /\ UNCHANGED <<local, store, list, pc, planned, complete, bounds, history>>

DeleteRemoteDone ==
    /\ pc = "delremote"
    /\ UNCHANGED complete
    /\ Enter("revalidate", {})

\* ValidatePeerPushRemoteStable on a second remote inventory.
RemoteStable == \A p \in PlanPush \ PlanQuarantine : remote[p] = rsnap[p]

Revalidate ==
    /\ pc = "revalidate"
    /\ RemoteStable
    /\ UNCHANGED complete
    /\ Enter("conflict", PlanQuarantine)

RefuseStale ==
    /\ pc = "revalidate"
    /\ ~RemoteStable
    /\ Refuse

\* A file of a push pass, conflicts first and with --backup.
PushFile(p) ==
    /\ pc \in {"conflict", "push"}
    /\ p \in todo
    /\ todo' = todo \ {p}
    /\ IF local[p] \in {None, remote[p]}
       THEN UNCHANGED <<remote, quarantine>>
       ELSE /\ remote' = [remote EXCEPT ![p] = local[p]]
            /\ quarantine' = quarantine \cup
                   {<<p, v>> : v \in IF pc = "conflict" THEN {remote[p]} \ {None} ELSE {}}
    /\ UNCHANGED <<local, store, list, pc, planned, complete, bounds, history>>

ConflictsDone ==
    /\ pc = "conflict"
    /\ UNCHANGED complete
    /\ Enter("push", PlanPush \ PlanQuarantine)

PushDone ==
    /\ pc = "push"
    /\ UNCHANGED complete
    /\ Enter("commit", {})

\* Mutant: a one-way or held run advances the baseline too.
CanCommitAny == TRUE

CanCommit ==
    /\ complete
    /\ run.mode = "both"
    /\ ready \/ (PlanDeleteLocal = {} /\ PlanDeleteRemote = {})

\* commitPeerHomeBaseline, first file: the manifest.
Commit ==
    /\ pc = "commit"
    /\ IF CanCommit
       THEN baseline' = PlanNext /\ pc' = "mark"
       ELSE pc' = "additive" /\ UNCHANGED baseline
    /\ UNCHANGED <<trees, ready, list, planned, todo, complete, bounds, history>>

\* commitPeerHomeBaseline, second file: the target marker.
Mark ==
    /\ pc = "mark"
    /\ ready' = TRUE
    /\ pc' = "additive"
    /\ UNCHANGED <<trees, baseline, list, planned, todo, complete, bounds, history>>

-----------------------------------------------------------------------------
(* peerHomeSync *)

\* Mutant: the additive list keeps the entries the tracked pass owns.
UntrackedAll(tracked) == Paths

\* peerHomeUntrackedList: all that the tracked pass does not own.
Untracked(tracked) == Paths \ tracked

\* The list is read again; the plan is over.
ReadLists ==
    /\ pc = "additive"
    /\ listed' = list
    /\ lsnap' = NoFiles
    /\ rsnap' = NoFiles
    /\ complete' = TRUE
    /\ todo' = Untracked(list)
    /\ pc' = IF run.mode = "push" THEN "addpush" ELSE "addpull"
    /\ UNCHANGED <<trees, store, list, run, bounds, history>>

\* rsync --update: the newer file, deletions never.  Of an unlisted path the
\* older version is meant to go.
AddFile(p) ==
    /\ p \in todo
    /\ todo' = todo \ {p}
    /\ LET new == IF local[p] < remote[p] THEN remote[p] ELSE local[p]
           Outdo(v) == IF p \in list \/ v = new THEN live ELSE live \ {<<p, v>>}
       IN \/ /\ pc = "addpull"
             /\ local' = [local EXCEPT ![p] = new]
             /\ live' = Outdo(local[p])
             /\ UNCHANGED remote
          \/ /\ pc = "addpush"
             /\ remote' = [remote EXCEPT ![p] = new]
             /\ live' = Outdo(remote[p])
             /\ UNCHANGED local
    /\ UNCHANGED <<quarantine, store, list, pc, planned, complete, bounds, past,
                   userDeleted>>

AddPullDone ==
    /\ pc = "addpull"
    /\ run.mode = "both"
    /\ UNCHANGED complete
    /\ Enter("addpush", Untracked(listed))

Finish ==
    /\ todo = {}
    /\ \/ pc = "addpush"
       \/ pc = "addpull" /\ run.mode = "pull"
    /\ Refuse

-----------------------------------------------------------------------------
(* The users of the two Macs, and the operator's list *)

MayWriteLocal(p) == (pc = "pull" /\ p \in todo) => "pullGap" \in Faults

MayWriteRemote(p) ==
    (pc \in {"conflict", "push"} /\ p \in PlanPush \ PlanQuarantine
       /\ (pc = "push" => p \in todo)) => "pushGap" \in Faults

MayRemoveRemote(p) ==
    (p \in PlanPull /\ (pc = "check" \/ (pc = "pull" /\ p \in todo))) => "vanish" \in Faults

MayList(p) == (pc \in {"addpull", "addpush"} /\ p \notin list) => "listRace" \in Faults

\* A path is tracked while it is listed, for a run under way too.
Tracked(p) == p \in list /\ (pc = "idle" \/ p \in listed)

Outdated(p, old) ==
    past' = IF Tracked(p) /\ ready /\ old # None /\ baseline[p] = old
            THEN past \cup {<<p, old>>} ELSE past

Replace(p, old) ==
    /\ newest < MaxVersion
    /\ newest' = newest + 1
    /\ live' = (live \ {<<p, old>>}) \cup {<<p, newest + 1>>}
    /\ Outdated(p, old)
    /\ UNCHANGED <<quarantine, store, list, pc, planned, todo, complete, fails, lists,
                   userDeleted>>

WriteLocal(p) ==
    /\ MayWriteLocal(p)
    /\ local' = [local EXCEPT ![p] = newest + 1]
    /\ Replace(p, local[p])
    /\ UNCHANGED remote

WriteRemote(p) ==
    /\ MayWriteRemote(p)
    /\ remote' = [remote EXCEPT ![p] = newest + 1]
    /\ Replace(p, remote[p])
    /\ UNCHANGED local

Remove(side, p, old) ==
    /\ old # None
    /\ live' = live \ {<<p, old>>}
    /\ Outdated(p, old)
    /\ userDeleted' = userDeleted \cup {<<side, p>>}
    /\ UNCHANGED <<quarantine, store, list, pc, planned, todo, complete, bounds>>

RemoveLocal(p) ==
    /\ local' = [local EXCEPT ![p] = None]
    /\ Remove("local", p, local[p])
    /\ UNCHANGED remote

RemoveRemote(p) ==
    /\ MayRemoveRemote(p)
    /\ remote' = [remote EXCEPT ![p] = None]
    /\ Remove("remote", p, remote[p])
    /\ UNCHANGED local

\* The operator adds a path to the list or takes it off.
EditList(p) ==
    /\ MayList(p)
    /\ lists < MaxLists
    /\ lists' = lists + 1
    /\ list' = IF p \in list THEN list \ {p} ELSE list \cup {p}
    /\ past' = {e \in past : e[1] # p}
    /\ UNCHANGED <<trees, store, pc, planned, todo, complete, fails, newest, live,
                   userDeleted>>

-----------------------------------------------------------------------------

Start == \E mode \in Modes, delete \in Policies : PlanLocal(mode, delete)

MoveFile ==
    \E p \in Paths :
        \/ PullFile(p) \/ DeleteLocalFile(p) \/ SkipLocalFile(p)
        \/ DeleteRemoteFile(p) \/ PushFile(p) \/ AddFile(p)

Proceed ==
    \/ PlanRemote \/ RefusePlan \/ CheckPull \/ RefusePull
    \/ MoveFile \/ RefuseDelete
    \/ PullDone \/ DeleteLocalDone \/ DeleteRemoteDone
    \/ Revalidate \/ RefuseStale \/ ConflictsDone \/ PushDone
    \/ Commit \/ Mark \/ ReadLists \/ AddPullDone \/ Finish

UserActs ==
    \E p \in Edited :
        WriteLocal(p) \/ WriteRemote(p) \/ RemoveLocal(p) \/ RemoveRemote(p)

Next == Start \/ Proceed \/ Fail \/ UserActs \/ \E p \in Edited : EditList(p)

Spec == Init /\ [][Next]_vars

-----------------------------------------------------------------------------
(* Properties *)

TypeOK ==
    /\ {local, remote, baseline, lsnap, rsnap} \subseteq Inventories
    /\ quarantine \subseteq Entries
    /\ ready \in BOOLEAN
    /\ list \subseteq Paths
    /\ pc \in Pcs
    /\ run \in Options
    /\ listed \subseteq Paths
    /\ todo \subseteq Paths
    /\ complete \in BOOLEAN
    /\ fails \in 0..MaxFails
    /\ lists \in 0..MaxLists
    /\ newest \in Nat
    /\ live \cup past \subseteq Entries
    /\ userDeleted \subseteq {"local", "remote"} \X Paths

\* Every version of a tracked path that no user has replaced or deleted since
\* is on one of the Macs or in a quarantine, also when the path joined the
\* list under a run, or the additive pass works between two tracked ones.
NoEditLost ==
    \A e \in live :
        \/ local[e[1]] = e[2]
        \/ remote[e[1]] = e[2]
        \/ e \in quarantine

\* A version the verified baseline of a tracked path had when a user replaced
\* or deleted it is never put on either Mac again, as long as the path stays
\* listed: neither pass brings it back.
RecordedSticks ==
    [][\A p \in Paths :
          /\ local'[p] # local[p] => <<p, local'[p]>> \notin past
          /\ remote'[p] # remote[p] => <<p, remote'[p]>> \notin past]_vars

\* A run takes a file off a Mac only when the path was listed as it planned
\* and some user deleted it: a path the operator unlisted, one the other Mac
\* never had, or a stopped run is not read as a deletion.
DeletionsAreUsers ==
    [][\A p \in Paths :
          /\ (local'[p] = None /\ local[p] # None) =>
                (p \in listed /\ <<"remote", p>> \in userDeleted) \/ RemoveLocal(p)
          /\ (remote'[p] = None /\ remote[p] # None) =>
                \/ /\ p \in listed
                   /\ {<<"local", p>>, <<"remote", p>>} \cap userDeleted # {}
                \/ RemoveRemote(p)]_vars

=============================================================================
