-------------------------- MODULE HostPathsProofs --------------------------
(***************************************************************************)
(* Proofs about the host paths of `dot peer sync`: the tracked and the     *)
(* additive pass (PeerHome) and the merged host files (HostMerge), for any *)
(* number of paths, versions, entries and failed runs.  The two modules    *)
(* are independent state machines.                                         *)
(*                                                                         *)
(* Edits.  The argument is IInv.  What the baseline records of a path is   *)
(* on both Macs or nobody's any more (BaselineKept), so a difference from  *)
(* it is a user's change; what the plan saw stays there or is nobody's any *)
(* more (LocalLook, RemoteLook), so what a pull, a deletion or a push      *)
(* overwrites is on the other Mac, in a quarantine or nobody's.  At the    *)
(* commit every pull and push has arrived (Pulled, Pushed), which gives    *)
(* BaselineKept of the new baseline.                                       *)
(*                                                                         *)
(* Deletions.  The argument is DInv.  A version of the past is on no Mac   *)
(* unless the baseline still records it (PastKept), so a pass that brings  *)
(* a version the baseline does not record revives none; a path the         *)
(* baseline records and a Mac lacks was deleted by a user (Missing), and   *)
(* so was one that the plan's inventories lack (Looked).  The parts about  *)
(* the passes carry both over the commit.                                  *)
(*                                                                         *)
(* Merges.  The argument is MergeInv: after the second look at both copies *)
(* the result has the entries of each (Checked), and from the write on a   *)
(* copy is the result or somebody saved it since (Spread).                 *)
(***************************************************************************)
EXTENDS PeerHome, HostMerge, TLAPS

-----------------------------------------------------------------------------
(* The tracked and the additive pass: nobody's edit is lost *)

\* Users write no file between the check and the move of it, and the operator
\* lists no path under the additive pass.
Attentive == Faults \cap {"pullGap", "pushGap", "listRace"} = {}

\* The places of a tracked pass that hold its plan's two inventories.
Planning == {"remote", "check", "pull", "dellocal", "delremote", "revalidate",
             "conflict", "push", "commit"}
Looking == Planning \ {"remote"}

\* Version v of p is nobody's any more, or kept in a quarantine.
Gone(p, v) == v = None \/ <<p, v>> \notin live \/ <<p, v>> \in quarantine
\* Both Macs have v.
Both(p, v) == local[p] = v /\ remote[p] = v

\* No version anywhere is newer than the last one written.
Fresh ==
    /\ \A p \in Paths :
         /\ local[p] <= newest /\ remote[p] <= newest /\ baseline[p] <= newest
         /\ lsnap[p] <= newest /\ rsnap[p] <= newest
    /\ \A e \in live : e[2] <= newest

\* Before its first pass a run has nothing to move; the additive pass works
\* off the list.
Apart ==
    /\ pc \in {"idle", "remote", "check"} => todo = {}
    /\ pc \in {"addpull", "addpush"} => list \subseteq listed /\ todo \cap listed = {}

\* NoEditLost, path by path.
Kept(p) == \A v \in Nat : Gone(p, v) \/ local[p] = v \/ remote[p] = v

\* What the baseline records is nobody's any more, or both Macs have it: a
\* change seen against it is a user's change.
BaselineKept(p) == Gone(p, baseline[p]) \/ Both(p, baseline[p])

\* The plan knows nothing of a path outside the list.
Unlisted(p) ==
    p \notin listed => /\ pc \in Planning => lsnap[p] = None
                       /\ pc \in Looking => rsnap[p] = None

\* What the first inventory says: what it saw here is still here or nobody's
\* any more, and a change it saw is a change.  Until the file is pulled over,
\* nothing else is here.
LocalLook(p) ==
    (pc \in Planning /\ p \in listed) =>
        /\ Gone(p, lsnap[p]) \/ local[p] = lsnap[p]
        /\ lsnap[p] # baseline[p] => Gone(p, baseline[p])
        /\ (pc = "pull" /\ p \in todo) => local[p] \in {lsnap[p], None}

\* The same of the second inventory, and of the files about to be pushed over
\* without a backup.
RemoteLook(p) ==
    (pc \in Looking /\ p \in listed) =>
        /\ Gone(p, rsnap[p]) \/ remote[p] = rsnap[p]
        /\ rsnap[p] # baseline[p] => Gone(p, baseline[p])
        /\ (p \in PlanPush \ PlanQuarantine /\ (pc = "conflict" \/ (pc = "push" /\ p \in todo)))
              => remote[p] \in {rsnap[p], None}

\* A pass moves files of its own part of the plan.
Scope(p) ==
    p \in todo =>
        /\ pc = "pull" => p \in PlanPull
        /\ pc = "dellocal" => p \in PlanDeleteLocal
        /\ pc = "delremote" => p \in PlanDeleteRemote /\ baseline[p] # None
        /\ pc = "conflict" => p \in PlanQuarantine
        /\ pc = "push" => p \in PlanPush \ PlanQuarantine

\* A file that was to be pulled has arrived, or is nobody's any more.
Pulled(p) ==
    (/\ p \in PlanPull
     /\ run.mode # "push"
     /\ pc \in Looking \ {"check"}
     /\ pc = "pull" => p \notin todo)
    => Gone(p, rsnap[p]) \/ Both(p, rsnap[p])

\* A file that was to be pushed has arrived, or is nobody's any more.
Pushed(p) ==
    (/\ p \in PlanPush
     /\ run.mode # "pull"
     /\ \/ pc = "commit"
        \/ pc = "push" /\ p \notin todo
        \/ pc = "conflict" /\ p \in PlanQuarantine \ todo)
    => Gone(p, lsnap[p]) \/ Both(p, lsnap[p])

\* All of it for one path: no path's part mentions another path.
PathInv(p) ==
    /\ Kept(p) /\ BaselineKept(p) /\ Unlisted(p) /\ LocalLook(p) /\ RemoteLook(p)
    /\ Scope(p) /\ Pulled(p) /\ Pushed(p)

IInv == TypeOK /\ Fresh /\ Apart /\ \A p \in Paths : PathInv(p)

-----------------------------------------------------------------------------

\* The plan, path by path.
LEMMA PlanFacts ==
  ASSUME NEW p \in Paths
  PROVE  /\ p \in PlanPull <=>
               lsnap[p] = baseline[p] /\ rsnap[p] # baseline[p] /\ rsnap[p] # None
         /\ p \in PlanPush <=>
               lsnap[p] # baseline[p] /\ lsnap[p] # rsnap[p] /\ lsnap[p] # None
         /\ p \in PlanQuarantine <=>
               p \in PlanPush /\ rsnap[p] # baseline[p] /\ rsnap[p] # None
         /\ p \in PlanDeleteLocal <=>
               lsnap[p] = baseline[p] /\ rsnap[p] # baseline[p] /\ rsnap[p] = None
         /\ p \in PlanDeleteRemote <=>
               lsnap[p] # baseline[p] /\ lsnap[p] # rsnap[p] /\ lsnap[p] = None
         /\ PlanNext[p] = IF lsnap[p] # baseline[p] THEN lsnap[p] ELSE rsnap[p]
  BY DEF PlanPull, PlanPush, PlanQuarantine, PlanDeleteLocal, PlanDeleteRemote, PlanNext,
         Pull, Push, QuarantineRemote, DeleteLocal, DeleteRemote, NextBaseline,
         Accepted, Sent, LocalChanged, RemoteChanged

\* The plan of a path, before and after a step.
LEMMA PlanBoth ==
  \A p \in Paths :
    /\ p \in PlanPull <=>
        lsnap[p] = baseline[p] /\ rsnap[p] # baseline[p] /\ rsnap[p] # None
    /\ p \in PlanPush <=>
        lsnap[p] # baseline[p] /\ lsnap[p] # rsnap[p] /\ lsnap[p] # None
    /\ p \in PlanQuarantine <=>
        p \in PlanPush /\ rsnap[p] # baseline[p] /\ rsnap[p] # None
    /\ p \in PlanDeleteLocal <=>
        lsnap[p] = baseline[p] /\ rsnap[p] # baseline[p] /\ rsnap[p] = None
    /\ p \in PlanDeleteRemote <=>
        lsnap[p] # baseline[p] /\ lsnap[p] # rsnap[p] /\ lsnap[p] = None
    /\ p \in PlanPull' <=>
        lsnap'[p] = baseline'[p] /\ rsnap'[p] # baseline'[p] /\ rsnap'[p] # None
    /\ p \in PlanPush' <=>
        lsnap'[p] # baseline'[p] /\ lsnap'[p] # rsnap'[p] /\ lsnap'[p] # None
    /\ p \in PlanQuarantine' <=>
        p \in PlanPush' /\ rsnap'[p] # baseline'[p] /\ rsnap'[p] # None
    /\ p \in PlanDeleteLocal' <=>
        lsnap'[p] = baseline'[p] /\ rsnap'[p] # baseline'[p] /\ rsnap'[p] = None
    /\ p \in PlanDeleteRemote' <=>
        lsnap'[p] # baseline'[p] /\ lsnap'[p] # rsnap'[p] /\ lsnap'[p] = None
  BY DEF PlanPull, PlanPush, PlanQuarantine, PlanDeleteLocal, PlanDeleteRemote, Pull, Push,
         QuarantineRemote, DeleteLocal, DeleteRemote, Accepted, Sent, LocalChanged, RemoteChanged

\* The initial states of both profiles are well typed.
LEMMA HomeTypesInit == Init => TypeOK
<1> SUFFICES ASSUME Init PROVE TypeOK
  OBVIOUS
<1> USE DEF Init, Inventories, NoFiles, None, NoRun
<1>1. {local, remote, baseline} \subseteq Inventories /\ ready \in BOOLEAN
  <2>1. CASE /\ local \in [Paths -> {None, 1}] /\ remote \in [Paths -> {None, 1, 2}]
             /\ baseline = NoFiles /\ ready = FALSE
    <3>1. local \in Inventories /\ remote \in Inventories
      BY <2>1
    <3>2. NoFiles \in Inventories
      OBVIOUS
    <3> QED
      BY <2>1, <3>1, <3>2
  <2>2. CASE /\ local \in [Paths -> {None, 1}] /\ remote = local /\ ready = TRUE
             /\ baseline = [p \in Paths |-> IF p \in list THEN local[p] ELSE None]
    BY <2>2
  <2> QED
    BY <2>1, <2>2
<1>2. live \cup past \subseteq Entries
  BY DEF Entries
<1>3. fails \in 0..MaxFails /\ lists \in 0..MaxLists
  BY PeerHomeAssumption
<1> QED
  BY <1>1, <1>2, <1>3 DEF TypeOK, Pcs, Options, Entries

\* Every step keeps the types: one step per action.
LEMMA HomeTypesStep == TypeOK /\ [Next]_vars => TypeOK'
<1> SUFFICES ASSUME TypeOK, [Next]_vars PROVE TypeOK'
  OBVIOUS
<1> USE DEF TypeOK, Inventories, NoFiles, None, Pcs, Options, NoRun, Entries, Forget
<1>1. ASSUME Start PROVE TypeOK'
  BY <1>1, PeerHomeAssumption DEF Start, PlanLocal, Scoped, trees, store, bounds, history
<1>2. ASSUME PlanRemote PROVE TypeOK'
  BY <1>2 DEF PlanRemote, Scoped, trees, store, bounds, history
<1>3. ASSUME Refuse \/ Fail PROVE TypeOK'
  <2>1. /\ Forget /\ UNCHANGED <<trees, store, list, lists, newest, history>>
        /\ fails' \in 0..MaxFails
    BY <1>3, PeerHomeAssumption DEF Refuse, Fail, bounds
  <2> QED
    BY <2>1 DEF trees, store, history
<1>4. ASSUME RefusePlan \/ RefusePull \/ RefuseDelete \/ RefuseStale \/ Finish PROVE TypeOK'
  BY <1>3, <1>4 DEF RefusePlan, RefusePull, RefuseDelete, RefuseStale, Finish
<1>5. ASSUME NEW p \in Paths, PullFile(p) PROVE TypeOK'
  BY <1>5 DEF PullFile, store, history, planned, bounds
<1>6. ASSUME NEW p \in Paths, DeleteLocalFile(p) \/ SkipLocalFile(p) PROVE TypeOK'
  BY <1>6 DEF DeleteLocalFile, SkipLocalFile, trees, store, history, planned, bounds
<1>7. ASSUME NEW p \in Paths, DeleteRemoteFile(p) PROVE TypeOK'
  BY <1>7 DEF DeleteRemoteFile, store, history, planned, bounds
<1>8. ASSUME NEW p \in Paths, PushFile(p) PROVE TypeOK'
  BY <1>8 DEF PushFile, store, history, planned, bounds
<1>9. ASSUME NEW p \in Paths, AddFile(p) PROVE TypeOK'
  BY <1>9 DEF AddFile, store, planned, bounds
<1>10. ASSUME NEW l \in Pcs, NEW files \in SUBSET Paths, Enter(l, files), complete' \in BOOLEAN
       PROVE  TypeOK'
  BY <1>10 DEF Enter, trees, store, history, planned, bounds
<1>11. /\ PlanPull \in SUBSET Paths /\ LocalDeletes \in SUBSET Paths /\ DeleteSet \in SUBSET Paths
       /\ PlanQuarantine \in SUBSET Paths /\ PlanPush \in SUBSET Paths
       /\ Untracked(listed) \in SUBSET Paths
  BY DEF PlanPull, PlanDeleteLocal, LocalDeletes, DeleteSet, Tombstones, PlanQuarantine,
     PlanPush, Pull,
     DeleteLocal, Accepted, RemoteChanged, QuarantineRemote, Push, Sent, LocalChanged, Held,
     Untracked
<1>12. ASSUME CheckPull PROVE TypeOK'
  BY <1>10, <1>11, <1>12 DEF CheckPull
<1>13. ASSUME PullDone PROVE TypeOK'
  BY <1>10, <1>11, <1>13 DEF PullDone
<1>14. ASSUME DeleteLocalDone PROVE TypeOK'
  BY <1>10, <1>11, <1>14 DEF DeleteLocalDone
<1>15. ASSUME DeleteRemoteDone \/ Revalidate \/ ConflictsDone \/ PushDone \/ AddPullDone
       PROVE  TypeOK'
  BY <1>10, <1>11, <1>15 DEF DeleteRemoteDone, Revalidate, ConflictsDone, PushDone, AddPullDone
<1>16. ASSUME Commit PROVE TypeOK'
  <2>1. PlanNext \in Inventories
    BY DEF PlanNext, NextBaseline
  <2> QED
    BY <1>16, <2>1 DEF Commit, trees, history, planned, bounds
<1>17. ASSUME Mark \/ ReadLists PROVE TypeOK'
  <2>1. CASE Mark
    BY <2>1 DEF Mark, trees, history, planned, bounds
  <2>2. CASE ReadLists
    BY <2>2 DEF ReadLists, Untracked, trees, store, history, bounds
  <2> QED
    BY <1>17, <2>1, <2>2
<1>18. ASSUME UserActs PROVE TypeOK'
  BY <1>18, PeerHomeAssumption
     DEF UserActs, WriteLocal, WriteRemote, Replace, RemoveLocal, RemoveRemote, Remove,
     Outdated,
     store, planned, bounds
<1>19. ASSUME NEW p \in Edited, EditList(p) PROVE TypeOK'
  <2>1. lists' \in 0..MaxLists /\ list' \subseteq Paths /\ past' \subseteq past
    BY <1>19, PeerHomeAssumption DEF EditList
  <2> QED
    BY <1>19, <2>1 DEF EditList, trees, store, planned
<1>20. CASE UNCHANGED vars
  BY <1>20 DEF vars, trees, store, planned, bounds, history
<1> QED
  BY <1>1, <1>2, <1>3, <1>4, <1>5, <1>6, <1>7, <1>8, <1>9, <1>12, <1>13, <1>14, <1>15, <1>16,
     <1>17, <1>18,
     <1>19, <1>20
     DEF Next, Proceed, MoveFile

\* Every variable of the host-path passes has its type, whatever the users, the
\* operator and the faults do.
THEOREM HomeTypes == Spec => []TypeOK
  BY HomeTypesInit, HomeTypesStep, PTL DEF Spec

-----------------------------------------------------------------------------

\* In the initial states nothing is planned, and the baseline is empty or what
\* both Macs have.
LEMMA IInvInit == Init => Fresh /\ Apart /\ \A p \in Paths : PathInv(p)
<1> SUFFICES ASSUME Init PROVE Fresh /\ Apart /\ \A p \in Paths : PathInv(p)
  OBVIOUS
<1>1. TypeOK
  BY HomeTypesInit
<1>2. Fresh /\ Apart
  BY <1>1 DEF Init, Fresh, Apart, NoFiles, None
<1>3. ASSUME NEW p \in Paths PROVE PathInv(p)
  <2>1. Kept(p)
    BY <1>1 DEF Kept, Gone, Init, None
  <2>2. BaselineKept(p)
    BY <1>1 DEF BaselineKept, Both, Gone, Init, NoFiles
  <2> QED
    BY <2>1, <2>2 DEF Init, PathInv, Unlisted, LocalLook, RemoteLook, Scope, Pulled, Pushed,
                      Planning, Looking
<1> QED
  BY <1>2, <1>3

\* A refusal and a failure: the trees, the store and the users' history stay.
LEMMA Refusals ==
  ASSUME RefusePlan \/ RefusePull \/ RefuseDelete \/ RefuseStale \/ Finish \/ Fail
  PROVE  Forget /\ UNCHANGED <<trees, store, list, newest, history>>
  BY DEF RefusePlan, RefusePull, RefuseDelete, RefuseStale, Finish, Fail, Refuse, bounds

\* The steps from one pass to the next.
LEMMA PassSteps ==
  ASSUME \/ CheckPull \/ PullDone \/ DeleteLocalDone \/ DeleteRemoteDone \/ Revalidate
         \/ ConflictsDone \/ PushDone \/ AddPullDone
  PROVE  UNCHANGED <<trees, store, list, planned, bounds, history>>
  BY DEF CheckPull, PullDone, DeleteLocalDone, DeleteRemoteDone, Revalidate, ConflictsDone,
         PushDone, AddPullDone, Enter

\* No version is newer than the counter, and no step makes one that is.
LEMMA FreshStep == TypeOK /\ Fresh /\ [Next]_vars => Fresh'
<1> SUFFICES ASSUME TypeOK, Fresh, [Next]_vars PROVE Fresh'
  OBVIOUS
<1> USE DEF TypeOK, Inventories, Fresh
<1>1. CASE Start \/ PlanRemote
  BY <1>1 DEF Start, PlanLocal, PlanRemote, Scoped, trees, store, bounds, history, None
<1>2. ASSUME NEW q \in Paths,
             PullFile(q) \/ DeleteLocalFile(q) \/ SkipLocalFile(q)
             \/ DeleteRemoteFile(q) \/ PushFile(q)
      PROVE  Fresh'
  BY <1>2 DEF PullFile, DeleteLocalFile, SkipLocalFile, DeleteRemoteFile, PushFile, trees, store,
     history, planned, bounds, None
<1>3. ASSUME NEW q \in Paths, AddFile(q) PROVE Fresh'
  <2>1. live' \subseteq live
    BY <1>3 DEF AddFile
  <2> QED
    BY <1>3, <2>1 DEF AddFile, store, planned, bounds
<1>4. CASE \/ CheckPull \/ PullDone \/ DeleteLocalDone \/ DeleteRemoteDone \/ Revalidate
           \/ ConflictsDone \/ PushDone \/ AddPullDone
  BY <1>4, PassSteps DEF trees, store, planned, bounds, history
<1>5. CASE Commit
  <2>1. \A p \in Paths : PlanNext[p] = IF lsnap[p] # baseline[p] THEN lsnap[p] ELSE rsnap[p]
    BY PlanFacts
  <2> QED
    BY <1>5, <2>1 DEF Commit, trees, history, planned, bounds
<1>6. CASE Mark \/ ReadLists
  BY <1>6 DEF Mark, ReadLists, NoFiles, None, trees, store, planned, history, bounds
<1>7. ASSUME NEW q \in Paths, WriteLocal(q) \/ WriteRemote(q) PROVE Fresh'
  <2>1. /\ newest' = newest + 1
        /\ \A e \in live' : e \in live \/ e = <<q, newest + 1>>
        /\ UNCHANGED <<baseline, lsnap, rsnap>>
        /\ \/ local' = [local EXCEPT ![q] = newest + 1] /\ remote' = remote
           \/ remote' = [remote EXCEPT ![q] = newest + 1] /\ local' = local
    BY <1>7 DEF WriteLocal, WriteRemote, Replace, store, planned
  <2>2. \A e \in live' : e[2] <= newest'
    BY <2>1 DEF Entries
  <2> QED
    BY <2>1, <2>2
<1>8. ASSUME NEW q \in Paths, RemoveLocal(q) \/ RemoveRemote(q) PROVE Fresh'
  BY <1>8 DEF RemoveLocal, RemoveRemote, Remove, store, planned, bounds, None
<1>9. ASSUME NEW q \in Paths, EditList(q) PROVE Fresh'
  BY <1>9 DEF EditList, trees, store, planned
<1>10. CASE RefusePlan \/ RefusePull \/ RefuseDelete \/ RefuseStale \/ Finish \/ Fail
  <2>1. Forget /\ UNCHANGED <<trees, store, list, newest, history>>
    BY <1>10, Refusals
  <2> QED
    BY <2>1 DEF Forget, NoFiles, None, trees, store, history
<1>11. CASE UNCHANGED vars
  BY <1>11 DEF vars, trees, store, planned, bounds, history
<1> QED
  BY <1>1, <1>2, <1>3, <1>4, <1>5, <1>6, <1>7, <1>8, <1>9, <1>10, <1>11, PeerHomeAssumption
     DEF Next, Proceed, MoveFile, UserActs

\* Nobody lists a path under the additive pass.
LEMMA ApartStep == "listRace" \notin Faults /\ TypeOK /\ Apart /\ [Next]_vars => Apart'
<1> SUFFICES ASSUME "listRace" \notin Faults, TypeOK, Apart, [Next]_vars PROVE Apart'
  OBVIOUS
<1> USE DEF Apart
<1>1. CASE Start \/ PlanRemote \/ Commit \/ Mark
  BY <1>1 DEF Start, PlanLocal, PlanRemote, Commit, Mark, planned
<1>2. ASSUME NEW q \in Paths,
             PullFile(q) \/ DeleteLocalFile(q) \/ SkipLocalFile(q) \/ DeleteRemoteFile(q)
             \/ PushFile(q) \/ AddFile(q)
      PROVE  Apart'
  BY <1>2 DEF PullFile, DeleteLocalFile, SkipLocalFile, DeleteRemoteFile, PushFile, AddFile, planned
<1>3. CASE CheckPull \/ PullDone \/ DeleteLocalDone \/ DeleteRemoteDone \/ Revalidate
           \/ ConflictsDone \/ PushDone
  BY <1>3 DEF CheckPull, PullDone, DeleteLocalDone, DeleteRemoteDone, Revalidate, ConflictsDone,
     PushDone, Enter
<1>4. CASE AddPullDone \/ ReadLists
  BY <1>4 DEF AddPullDone, ReadLists, Enter, Untracked, planned
<1>5. ASSUME NEW q \in Paths, WriteLocal(q) \/ WriteRemote(q) \/ RemoveLocal(q) \/ RemoveRemote(q)
      PROVE  Apart'
  BY <1>5 DEF WriteLocal, WriteRemote, Replace, RemoveLocal, RemoveRemote, Remove, planned
<1>6. ASSUME NEW q \in Paths, EditList(q) PROVE Apart'
  BY <1>6 DEF EditList, MayList, planned
<1>7. CASE RefusePlan \/ RefusePull \/ RefuseDelete \/ RefuseStale \/ Finish \/ Fail
  BY <1>7, Refusals DEF Forget
<1>8. CASE UNCHANGED vars
  BY <1>8 DEF vars, planned
<1> QED
  BY <1>1, <1>2, <1>3, <1>4, <1>5, <1>6, <1>7, <1>8, PeerHomeAssumption
     DEF Next, Proceed, MoveFile, UserActs

\* Every step of a run, of a user and of the operator keeps the invariant.
LEMMA IInvStep ==
  ASSUME Attentive, TypeOK, TypeOK', Fresh, Apart, \A p \in Paths : PathInv(p), Next
  PROVE  \A p \in Paths : PathInv(p)'
<1> USE DEF TypeOK, Inventories, PathInv
<1>1. ASSUME Start, NEW p \in Paths PROVE PathInv(p)'
  BY <1>1, PlanBoth DEF Start, PlanLocal, Scoped, trees, store, planned, bounds, history,
     Kept, BaselineKept, Unlisted, LocalLook, RemoteLook, Scope, Pulled, Pushed, Gone, Both,
     Planning, Looking
<1>2. ASSUME PlanRemote, NEW p \in Paths PROVE PathInv(p)'
  BY <1>2, PlanBoth DEF PlanRemote, Scoped, Apart, trees, store, planned, bounds, history,
     Kept, BaselineKept, Unlisted, LocalLook, RemoteLook, Scope, Pulled, Pushed, Gone, Both,
     Planning, Looking
<1>3. ASSUME NEW q \in Paths, PullFile(q), NEW p \in Paths PROVE PathInv(p)'
  BY <1>3, PlanBoth DEF PullFile, trees, store, planned, bounds, history,
     Kept, BaselineKept, Unlisted, LocalLook, RemoteLook, Scope, Pulled, Pushed, Gone, Both,
     Planning, Looking
<1>4. ASSUME NEW q \in Paths, DeleteLocalFile(q) \/ SkipLocalFile(q), NEW p \in Paths
      PROVE  PathInv(p)'
  BY <1>4, PlanBoth
     DEF DeleteLocalFile, SkipLocalFile, LocalStable, trees, store, planned, bounds, history,
     Kept, BaselineKept, Unlisted, LocalLook, RemoteLook, Scope, Pulled, Pushed, Gone, Both,
     Planning, Looking
<1>5. ASSUME NEW q \in Paths, DeleteRemoteFile(q), NEW p \in Paths PROVE PathInv(p)'
  BY <1>5, PlanBoth DEF DeleteRemoteFile, trees, store, planned, bounds, history,
     Kept, BaselineKept, Unlisted, LocalLook, RemoteLook, Scope, Pulled, Pushed, Gone, Both,
     Planning, Looking
<1>6. ASSUME NEW q \in Paths, PushFile(q), NEW p \in Paths PROVE PathInv(p)'
  <2>1. /\ UNCHANGED <<local, baseline, pc, run, listed, lsnap, rsnap, live>>
        /\ pc \in {"conflict", "push"} /\ q \in todo /\ todo' = todo \ {q}
        /\ quarantine \subseteq quarantine'
        /\ local[q] \in {None, remote[q]} => UNCHANGED <<remote, quarantine>>
        /\ local[q] \notin {None, remote[q]} =>
              /\ remote' = [remote EXCEPT ![q] = local[q]]
              /\ (pc = "conflict" /\ remote[q] # None) => <<q, remote[q]>> \in quarantine'
    BY <1>6 DEF PushFile, store, history, planned
  <2>2. \A v \in Nat : Gone(p, v) => Gone(p, v)'
    BY <2>1 DEF Gone
  <2>3. p = q => p \in listed
    BY <2>1, PlanBoth DEF Scope, Unlisted, Planning, Looking
  <2> QED
    BY <2>1, <2>2, PlanBoth
       DEF Kept, BaselineKept, Unlisted, LocalLook, RemoteLook, Scope, Pulled, Pushed,
       Gone, Both, Planning, Looking
<1>7. ASSUME NEW q \in Paths, AddFile(q), NEW p \in Paths PROVE PathInv(p)'
  <2>1. /\ UNCHANGED <<quarantine, baseline, pc, run, listed, lsnap, rsnap>>
        /\ pc \in {"addpull", "addpush"} /\ q \notin list
        /\ todo' \subseteq todo
    BY <1>7 DEF AddFile, Apart, store, planned
  <2>2. \/ /\ local' = [local EXCEPT ![q] = IF local[q] < remote[q] THEN remote[q] ELSE local[q]]
           /\ live' = IF local[q] < remote[q] THEN live \ {<<q, local[q]>>} ELSE live
           /\ remote' = remote
        \/ /\ remote' = [remote EXCEPT ![q] = IF local[q] < remote[q] THEN remote[q] ELSE local[q]]
           /\ live' = IF remote[q] < local[q] THEN live \ {<<q, remote[q]>>} ELSE live
           /\ local' = local
    BY <1>7, <2>1 DEF AddFile
  <2>3. \A v \in Nat : Gone(p, v) => Gone(p, v)'
    BY <2>1, <2>2 DEF Gone
  <2>4. Kept(p)'
    BY <2>1, <2>2 DEF Kept, Gone
  <2>5. BaselineKept(p)'
    BY <2>1, <2>2, <2>3 DEF BaselineKept, Gone, Both
  <2> QED
    BY <2>1, <2>4, <2>5
       DEF Unlisted, LocalLook, RemoteLook, Scope, Pulled, Pushed, Planning, Looking
<1>8. ASSUME CheckPull, NEW p \in Paths PROVE PathInv(p)'
  BY <1>8, PlanBoth DEF CheckPull, LocalStable, Enter, trees, store, planned, bounds, history,
     Kept, BaselineKept, Unlisted, LocalLook, RemoteLook, Scope, Pulled, Pushed, Gone, Both,
     Planning, Looking
<1>9. ASSUME PullDone, NEW p \in Paths PROVE PathInv(p)'
  BY <1>9, PlanBoth DEF PullDone, LocalDeletes, Enter, trees, store, planned, bounds, history,
     Kept, BaselineKept, Unlisted, LocalLook, RemoteLook, Scope, Pulled, Pushed, Gone, Both,
     Planning, Looking
<1>10. ASSUME DeleteLocalDone, NEW p \in Paths PROVE PathInv(p)'
  BY <1>10, PlanBoth
     DEF DeleteLocalDone, DeleteSet, Tombstones, Held, Enter, trees, store, planned, bounds,
     history,
     Kept, BaselineKept, Unlisted, LocalLook, RemoteLook, Scope, Pulled, Pushed, Gone, Both,
     Planning, Looking
<1>11. ASSUME DeleteRemoteDone, NEW p \in Paths PROVE PathInv(p)'
  BY <1>11, PlanBoth DEF DeleteRemoteDone, Enter, trees, store, planned, bounds, history,
     Kept, BaselineKept, Unlisted, LocalLook, RemoteLook, Scope, Pulled, Pushed, Gone, Both,
     Planning, Looking
<1>12. ASSUME Revalidate, NEW p \in Paths PROVE PathInv(p)'
  BY <1>12, PlanBoth DEF Revalidate, RemoteStable, Enter, trees, store, planned, bounds, history,
     Kept, BaselineKept, Unlisted, LocalLook, RemoteLook, Scope, Pulled, Pushed, Gone, Both,
     Planning, Looking
<1>13. ASSUME ConflictsDone, NEW p \in Paths PROVE PathInv(p)'
  BY <1>13, PlanBoth DEF ConflictsDone, Enter, trees, store, planned, bounds, history,
     Kept, BaselineKept, Unlisted, LocalLook, RemoteLook, Scope, Pulled, Pushed, Gone, Both,
     Planning, Looking
<1>14. ASSUME PushDone \/ AddPullDone, NEW p \in Paths PROVE PathInv(p)'
  BY <1>14, PlanBoth DEF PushDone, AddPullDone, Enter, trees, store, planned, bounds, history,
     Kept, BaselineKept, Unlisted, LocalLook, RemoteLook, Scope, Pulled, Pushed, Gone, Both,
     Planning, Looking
<1>15. ASSUME Mark \/ ReadLists, NEW p \in Paths PROVE PathInv(p)'
  BY <1>15, PlanBoth DEF Mark, ReadLists, NoFiles, trees, store, planned, bounds, history,
     Kept, BaselineKept, Unlisted, LocalLook, RemoteLook, Scope, Pulled, Pushed, Gone, Both,
     Planning, Looking
<1>16. ASSUME Commit, NEW p \in Paths PROVE PathInv(p)'
  <2>1. /\ UNCHANGED <<local, remote, quarantine, live, run, listed, lsnap, rsnap, todo>>
        /\ pc = "commit"
    BY <1>16 DEF Commit, trees, history, planned
  <2>2. CASE CanCommit
    <3>1. /\ baseline'[p] = (IF lsnap[p] # baseline[p] THEN lsnap[p] ELSE rsnap[p])
          /\ pc' = "mark" /\ run.mode = "both"
      BY <1>16, <2>2, PlanFacts DEF Commit, CanCommit
    <3>2. BaselineKept(p)'
      BY <2>1, <3>1, PlanBoth
         DEF BaselineKept, Unlisted, LocalLook, RemoteLook, Pulled, Pushed, Gone, Both,
         Planning, Looking
    <3> QED
      BY <2>1, <3>1, <3>2 DEF Kept, Unlisted, LocalLook, RemoteLook, Scope, Pulled, Pushed, Gone,
                              Planning, Looking
  <2>3. CASE ~CanCommit
    <3>1. baseline' = baseline /\ pc' = "additive"
      BY <1>16, <2>3 DEF Commit
    <3> QED
      BY <2>1, <3>1 DEF Kept, BaselineKept, Unlisted, LocalLook, RemoteLook, Scope, Pulled, Pushed,
                        Gone, Both, Planning, Looking
  <2> QED
    BY <2>2, <2>3
<1>17. ASSUME NEW q \in Paths, WriteLocal(q), NEW p \in Paths PROVE PathInv(p)'
  <2>1. /\ UNCHANGED <<remote, quarantine, baseline, pc, run, listed, lsnap, rsnap, todo>>
        /\ local' = [local EXCEPT ![q] = newest + 1]
        /\ newest' = newest + 1
        /\ live' = (live \ {<<q, local[q]>>}) \cup {<<q, newest + 1>>}
    BY <1>17 DEF WriteLocal, Replace, store, planned
  <2>2. local'[p] = IF p = q THEN newest + 1 ELSE local[p]
    BY <2>1
  <2>3. ASSUME NEW v \in Nat, v <= newest, Gone(p, v) PROVE Gone(p, v)'
    BY <2>1, <2>3 DEF Gone
  <2>4. CASE p # q
    <3>1. \A v \in Nat : Gone(p, v)' <=> Gone(p, v)
      BY <2>1, <2>4 DEF Gone
    <3> QED
      BY <2>1, <2>2, <2>4, <3>1, PlanBoth
         DEF Kept, BaselineKept, Unlisted, LocalLook, RemoteLook, Scope,
         Pulled, Pushed, Both, Planning, Looking
  <2>5. CASE p = q
    <3>1. ~(pc = "pull" /\ q \in todo)
      BY <1>17 DEF WriteLocal, MayWriteLocal, Attentive
    <3>2. \A v \in Nat : v = local[p] => Gone(p, v)'
      BY <2>1, <2>5 DEF Gone, Fresh
    <3>3. Kept(p)' /\ BaselineKept(p)'
      BY <2>1, <2>2, <2>3, <2>5, <3>2 DEF Kept, BaselineKept, Both, Gone, Fresh
    <3>4. LocalLook(p)'
      BY <2>1, <2>2, <2>3, <2>5, <3>1, <3>2 DEF LocalLook, Gone, Planning, Looking, Fresh
    <3>5. RemoteLook(p)'
      BY <2>1, <2>2, <2>3, <2>5, <3>1, <3>2, PlanBoth DEF RemoteLook, Gone, Looking, Planning, Fresh
    <3>6. Unlisted(p)' /\ Scope(p)' /\ Pulled(p)' /\ Pushed(p)'
      BY <2>1, <2>2, <2>3, <2>5, <3>2, PlanBoth
         DEF Unlisted, Scope, Pulled, Pushed, Both, Gone, Looking, Planning, Fresh
    <3> QED
      BY <3>3, <3>4, <3>5, <3>6
  <2> QED
    BY <2>4, <2>5
<1>18. ASSUME NEW q \in Paths, WriteRemote(q), NEW p \in Paths PROVE PathInv(p)'
  <2>1. /\ UNCHANGED <<local, quarantine, baseline, pc, run, listed, lsnap, rsnap, todo>>
        /\ remote' = [remote EXCEPT ![q] = newest + 1]
        /\ newest' = newest + 1
        /\ live' = (live \ {<<q, remote[q]>>}) \cup {<<q, newest + 1>>}
    BY <1>18 DEF WriteRemote, Replace, store, planned
  <2>2. remote'[p] = IF p = q THEN newest + 1 ELSE remote[p]
    BY <2>1
  <2>3. ASSUME NEW v \in Nat, v <= newest, Gone(p, v) PROVE Gone(p, v)'
    BY <2>1, <2>3 DEF Gone
  <2>4. CASE p # q
    <3>1. \A v \in Nat : Gone(p, v)' <=> Gone(p, v)
      BY <2>1, <2>4 DEF Gone
    <3> QED
      BY <2>1, <2>2, <2>4, <3>1, PlanBoth
         DEF Kept, BaselineKept, Unlisted, LocalLook, RemoteLook, Scope,
         Pulled, Pushed, Both, Planning, Looking
  <2>5. CASE p = q
    <3>1. ~(pc \in {"conflict", "push"} /\ q \in PlanPush \ PlanQuarantine
            /\ (pc = "push" => q \in todo))
      BY <1>18 DEF WriteRemote, MayWriteRemote, Attentive
    <3>2. \A v \in Nat : v = remote[p] => Gone(p, v)'
      BY <2>1, <2>5 DEF Gone, Fresh
    <3>3. Kept(p)' /\ BaselineKept(p)'
      BY <2>1, <2>2, <2>3, <2>5, <3>2 DEF Kept, BaselineKept, Both, Gone, Fresh
    <3>4. LocalLook(p)'
      BY <2>1, <2>2, <2>3, <2>5, <3>1, <3>2 DEF LocalLook, Gone, Planning, Looking, Fresh
    <3>5. RemoteLook(p)'
      BY <2>1, <2>2, <2>3, <2>5, <3>1, <3>2, PlanBoth DEF RemoteLook, Gone, Looking, Planning, Fresh
    <3>6. Unlisted(p)' /\ Scope(p)' /\ Pulled(p)' /\ Pushed(p)'
      BY <2>1, <2>2, <2>3, <2>5, <3>2, PlanBoth
         DEF Unlisted, Scope, Pulled, Pushed, Both, Gone, Looking, Planning, Fresh
    <3> QED
      BY <3>3, <3>4, <3>5, <3>6
  <2> QED
    BY <2>4, <2>5
<1>19. ASSUME NEW q \in Paths, RemoveLocal(q), NEW p \in Paths PROVE PathInv(p)'
  BY <1>19, PlanBoth DEF RemoveLocal, Remove, Fresh, trees, store, planned, bounds, history,
     Kept, BaselineKept, Unlisted, LocalLook, RemoteLook, Scope, Pulled, Pushed, Gone, Both,
     Planning, Looking
<1>20. ASSUME NEW q \in Paths, RemoveRemote(q), NEW p \in Paths PROVE PathInv(p)'
  BY <1>20, PlanBoth DEF RemoveRemote, Remove, Fresh, trees, store, planned, bounds, history,
     Kept, BaselineKept, Unlisted, LocalLook, RemoteLook, Scope, Pulled, Pushed, Gone, Both,
     Planning, Looking
<1>21. ASSUME NEW q \in Paths, EditList(q), NEW p \in Paths PROVE PathInv(p)'
  BY <1>21, PlanBoth DEF EditList, trees, store, planned, bounds, history,
     Kept, BaselineKept, Unlisted, LocalLook, RemoteLook, Scope, Pulled, Pushed, Gone, Both,
     Planning, Looking
<1>22. ASSUME RefusePlan \/ RefusePull \/ RefuseDelete \/ RefuseStale \/ Finish \/ Fail, NEW p \in Paths
       PROVE  PathInv(p)'
  BY <1>22, PlanBoth, Refusals DEF Forget, trees, store, history,
     Kept, BaselineKept, Unlisted, LocalLook, RemoteLook, Scope, Pulled, Pushed, Gone, Both,
     Planning, Looking
<1> QED
  BY <1>1, <1>2, <1>3, <1>4, <1>5, <1>6, <1>7, <1>8, <1>9, <1>10, <1>11, <1>12, <1>13, <1>14, <1>15,
     <1>16, <1>17, <1>18, <1>19, <1>20, <1>21, <1>22, PeerHomeAssumption
     DEF Next, Proceed, MoveFile, UserActs

\* Every version of a host path that no user has replaced or deleted since is
\* on one of the Macs or in a quarantine, for any number of paths, versions,
\* failed runs and edits of the list: the passes of peer_home_tracked.go and
\* peerHomeSync destroy nobody's only copy.  Stopped runs, half-written
\* baselines ("markCrash") and files that vanish under the run ("vanish") are
\* covered; the windows between a check and its rsync are not.
THEOREM HomeEditsSurvive ==
  ASSUME Attentive
  PROVE  Spec => []NoEditLost
<1>1. Init => IInv
  BY HomeTypesInit, IInvInit DEF IInv
<1>2. IInv /\ [Next]_vars => IInv'
  <2> SUFFICES ASSUME IInv, [Next]_vars PROVE IInv'
    OBVIOUS
  <2>1. TypeOK' /\ Fresh' /\ Apart'
    BY HomeTypesStep, FreshStep, ApartStep DEF IInv, Attentive
  <2>2. CASE Next
    BY <2>1, <2>2, IInvStep DEF IInv
  <2>3. CASE UNCHANGED vars
    <3>1. ASSUME NEW p \in Paths PROVE PathInv(p)'
      BY <2>3 DEF vars, trees, store, planned, bounds, history, IInv, PathInv,
         Kept, BaselineKept, Unlisted, LocalLook, RemoteLook, Scope, Pulled, Pushed, Gone, Both,
         PlanPull, PlanPush, PlanQuarantine, PlanDeleteLocal, PlanDeleteRemote
    <3> QED
      BY <2>1, <3>1 DEF IInv
  <2> QED
    BY <2>2, <2>3
<1>3. IInv => NoEditLost
  BY DEF IInv, TypeOK, PathInv, Kept, Gone, NoEditLost, Entries
<1> QED
  BY <1>1, <1>2, <1>3, PTL DEF Spec

-----------------------------------------------------------------------------
(* The second half: what is deleted, and what stays deleted *)

\* No file vanishes under the pull, and no path is listed under the additive
\* pass.  Writes in the windows of Attentive are allowed here.
Punctual == Faults \cap {"vanish", "listRace"} = {}

\* A user deleted p on the peer; on either Mac.
RemoteGone(p) == <<"remote", p>> \in userDeleted
UserGone(p) == RemoteGone(p) \/ <<"local", p>> \in userDeleted

\* v is what the verified baseline of the tracked path p has.
Recorded(p, v) ==
    /\ ready /\ v # None /\ baseline[p] = v
    /\ p \in list /\ (pc # "idle" => p \in listed)

\* The baseline's version is nowhere any more.
Extinct(p) ==
    /\ baseline[p] \notin {None, local[p], remote[p]}
    /\ pc \in Planning => lsnap[p] # baseline[p]
    /\ pc \in Looking => rsnap[p] = remote[p]

\* A version in the past is on no Mac unless the baseline still records it; on
\* the peer it may also be about to be pushed over.
PastKept(p) ==
    \A v \in Nat : <<p, v>> \in past =>
        /\ v # None /\ v <= newest /\ ready
        /\ p \in list /\ (pc # "idle" => p \in listed)
        /\ local[p] = v => baseline[p] = v
        /\ remote[p] = v => baseline[p] = v \/ Extinct(p)

\* A change the plan saw is not undone before the run acts on it.
Away(p) ==
    (baseline[p] # None /\ p \in listed) =>
        /\ pc \in Planning /\ lsnap[p] # baseline[p] => local[p] # baseline[p]
        /\ pc \in Looking /\ rsnap[p] # baseline[p] => remote[p] # baseline[p]

\* What is to be pulled is still there.
Arriving(p) ==
    (p \in PlanPull /\ (pc = "check" \/ (pc = "pull" /\ p \in todo))) => remote[p] # None

\* After its pull a path has left the baseline's version; no file only when
\* a user deleted it.
PulledAway(p) ==
    (/\ p \in PlanPull
     /\ run.mode # "push"
     /\ pc \in Looking \ {"check"}
     /\ pc = "pull" => p \notin todo)
    => /\ baseline[p] # None => local[p] # baseline[p]
       /\ local[p] = None => UserGone(p)

\* After the local deletions the file the plan deletes has left the baseline's
\* version.
DeletedLocal(p) ==
    (/\ p \in PlanDeleteLocal
     /\ run.mode # "push"
     /\ complete
     /\ pc \in Looking \ {"check", "pull"}
     /\ pc = "dellocal" => p \notin todo)
    => local[p] # baseline[p]

\* After its push a path is changed again here, or the peer has neither the
\* baseline's version nor one of the past.
PushedAway(p) ==
    (/\ p \in PlanPush
     /\ run.mode # "pull"
     /\ \/ pc = "commit"
        \/ pc = "push" /\ p \notin todo
        \/ pc = "conflict" /\ p \in PlanQuarantine \ todo)
    => \/ local[p] # lsnap[p]
       \/ /\ baseline[p] # None => remote[p] # baseline[p]
          /\ <<p, remote[p]>> \notin past
          /\ remote[p] = None => RemoteGone(p)

\* The places from the remote deletions on.
AfterDeletes == {"delremote", "revalidate", "conflict", "push", "commit"}

\* After the remote deletions the peer has neither the baseline's version nor
\* one of the past.
DeletedRemote(p) ==
    (p \in PlanDeleteRemote /\ run.mode # "pull" /\ pc \in AfterDeletes /\ complete) =>
        (pc # "delremote" \/ p \notin todo =>
             remote[p] # baseline[p] /\ <<p, remote[p]>> \notin past)

\* A recorded file that a Mac lacks was deleted by a user.
Missing(p) ==
    /\ baseline[p] # None /\ local[p] = None => UserGone(p)
    /\ baseline[p] # None /\ local[p] = baseline[p] /\ remote[p] = None => RemoteGone(p)

\* And so was a file that the plan's inventories lack.
Looked(p) ==
    p \in listed =>
    /\ pc \in Planning /\ baseline[p] # None /\ lsnap[p] = None => UserGone(p)
    /\ pc \in Planning /\ lsnap[p] # None /\ local[p] = None => UserGone(p)
    /\ baseline[p] # None /\ lsnap[p] = baseline[p] =>
           /\ pc = "remote" /\ remote[p] = None => RemoteGone(p)
           /\ pc \in Looking /\ rsnap[p] = None => RemoteGone(p)
    /\ pc \in Looking /\ rsnap[p] # None /\ remote[p] = None =>
           RemoteGone(p) \/ (lsnap[p] # baseline[p] /\ lsnap[p] = None)

\* All of it for one path.
DPath(p) ==
    /\ Unlisted(p) /\ Scope(p) /\ PastKept(p) /\ Away(p) /\ Arriving(p)
    /\ PulledAway(p) /\ DeletedLocal(p) /\ PushedAway(p) /\ DeletedRemote(p)
    /\ Missing(p) /\ Looked(p)

DInv == TypeOK /\ Fresh /\ Apart /\ \A p \in Paths : DPath(p)

\* Nothing is past, deleted or planned at first.
LEMMA DInvInit == Init => DInv
<1> SUFFICES ASSUME Init PROVE DInv
  OBVIOUS
<1>1. TypeOK /\ Fresh /\ Apart
  BY HomeTypesInit, IInvInit
<1>2. ASSUME NEW p \in Paths PROVE DPath(p)
  <2>1. Missing(p)
    BY <1>1 DEF Init, NoFiles, None, Missing
  <2> QED
    BY <1>1, <2>1 DEF Init, NoFiles, DPath, Unlisted, Scope, PastKept, Away, Arriving, PulledAway,
       DeletedLocal, PushedAway, DeletedRemote, Looked, Planning, Looking, AfterDeletes
<1> QED
  BY <1>1, <1>2 DEF DInv

\* Every step keeps what is known of the deletions: one step per action.
LEMMA DPathStep ==
  ASSUME Punctual, TypeOK, TypeOK', Fresh, Apart, Apart', \A p \in Paths : DPath(p), Next
  PROVE  \A p \in Paths : DPath(p)'
<1> USE DEF TypeOK, Inventories, DPath
<1>t. ASSUME NEW p \in Paths PROVE local[p] \in Nat /\ remote[p] \in Nat /\ remote'[p] \in Nat
  OBVIOUS
<1>1. ASSUME Start, NEW p \in Paths PROVE DPath(p)'
  BY <1>1, PlanBoth DEF Start, PlanLocal, Scoped, trees, store, planned, bounds, history,
     Unlisted, Scope, PastKept, Extinct, Away, Arriving, PulledAway, DeletedLocal, PushedAway,
     DeletedRemote, Missing, Looked, RemoteGone, UserGone, Planning, Looking, AfterDeletes, None
<1>2. ASSUME PlanRemote, NEW p \in Paths PROVE DPath(p)'
  BY <1>2, PlanBoth DEF PlanRemote, Scoped, Apart, trees, store, planned, bounds, history,
     Unlisted, Scope, PastKept, Extinct, Away, Arriving, PulledAway, DeletedLocal, PushedAway,
     DeletedRemote, Missing, Looked, RemoteGone, UserGone, Planning, Looking, AfterDeletes, None
<1>3. ASSUME NEW q \in Paths, PullFile(q), NEW p \in Paths PROVE DPath(p)'
  <2>1. /\ UNCHANGED <<remote, baseline, ready, list, pc, run, listed, lsnap, rsnap, complete,
                       past, newest, userDeleted>>
        /\ pc = "pull" /\ q \in todo /\ todo' = todo \ {q}
    BY <1>3 DEF PullFile, store, history, planned, bounds
  <2>2. p # q => local'[p] = local[p]
    BY <1>3 DEF PullFile
  <2>3. p = q => /\ p \in PlanPull /\ p \in listed
                 /\ remote[p] # None /\ local'[p] = remote[p]
                 /\ baseline[p] # None => remote[p] # baseline[p]
    BY <1>3, <2>1, PlanBoth DEF PullFile, Scope, Unlisted, Arriving, Away, Planning, Looking
  <2>4. PastKept(p)'
    BY <2>1, <2>2, <2>3, PlanBoth DEF PastKept, Extinct, Planning, Looking
  <2>5. Away(p)' /\ Arriving(p)' /\ PulledAway(p)'
    BY <2>1, <2>2, <2>3, PlanBoth
       DEF Away, Arriving, PulledAway, UserGone, RemoteGone, Planning, Looking
  <2>6. Unlisted(p)' /\ Scope(p)' /\ DeletedLocal(p)' /\ PushedAway(p)' /\ DeletedRemote(p)'
    BY <2>1, <2>2, <2>3, PlanBoth
       DEF Unlisted, Scope, DeletedLocal, PushedAway, DeletedRemote, RemoteGone,
       Planning, Looking, AfterDeletes
  <2>7. Missing(p)' /\ Looked(p)'
    BY <2>1, <2>2, <2>3, PlanBoth DEF Missing, Looked, UserGone, RemoteGone, Planning, Looking
  <2> QED
    BY <2>4, <2>5, <2>6, <2>7
<1>4. ASSUME NEW q \in Paths, DeleteLocalFile(q) \/ SkipLocalFile(q), NEW p \in Paths
      PROVE  DPath(p)'
  <2>1. /\ UNCHANGED <<remote, baseline, ready, list, pc, run, listed, lsnap, rsnap, complete,
                       past, newest, userDeleted>>
        /\ pc = "dellocal" /\ q \in todo /\ todo' = todo \ {q}
    BY <1>4 DEF DeleteLocalFile, SkipLocalFile, trees, store, history, planned, bounds
  <2>2. p # q => local'[p] = local[p]
    BY <1>4 DEF DeleteLocalFile, SkipLocalFile, trees
  <2>3. p = q => p \in PlanDeleteLocal /\ p \in listed /\ local'[p] = None
    BY <1>4, <2>1, PlanBoth
       DEF DeleteLocalFile, SkipLocalFile, trees, Scope, Unlisted, Planning, Looking
  <2>4. PastKept(p)'
    BY <2>1, <2>2, <2>3, PlanBoth DEF PastKept, Extinct, Planning, Looking, None
  <2>5. Away(p)' /\ Arriving(p)' /\ PulledAway(p)' /\ DeletedLocal(p)'
    BY <2>1, <2>2, <2>3, PlanBoth
       DEF Away, Arriving, PulledAway, DeletedLocal, UserGone, RemoteGone, Planning, Looking,
       None
  <2>6. PushedAway(p)' /\ DeletedRemote(p)'
    BY <2>1, <2>2, <2>3, PlanBoth
       DEF PushedAway, DeletedRemote, PastKept, Away, Looked, RemoteGone, UserGone, Planning,
       Looking, AfterDeletes, None
  <2>7. Unlisted(p)' /\ Scope(p)'
    BY <2>1, <2>2, <2>3, PlanBoth DEF Unlisted, Scope, Planning, Looking
  <2>8. Missing(p)' /\ Looked(p)'
    BY <2>1, <2>2, <2>3, PlanBoth DEF Missing, Looked, UserGone, RemoteGone, Planning, Looking, None
  <2> QED
    BY <2>4, <2>5, <2>6, <2>7, <2>8
<1>5. ASSUME NEW q \in Paths, DeleteRemoteFile(q), NEW p \in Paths PROVE DPath(p)'
  <2>1. /\ UNCHANGED <<local, baseline, ready, list, pc, run, listed, lsnap, rsnap, complete,
                       past, newest, userDeleted>>
        /\ pc = "delremote" /\ q \in todo /\ todo' = todo \ {q}
    BY <1>5 DEF DeleteRemoteFile, store, history, planned, bounds
  <2>2. p # q => remote'[p] = remote[p]
    BY <1>5 DEF DeleteRemoteFile
  <2>3. p = q => /\ p \in PlanDeleteRemote /\ p \in listed /\ remote'[p] = None
                 /\ baseline[p] # None
    BY <1>5, <2>1, PlanBoth DEF DeleteRemoteFile, Scope, Unlisted, Planning, Looking
  <2>4. PastKept(p)'
    BY <2>1, <2>2, <2>3, PlanBoth DEF PastKept, Extinct, Planning, Looking, None
  <2>5. Away(p)' /\ Arriving(p)' /\ PulledAway(p)' /\ DeletedLocal(p)'
    BY <2>1, <2>2, <2>3, PlanBoth
       DEF Away, Arriving, PulledAway, DeletedLocal, UserGone, RemoteGone, Planning, Looking,
       None
  <2>6. PushedAway(p)' /\ DeletedRemote(p)'
    BY <2>1, <2>2, <2>3, PlanBoth
       DEF PushedAway, DeletedRemote, PastKept, Away, Looked, RemoteGone, UserGone, Planning,
       Looking, AfterDeletes, None
  <2>7. Unlisted(p)' /\ Scope(p)'
    BY <2>1, <2>2, <2>3, PlanBoth DEF Unlisted, Scope, Planning, Looking
  <2>8. Missing(p)' /\ Looked(p)'
    BY <2>1, <2>2, <2>3, PlanBoth
       DEF Missing, Looked, Away, UserGone, RemoteGone, Planning, Looking, None
  <2> QED
    BY <2>4, <2>5, <2>6, <2>7, <2>8
<1>6. ASSUME NEW q \in Paths, PushFile(q), NEW p \in Paths PROVE DPath(p)'
  <2>1. /\ UNCHANGED <<local, baseline, ready, list, pc, run, listed, lsnap, rsnap, complete,
                       past, newest, userDeleted>>
        /\ pc \in {"conflict", "push"} /\ q \in todo /\ todo' = todo \ {q}
    BY <1>6 DEF PushFile, store, history, planned, bounds
  <2>2. p # q => remote'[p] = remote[p]
    BY <1>6 DEF PushFile
  <2>3. p = q => /\ p \in PlanPush /\ p \in listed
                 /\ \/ remote'[p] = local[p] /\ local[p] # None
                    \/ remote'[p] = remote[p] /\ local[p] = None
                 /\ baseline[p] # None => local[p] # baseline[p]
    BY <1>6, <2>1, PlanBoth DEF PushFile, Scope, Unlisted, Away, Planning, Looking
  <2>4. PastKept(p)'
    BY <2>1, <2>2, <2>3, PlanBoth DEF PastKept, Extinct, Planning, Looking, None
  <2>5. Away(p)' /\ Arriving(p)' /\ PulledAway(p)' /\ DeletedLocal(p)'
    BY <2>1, <2>2, <2>3, PlanBoth
       DEF Away, Arriving, PulledAway, DeletedLocal, UserGone, RemoteGone, Planning, Looking,
       None
  <2>6. PushedAway(p)' /\ DeletedRemote(p)'
    BY <2>1, <2>2, <2>3, PlanBoth
       DEF PushedAway, DeletedRemote, PastKept, Away, Looked, RemoteGone, UserGone, Planning,
       Looking, AfterDeletes, None
  <2>7. Unlisted(p)' /\ Scope(p)'
    BY <2>1, <2>2, <2>3, PlanBoth DEF Unlisted, Scope, Planning, Looking
  <2>8. Missing(p)' /\ Looked(p)'
    BY <2>1, <2>2, <2>3, PlanBoth DEF Missing, Looked, UserGone, RemoteGone, Planning, Looking, None
  <2> QED
    BY <2>4, <2>5, <2>6, <2>7, <2>8
<1>7. ASSUME NEW q \in Paths, AddFile(q), NEW p \in Paths PROVE DPath(p)'
  <2>1. /\ UNCHANGED <<baseline, ready, list, pc, run, listed, lsnap, rsnap, complete, past, newest,
                       userDeleted>>
        /\ pc \in {"addpull", "addpush"} /\ todo' \subseteq todo
        /\ q \notin list /\ q \notin listed
    BY <1>7 DEF AddFile, Apart, store, planned, bounds
  <2>2. p # q => UNCHANGED <<local[p], remote[p]>>
    BY <1>7 DEF AddFile
  <2>3. p = q => \/ /\ local'[p] \in {local[p], remote[p]} /\ local'[p] >= local[p]
                    /\ remote'[p] = remote[p]
                 \/ /\ remote'[p] \in {local[p], remote[p]} /\ remote'[p] >= remote[p]
                    /\ local'[p] = local[p]
    BY <1>7 DEF AddFile
  <2>4. PastKept(p)'
    BY <2>1, <2>2 DEF PastKept, Extinct, Planning, Looking
  <2>5. Missing(p)'
    BY <2>1, <2>2, <2>3 DEF Missing, UserGone, RemoteGone, None
  <2> QED
    BY <2>1, <2>4, <2>5
       DEF Unlisted, Scope, Away, Arriving, PulledAway, DeletedLocal, PushedAway, DeletedRemote,
       Looked, Planning, Looking, AfterDeletes
<1>8. ASSUME CheckPull, NEW p \in Paths PROVE DPath(p)'
  BY <1>8, PlanBoth DEF CheckPull, LocalStable, Enter, trees, store, planned, bounds, history,
     Unlisted, Scope, PastKept, Extinct, Away, Arriving, PulledAway, DeletedLocal, PushedAway,
     DeletedRemote, Missing, Looked, RemoteGone, UserGone, Planning, Looking, AfterDeletes, None
<1>9. ASSUME PullDone, NEW p \in Paths PROVE DPath(p)'
  BY <1>9, PlanBoth DEF PullDone, LocalDeletes, Enter, trees, store, planned, bounds, history,
     Unlisted, Scope, PastKept, Extinct, Away, Arriving, PulledAway, DeletedLocal, PushedAway,
     DeletedRemote, Missing, Looked, RemoteGone, UserGone, Planning, Looking, AfterDeletes, None
<1>10. ASSUME DeleteLocalDone, NEW p \in Paths PROVE DPath(p)'
  BY <1>10, PlanBoth
     DEF DeleteLocalDone, DeletesAuthorized, DeleteSet, Tombstones, Held, Enter, trees, store,
     planned, bounds, history,
     Unlisted, Scope, PastKept, Extinct, Away, Arriving, PulledAway, DeletedLocal, PushedAway,
     DeletedRemote, Missing, Looked, RemoteGone, UserGone, Planning, Looking, AfterDeletes, None
<1>11. ASSUME DeleteRemoteDone, NEW p \in Paths PROVE DPath(p)'
  BY <1>11, PlanBoth DEF DeleteRemoteDone, Enter, trees, store, planned, bounds, history,
     Unlisted, Scope, PastKept, Extinct, Away, Arriving, PulledAway, DeletedLocal, PushedAway,
     DeletedRemote, Missing, Looked, RemoteGone, UserGone, Planning, Looking, AfterDeletes, None
<1>12. ASSUME Revalidate, NEW p \in Paths PROVE DPath(p)'
  BY <1>12, PlanBoth DEF Revalidate, RemoteStable, Enter, trees, store, planned, bounds, history,
     Unlisted, Scope, PastKept, Extinct, Away, Arriving, PulledAway, DeletedLocal, PushedAway,
     DeletedRemote, Missing, Looked, RemoteGone, UserGone, Planning, Looking, AfterDeletes, None
<1>13. ASSUME ConflictsDone, NEW p \in Paths PROVE DPath(p)'
  BY <1>13, PlanBoth DEF ConflictsDone, Enter, trees, store, planned, bounds, history,
     Unlisted, Scope, PastKept, Extinct, Away, Arriving, PulledAway, DeletedLocal, PushedAway,
     DeletedRemote, Missing, Looked, RemoteGone, UserGone, Planning, Looking, AfterDeletes, None
<1>14. ASSUME PushDone \/ AddPullDone, NEW p \in Paths PROVE DPath(p)'
  BY <1>14, PlanBoth DEF PushDone, AddPullDone, Enter, trees, store, planned, bounds, history,
     Unlisted, Scope, PastKept, Extinct, Away, Arriving, PulledAway, DeletedLocal, PushedAway,
     DeletedRemote, Missing, Looked, RemoteGone, UserGone, Planning, Looking, AfterDeletes, None
<1>15. ASSUME Mark \/ ReadLists, NEW p \in Paths PROVE DPath(p)'
  BY <1>15, PlanBoth DEF Mark, ReadLists, NoFiles, trees, store, planned, bounds, history,
     Unlisted, Scope, PastKept, Extinct, Away, Arriving, PulledAway, DeletedLocal, PushedAway,
     DeletedRemote, Missing, Looked, RemoteGone, UserGone, Planning, Looking, AfterDeletes, None
<1>16. ASSUME Commit, NEW p \in Paths PROVE DPath(p)'
  <2>1. /\ UNCHANGED <<local, remote, ready, list, run, listed, lsnap, rsnap, todo, complete, past,
                       newest, userDeleted>>
        /\ pc = "commit"
    BY <1>16 DEF Commit, trees, history, planned, bounds
  <2>2. CASE CanCommit
    <3>1. /\ baseline'[p] = (IF lsnap[p] # baseline[p] THEN lsnap[p] ELSE rsnap[p])
          /\ pc' = "mark" /\ run.mode = "both" /\ complete
      BY <1>16, <2>2, PlanFacts DEF Commit, CanCommit
    <3>2. PastKept(p)'
      <4> SUFFICES ASSUME NEW v \in Nat, <<p, v>> \in past
                   PROVE  /\ local[p] = v => baseline'[p] = v
                          /\ remote[p] = v => baseline'[p] = v \/ Extinct(p)'
        BY <2>1, <3>1 DEF PastKept
      <4>1. /\ v # None /\ p \in listed
            /\ local[p] = v => baseline[p] = v
            /\ remote[p] = v => baseline[p] = v \/ Extinct(p)
        BY <2>1 DEF PastKept
      <4>2. ASSUME local[p] = v PROVE baseline'[p] = v
        BY <2>1, <3>1, <4>1, <4>2, PlanBoth DEF Away, PulledAway, DeletedLocal, Planning, Looking
      <4>3. ASSUME remote[p] = v PROVE baseline'[p] = v \/ Extinct(p)'
        BY <2>1, <3>1, <4>1, <4>2, <4>3, PlanBoth
           DEF Away, PulledAway, PushedAway, DeletedLocal, DeletedRemote, Extinct, Planning,
               Looking, AfterDeletes
      <4> QED
        BY <4>2, <4>3
    <3>3. Missing(p)'
      BY <2>1, <3>1, PlanBoth
         DEF Missing, Looked, PulledAway, PushedAway, Unlisted, RemoteGone, UserGone, Planning,
             Looking
    <3> QED
      BY <2>1, <3>1, <3>2, <3>3
         DEF Unlisted, Scope, Away, Arriving, PulledAway, DeletedLocal, PushedAway,
             DeletedRemote, Looked,
             Planning, Looking, AfterDeletes
  <2>3. CASE ~CanCommit
    <3>1. baseline' = baseline /\ pc' = "additive"
      BY <1>16, <2>3 DEF Commit
    <3> QED
      BY <2>1, <3>1
         DEF Unlisted, Scope, PastKept, Extinct, Away, Arriving, PulledAway, DeletedLocal,
         PushedAway, DeletedRemote, Missing, Looked, RemoteGone, UserGone, Planning, Looking,
         AfterDeletes
  <2> QED
    BY <2>2, <2>3
<1>17. ASSUME NEW q \in Paths, WriteLocal(q), NEW p \in Paths PROVE DPath(p)'
  <2>1. /\ UNCHANGED <<remote, baseline, ready, list, pc, run, listed, lsnap, rsnap, todo, complete,
                       userDeleted>>
        /\ local'[p] = IF p = q THEN newest + 1 ELSE local[p]
        /\ newest' = newest + 1
    BY <1>17 DEF WriteLocal, Replace, store, planned
  <2>2. \A v \in Nat : <<p, v>> \in past' =>
              <<p, v>> \in past \/ (p = q /\ v = local[p] /\ Recorded(p, v))
    BY <1>17 DEF WriteLocal, Replace, Outdated, Tracked, Recorded
  <2>3. local'[p] # local[p] =>
          local'[p] \notin {None, baseline[p], lsnap[p], rsnap[p], local[p], remote[p]}
    BY <2>1 DEF Fresh, None
  <2>4. PastKept(p)'
    BY <2>1, <2>2, <2>3, PlanBoth DEF PastKept, Extinct, Recorded, Fresh, Planning, Looking, None
  <2>5. Away(p)' /\ Arriving(p)' /\ PulledAway(p)' /\ DeletedLocal(p)'
    BY <2>1, <2>2, <2>3, PlanBoth
       DEF Away, Arriving, PulledAway, DeletedLocal, UserGone, RemoteGone, Planning, Looking,
       Fresh, None
  <2>6. PushedAway(p)' /\ DeletedRemote(p)'
    <3>1. \/ remote'[p] # remote[p] /\ <<p, remote'[p]>> \notin past'
          \/ remote'[p] = remote[p] /\ (<<p, remote[p]>> \in past' =>
                 <<p, remote[p]>> \in past \/ (remote[p] # None /\ baseline[p] = remote[p]))
      BY <2>1, <2>2, <2>3, <1>t DEF PastKept, Recorded, Fresh, None
    <3>2. PushedAway(p)'
      BY <2>1, <2>2, <2>3, PlanBoth, <3>1
         DEF PushedAway, Looked, RemoteGone, UserGone, Planning, Looking, Fresh, None
    <3>3. DeletedRemote(p)'
      BY <2>1, <2>2, <2>3, PlanBoth, <3>1 DEF DeletedRemote, Looking, AfterDeletes, Fresh, None
    <3> QED
      BY <3>2, <3>3
  <2>7. Unlisted(p)' /\ Scope(p)'
    BY <2>1, <2>2, <2>3, PlanBoth DEF Unlisted, Scope, Planning, Looking
  <2>8. Missing(p)' /\ Looked(p)'
    BY <2>1, <2>2, <2>3, PlanBoth DEF Missing, Looked, UserGone, RemoteGone, Planning, Looking, None
  <2> QED
    BY <2>4, <2>5, <2>6, <2>7, <2>8
<1>18. ASSUME NEW q \in Paths, WriteRemote(q), NEW p \in Paths PROVE DPath(p)'
  <2>1. /\ UNCHANGED <<local, baseline, ready, list, pc, run, listed, lsnap, rsnap, todo, complete,
                       userDeleted>>
        /\ remote'[p] = IF p = q THEN newest + 1 ELSE remote[p]
        /\ newest' = newest + 1
    BY <1>18 DEF WriteRemote, Replace, store, planned
  <2>2. \A v \in Nat : <<p, v>> \in past' =>
              <<p, v>> \in past \/ (p = q /\ v = remote[p] /\ Recorded(p, v))
    BY <1>18 DEF WriteRemote, Replace, Outdated, Tracked, Recorded
  <2>3. remote'[p] # remote[p] =>
          remote'[p] \notin {None, baseline[p], lsnap[p], rsnap[p], remote[p], local[p]}
    BY <2>1 DEF Fresh, None
  <2>4. PastKept(p)'
    BY <2>1, <2>2, <2>3, PlanBoth DEF PastKept, Extinct, Recorded, Fresh, Planning, Looking, None
  <2>5. Away(p)' /\ Arriving(p)' /\ PulledAway(p)' /\ DeletedLocal(p)'
    BY <2>1, <2>2, <2>3, PlanBoth
       DEF Away, Arriving, PulledAway, DeletedLocal, UserGone, RemoteGone, Planning, Looking,
       Fresh, None
  <2>6. PushedAway(p)' /\ DeletedRemote(p)'
    <3>1. \/ remote'[p] # remote[p] /\ <<p, remote'[p]>> \notin past'
          \/ remote'[p] = remote[p] /\ (<<p, remote[p]>> \in past' =>
                 <<p, remote[p]>> \in past \/ (remote[p] # None /\ baseline[p] = remote[p]))
      BY <2>1, <2>2, <2>3, <1>t DEF PastKept, Recorded, Fresh, None
    <3>2. PushedAway(p)'
      BY <2>1, <2>2, <2>3, PlanBoth, <3>1
         DEF PushedAway, Looked, RemoteGone, UserGone, Planning, Looking, Fresh, None
    <3>3. DeletedRemote(p)'
      BY <2>1, <2>2, <2>3, PlanBoth, <3>1 DEF DeletedRemote, Looking, AfterDeletes, Fresh, None
    <3> QED
      BY <3>2, <3>3
  <2>7. Unlisted(p)' /\ Scope(p)'
    BY <2>1, <2>2, <2>3, PlanBoth DEF Unlisted, Scope, Planning, Looking
  <2>8. Missing(p)' /\ Looked(p)'
    BY <2>1, <2>2, <2>3, PlanBoth DEF Missing, Looked, UserGone, RemoteGone, Planning, Looking, None
  <2> QED
    BY <2>4, <2>5, <2>6, <2>7, <2>8
<1>19. ASSUME NEW q \in Paths, RemoveLocal(q), NEW p \in Paths PROVE DPath(p)'
  <2>1. /\ UNCHANGED <<remote, baseline, ready, list, pc, run, listed, lsnap, rsnap, todo, complete,
                       newest>>
        /\ local'[p] = (IF p = q THEN None ELSE local[p]) /\ local[q] # None
        /\ userDeleted' = userDeleted \cup {<<"local", q>>}
    BY <1>19 DEF RemoveLocal, Remove, store, planned, bounds
  <2>2. \A v \in Nat : <<p, v>> \in past' =>
              <<p, v>> \in past \/ (p = q /\ v = local[p] /\ Recorded(p, v))
    BY <1>19 DEF RemoveLocal, Remove, Outdated, Tracked, Recorded
  <2>3. PastKept(p)'
    BY <2>1, <2>2, PlanBoth DEF PastKept, Extinct, Recorded, Fresh, Planning, Looking, None
  <2>4. Away(p)' /\ Arriving(p)' /\ PulledAway(p)' /\ DeletedLocal(p)'
    BY <2>1, <2>2, PlanBoth
       DEF Away, Arriving, PulledAway, DeletedLocal, UserGone, RemoteGone, Planning, Looking,
       Fresh, None
  <2>5. PushedAway(p)' /\ DeletedRemote(p)'
    <3>1. \/ remote'[p] # remote[p] /\ <<p, remote'[p]>> \notin past'
          \/ remote'[p] = remote[p] /\ (<<p, remote[p]>> \in past' =>
                 <<p, remote[p]>> \in past \/ (remote[p] # None /\ baseline[p] = remote[p]))
      BY <2>1, <2>2, <1>t DEF PastKept, Recorded, Fresh, None
    <3>2. PushedAway(p)'
      BY <2>1, <2>2, PlanBoth, <3>1
         DEF PushedAway, Looked, RemoteGone, UserGone, Planning, Looking, Fresh, None
    <3>3. DeletedRemote(p)'
      BY <2>1, <2>2, PlanBoth, <3>1 DEF DeletedRemote, Looking, AfterDeletes, Fresh, None
    <3> QED
      BY <3>2, <3>3
  <2>6. Unlisted(p)' /\ Scope(p)'
    BY <2>1, <2>2, PlanBoth DEF Unlisted, Scope, Planning, Looking
  <2>7. Missing(p)' /\ Looked(p)'
    BY <2>1, <2>2, PlanBoth DEF Missing, Looked, UserGone, RemoteGone, Planning, Looking, None
  <2> QED
    BY <2>3, <2>4, <2>5, <2>6, <2>7
<1>20. ASSUME NEW q \in Paths, RemoveRemote(q), NEW p \in Paths PROVE DPath(p)'
  <2>1. /\ UNCHANGED <<local, baseline, ready, list, pc, run, listed, lsnap, rsnap, todo, complete,
                       newest>>
        /\ remote'[p] = (IF p = q THEN None ELSE remote[p]) /\ remote[q] # None
        /\ userDeleted' = userDeleted \cup {<<"remote", q>>}
        /\ p = q => ~(p \in PlanPull /\ (pc = "check" \/ (pc = "pull" /\ p \in todo)))
    BY <1>20 DEF RemoveRemote, MayRemoveRemote, Punctual, Remove, store, planned, bounds
  <2>2. \A v \in Nat : <<p, v>> \in past' =>
              <<p, v>> \in past \/ (p = q /\ v = remote[p] /\ Recorded(p, v))
    BY <1>20 DEF RemoveRemote, Remove, Outdated, Tracked, Recorded
  <2>3. PastKept(p)'
    BY <2>1, <2>2, PlanBoth DEF PastKept, Extinct, Recorded, Fresh, Planning, Looking, None
  <2>4. Away(p)' /\ Arriving(p)' /\ PulledAway(p)' /\ DeletedLocal(p)'
    BY <2>1, <2>2, PlanBoth
       DEF Away, Arriving, PulledAway, DeletedLocal, UserGone, RemoteGone, Planning, Looking,
       Fresh, None
  <2>5. PushedAway(p)' /\ DeletedRemote(p)'
    <3>1. \/ remote'[p] # remote[p] /\ <<p, remote'[p]>> \notin past'
          \/ remote'[p] = remote[p] /\ (<<p, remote[p]>> \in past' =>
                 <<p, remote[p]>> \in past \/ (remote[p] # None /\ baseline[p] = remote[p]))
      BY <2>1, <2>2, <1>t DEF PastKept, Recorded, Fresh, None
    <3>2. PushedAway(p)'
      BY <2>1, <2>2, PlanBoth, <3>1
         DEF PushedAway, Looked, RemoteGone, UserGone, Planning, Looking, Fresh, None
    <3>3. DeletedRemote(p)'
      BY <2>1, <2>2, PlanBoth, <3>1 DEF DeletedRemote, Looking, AfterDeletes, Fresh, None
    <3> QED
      BY <3>2, <3>3
  <2>6. Unlisted(p)' /\ Scope(p)'
    BY <2>1, <2>2, PlanBoth DEF Unlisted, Scope, Planning, Looking
  <2>7. Missing(p)' /\ Looked(p)'
    BY <2>1, <2>2, PlanBoth DEF Missing, Looked, UserGone, RemoteGone, Planning, Looking, None
  <2> QED
    BY <2>3, <2>4, <2>5, <2>6, <2>7
<1>21. ASSUME NEW q \in Paths, EditList(q), NEW p \in Paths PROVE DPath(p)'
  BY <1>21, PlanBoth DEF EditList, trees, store, planned, bounds, history,
     Unlisted, Scope, PastKept, Extinct, Away, Arriving, PulledAway, DeletedLocal, PushedAway,
     DeletedRemote, Missing, Looked, RemoteGone, UserGone, Planning, Looking, AfterDeletes, None
<1>22. ASSUME RefusePlan \/ RefusePull \/ RefuseDelete \/ RefuseStale \/ Finish \/ Fail, NEW p \in Paths
       PROVE  DPath(p)'
  <2>1. Forget /\ UNCHANGED <<trees, store, list, newest, history>>
    BY <1>22, Refusals
  <2> QED
    BY <2>1, PlanBoth DEF Forget, trees, store, history,
     Unlisted, Scope, PastKept, Extinct, Away, Arriving, PulledAway, DeletedLocal, PushedAway,
     DeletedRemote, Missing, Looked, RemoteGone, UserGone, Planning, Looking, AfterDeletes, None
<1> QED
  BY <1>1, <1>2, <1>3, <1>4, <1>5, <1>6, <1>7, <1>8, <1>9, <1>10, <1>11, <1>12, <1>13, <1>14, <1>15,
     <1>16, <1>17, <1>18, <1>19, <1>20, <1>21, <1>22, PeerHomeAssumption
     DEF Next, Proceed, MoveFile, UserActs

\* The invariant of the deletions is inductive.
LEMMA DInvStep == Punctual /\ DInv /\ [Next]_vars => DInv'
<1> SUFFICES ASSUME Punctual, DInv, [Next]_vars PROVE DInv'
  OBVIOUS
<1>1. TypeOK' /\ Fresh' /\ Apart'
  BY HomeTypesStep, FreshStep, ApartStep DEF DInv, Punctual
<1>2. CASE Next
  BY <1>1, <1>2, DPathStep DEF DInv
<1>3. CASE UNCHANGED vars
  <2>1. ASSUME NEW p \in Paths PROVE DPath(p)'
    BY <1>3 DEF vars, trees, store, planned, bounds, history, DInv, DPath,
       Unlisted, Scope, PastKept, Extinct, Away, Arriving, PulledAway, DeletedLocal, PushedAway,
       DeletedRemote, Missing, Looked, RemoteGone, UserGone,
       PlanPull, PlanPush, PlanQuarantine, PlanDeleteLocal, PlanDeleteRemote
  <2> QED
    BY <1>1, <2>1 DEF DInv
<1> QED
  BY <1>2, <1>3

\* The steps that move a file of path p here, and what they bring.
LEMMA LocalMoves ==
  ASSUME TypeOK, [Next]_vars, NEW p \in Paths, local'[p] # local[p]
  PROVE  \/ PullFile(p) /\ local'[p] = remote[p] /\ remote[p] # None
         \/ DeleteLocalFile(p) /\ local'[p] = None
         \/ AddFile(p) /\ local'[p] = remote[p] /\ local[p] < remote[p]
         \/ RemoveLocal(p) /\ local'[p] = None
         \/ WriteLocal(p) /\ local'[p] = newest + 1
<1> USE DEF TypeOK, Inventories
<1>1. ASSUME NEW q \in Paths, PullFile(q)
      PROVE  PullFile(p) /\ local'[p] = remote[p] /\ remote[p] # None
  <2>1. p = q
    BY <1>1 DEF PullFile
  <2>2. local'[q] = remote[q] /\ remote[q] # None
    BY <1>1, <2>1 DEF PullFile
  <2> QED
    BY <1>1, <2>1, <2>2
<1>2. ASSUME NEW q \in Paths, DeleteLocalFile(q)
      PROVE  DeleteLocalFile(p) /\ local'[p] = None
  <2>1. p = q
    BY <1>2 DEF DeleteLocalFile
  <2>2. local'[q] = None
    BY <1>2, <2>1 DEF DeleteLocalFile
  <2> QED
    BY <1>2, <2>1, <2>2
<1>3. ASSUME NEW q \in Paths, AddFile(q)
      PROVE  AddFile(p) /\ local'[p] = remote[p] /\ local[p] < remote[p]
  <2>1. p = q
    BY <1>3 DEF AddFile
  <2>2. local'[q] = remote[q] /\ local[q] < remote[q]
    BY <1>3, <2>1 DEF AddFile
  <2> QED
    BY <1>3, <2>1, <2>2
<1>4. ASSUME NEW q \in Paths, RemoveLocal(q)
      PROVE  RemoveLocal(p) /\ local'[p] = None
  <2>1. p = q
    BY <1>4 DEF RemoveLocal
  <2>2. local'[q] = None
    BY <1>4, <2>1 DEF RemoveLocal
  <2> QED
    BY <1>4, <2>1, <2>2
<1>5. ASSUME NEW q \in Paths, WriteLocal(q)
      PROVE  WriteLocal(p) /\ local'[p] = newest + 1
  <2>1. p = q
    BY <1>5 DEF WriteLocal
  <2>2. local'[q] = newest + 1
    BY <1>5, <2>1 DEF WriteLocal
  <2> QED
    BY <1>5, <2>1, <2>2
<1>6. ASSUME NEW q \in Paths,
             \/ SkipLocalFile(q) \/ DeleteRemoteFile(q) \/ PushFile(q)
             \/ WriteRemote(q) \/ RemoveRemote(q) \/ EditList(q)
      PROVE  FALSE
  BY <1>6 DEF SkipLocalFile, DeleteRemoteFile, PushFile, WriteRemote, RemoveRemote, EditList, trees
<1>7. CASE Start \/ PlanRemote \/ Commit \/ Mark \/ ReadLists
  BY <1>7 DEF Start, PlanLocal, PlanRemote, Commit, Mark, ReadLists, trees
<1>8. CASE \/ CheckPull \/ PullDone \/ DeleteLocalDone \/ DeleteRemoteDone \/ Revalidate
           \/ ConflictsDone \/ PushDone \/ AddPullDone
  BY <1>8, PassSteps DEF trees
<1>9. CASE RefusePlan \/ RefusePull \/ RefuseDelete \/ RefuseStale \/ Finish \/ Fail
  BY <1>9, Refusals DEF trees
<1>10. CASE UNCHANGED vars
  BY <1>10 DEF vars, trees
<1> QED
  BY <1>1, <1>2, <1>3, <1>4, <1>5, <1>6, <1>7, <1>8, <1>9, <1>10, PeerHomeAssumption
     DEF Next, Proceed, MoveFile, UserActs

\* The steps that move a file of path p on the peer, and what they bring.
LEMMA RemoteMoves ==
  ASSUME TypeOK, [Next]_vars, NEW p \in Paths, remote'[p] # remote[p]
  PROVE  \/ PushFile(p) /\ remote'[p] = local[p] /\ local[p] # None
         \/ DeleteRemoteFile(p) /\ remote'[p] = None
         \/ AddFile(p) /\ remote'[p] = local[p] /\ ~(local[p] < remote[p])
         \/ RemoveRemote(p) /\ remote'[p] = None
         \/ WriteRemote(p) /\ remote'[p] = newest + 1
<1> USE DEF TypeOK, Inventories
<1>1. ASSUME NEW q \in Paths, PushFile(q)
      PROVE  PushFile(p) /\ remote'[p] = local[p] /\ local[p] # None
  <2>1. p = q
    BY <1>1 DEF PushFile
  <2>2. remote'[q] = local[q] /\ local[q] # None
    BY <1>1, <2>1 DEF PushFile
  <2> QED
    BY <1>1, <2>1, <2>2
<1>2. ASSUME NEW q \in Paths, DeleteRemoteFile(q)
      PROVE  DeleteRemoteFile(p) /\ remote'[p] = None
  <2>1. p = q
    BY <1>2 DEF DeleteRemoteFile
  <2>2. remote'[q] = None
    BY <1>2, <2>1 DEF DeleteRemoteFile
  <2> QED
    BY <1>2, <2>1, <2>2
<1>3. ASSUME NEW q \in Paths, AddFile(q)
      PROVE  AddFile(p) /\ remote'[p] = local[p] /\ ~(local[p] < remote[p])
  <2>1. p = q
    BY <1>3 DEF AddFile
  <2>2. remote'[q] = local[q] /\ ~(local[q] < remote[q])
    BY <1>3, <2>1 DEF AddFile
  <2> QED
    BY <1>3, <2>1, <2>2
<1>4. ASSUME NEW q \in Paths, RemoveRemote(q)
      PROVE  RemoveRemote(p) /\ remote'[p] = None
  <2>1. p = q
    BY <1>4 DEF RemoveRemote
  <2>2. remote'[q] = None
    BY <1>4, <2>1 DEF RemoveRemote
  <2> QED
    BY <1>4, <2>1, <2>2
<1>5. ASSUME NEW q \in Paths, WriteRemote(q)
      PROVE  WriteRemote(p) /\ remote'[p] = newest + 1
  <2>1. p = q
    BY <1>5 DEF WriteRemote
  <2>2. remote'[q] = newest + 1
    BY <1>5, <2>1 DEF WriteRemote
  <2> QED
    BY <1>5, <2>1, <2>2
<1>6. ASSUME NEW q \in Paths,
             \/ SkipLocalFile(q) \/ DeleteLocalFile(q) \/ PullFile(q)
             \/ WriteLocal(q) \/ RemoveLocal(q) \/ EditList(q)
      PROVE  FALSE
  BY <1>6 DEF SkipLocalFile, DeleteLocalFile, PullFile, WriteLocal, RemoveLocal, EditList, trees
<1>7. CASE Start \/ PlanRemote \/ Commit \/ Mark \/ ReadLists
  BY <1>7 DEF Start, PlanLocal, PlanRemote, Commit, Mark, ReadLists, trees
<1>8. CASE \/ CheckPull \/ PullDone \/ DeleteLocalDone \/ DeleteRemoteDone \/ Revalidate
           \/ ConflictsDone \/ PushDone \/ AddPullDone
  BY <1>8, PassSteps DEF trees
<1>9. CASE RefusePlan \/ RefusePull \/ RefuseDelete \/ RefuseStale \/ Finish \/ Fail
  BY <1>9, Refusals DEF trees
<1>10. CASE UNCHANGED vars
  BY <1>10 DEF vars, trees
<1> QED
  BY <1>1, <1>2, <1>3, <1>4, <1>5, <1>6, <1>7, <1>8, <1>9, <1>10, PeerHomeAssumption
     DEF Next, Proceed, MoveFile, UserActs

\* A pull or a push brings a content the baseline does not record, a user's
\* write a new one, and the additive pass works off the list.
LEMMA SticksStep ==
  ASSUME DInv, [Next]_vars, NEW p \in Paths
  PROVE  /\ local'[p] # local[p] => <<p, local'[p]>> \notin past
         /\ remote'[p] # remote[p] => <<p, remote'[p]>> \notin past
<1> USE DEF DInv
<1>1. TypeOK /\ Apart /\ DPath(p)
  OBVIOUS
<1>2. /\ local[p] \in Nat /\ remote[p] \in Nat /\ newest \in Nat
      /\ lsnap[p] \in Nat /\ rsnap[p] \in Nat /\ baseline[p] \in Nat
  BY <1>1 DEF TypeOK, Inventories
<1>3. /\ <<p, None>> \notin past
      /\ <<p, newest + 1>> \notin past
      /\ \A v \in Nat : <<p, v>> \in past => p \in list /\ v # None
      /\ <<p, remote[p]>> \in past => baseline[p] = remote[p] \/ Extinct(p)
      /\ <<p, local[p]>> \in past => baseline[p] = local[p]
  BY <1>1, <1>2 DEF DPath, PastKept, None
<1>4. ASSUME PullFile(p), remote[p] # None PROVE <<p, remote[p]>> \notin past
  <2>1. pc = "pull" /\ p \in todo
    BY <1>4 DEF PullFile
  <2>2. p \in PlanPull
    BY <2>1, <1>1 DEF DPath, Scope
  <2>3. lsnap[p] = baseline[p] /\ rsnap[p] # baseline[p] /\ rsnap[p] # None
    BY <2>2, PlanFacts
  <2>4. p \in listed /\ (baseline[p] # None => remote[p] # baseline[p])
    BY <1>1, <2>1, <2>3 DEF DPath, Away, Unlisted, Planning, Looking
  <2>5. ~Extinct(p)
    BY <2>1, <2>3 DEF Extinct, Planning, Looking
  <2> QED
    BY <1>2, <1>3, <1>4, <2>4, <2>5
<1>5. ASSUME PushFile(p), local[p] # None PROVE <<p, local[p]>> \notin past
  <2>1. pc \in {"conflict", "push"} /\ p \in todo
    BY <1>5 DEF PushFile
  <2>2. p \in PlanPush
    BY <2>1, <1>1, PlanFacts DEF DPath, Scope
  <2>3. lsnap[p] # baseline[p] /\ lsnap[p] # None
    BY <2>2, PlanFacts
  <2>4. p \in listed /\ (baseline[p] # None => local[p] # baseline[p])
    BY <1>1, <2>1, <2>3 DEF DPath, Away, Unlisted, Planning, Looking
  <2> QED
    BY <1>2, <1>3, <1>5, <2>4
<1>6. ASSUME AddFile(p) PROVE \A v \in Nat : <<p, v>> \notin past
  <2>1. p \notin list
    BY <1>1, <1>6 DEF AddFile, Apart
  <2> QED
    BY <1>3, <2>1
<1>7. local'[p] # local[p] => <<p, local'[p]>> \notin past
  BY <1>1, <1>2, <1>3, <1>4, <1>6, LocalMoves
<1>8. remote'[p] # remote[p] => <<p, remote'[p]>> \notin past
  BY <1>1, <1>2, <1>3, <1>5, <1>6, RemoteMoves
<1> QED
  BY <1>7, <1>8

\* A deletion step of a run is one the plan has, of a listed path that the
\* baseline records and a user deleted.
LEMMA UsersStep ==
  ASSUME DInv, [Next]_vars, NEW p \in Paths
  PROVE  /\ (local'[p] = None /\ local[p] # None) =>
               (p \in listed /\ RemoteGone(p)) \/ RemoveLocal(p)
         /\ (remote'[p] = None /\ remote[p] # None) =>
               (p \in listed /\ UserGone(p)) \/ RemoveRemote(p)
<1> USE DEF DInv
<1>1. TypeOK /\ DPath(p)
  OBVIOUS
<1>2. /\ newest \in Nat /\ lsnap[p] \in Nat /\ rsnap[p] \in Nat /\ baseline[p] \in Nat
      /\ local[p] \in Nat /\ remote[p] \in Nat
  BY <1>1 DEF TypeOK, Inventories
<1>3. ASSUME DeleteLocalFile(p) PROVE p \in listed /\ RemoteGone(p)
  <2>1. pc = "dellocal" /\ p \in todo
    BY <1>3 DEF DeleteLocalFile
  <2>2. p \in PlanDeleteLocal
    BY <1>1, <2>1 DEF DPath, Scope
  <2>3. lsnap[p] = baseline[p] /\ rsnap[p] # baseline[p] /\ rsnap[p] = None
    BY <2>2, PlanFacts
  <2>4. p \in listed
    BY <1>1, <2>1, <2>3 DEF DPath, Unlisted, Planning, Looking
  <2> QED
    BY <1>1, <2>1, <2>3, <2>4 DEF DPath, Looked, Planning, Looking
<1>4. ASSUME DeleteRemoteFile(p) PROVE p \in listed /\ UserGone(p)
  <2>1. pc = "delremote" /\ p \in todo
    BY <1>4 DEF DeleteRemoteFile
  <2>2. p \in PlanDeleteRemote /\ baseline[p] # None
    BY <1>1, <2>1 DEF DPath, Scope
  <2>3. lsnap[p] # rsnap[p] /\ lsnap[p] = None
    BY <2>2, PlanFacts
  <2>4. p \in listed
    BY <1>1, <2>1, <2>3 DEF DPath, Unlisted, Planning, Looking
  <2> QED
    BY <1>1, <2>1, <2>2, <2>3, <2>4 DEF DPath, Looked, Planning, Looking
<1>5. /\ newest + 1 # None
      /\ local[p] < remote[p] => remote[p] # None
      /\ (remote[p] # None /\ ~(local[p] < remote[p])) => local[p] # None
  BY <1>2 DEF None
<1>6. (local'[p] = None /\ local[p] # None) => (p \in listed /\ RemoteGone(p)) \/ RemoveLocal(p)
  BY <1>1, <1>3, <1>5, LocalMoves
<1>7. (remote'[p] = None /\ remote[p] # None) => (p \in listed /\ UserGone(p)) \/ RemoveRemote(p)
  BY <1>1, <1>4, <1>5, RemoteMoves
<1> QED
  BY <1>6, <1>7

\* A version the verified baseline of a tracked path had when a user replaced
\* or deleted it is never put on either Mac again while the path stays listed:
\* neither the tracked pass nor the newest-wins pass revives it, across failed
\* runs and baselines written without their marker.
THEOREM HomeSticks ==
  ASSUME Punctual
  PROVE  Spec => RecordedSticks
<1>1. Punctual /\ DInv /\ [Next]_vars => DInv'
  BY DInvStep
<1>2. DInv /\ [Next]_vars =>
        [\A p \in Paths :
           /\ local'[p] # local[p] => <<p, local'[p]>> \notin past
           /\ remote'[p] # remote[p] => <<p, remote'[p]>> \notin past]_vars
  BY SticksStep
<1> QED
  BY <1>1, <1>2, DInvInit, PTL DEF Spec, RecordedSticks

\* A run of the host paths takes a file off a Mac only when the path was listed
\* as it planned and some user deleted it: computeHomeTombstones and
\* deletePeerHomeLocal read no unlisted path, no stopped run and no file the
\* other Mac never had as a deletion.
THEOREM HomeDeletionsByUsers ==
  ASSUME Punctual
  PROVE  Spec => DeletionsAreUsers
<1>1. Punctual /\ DInv /\ [Next]_vars => DInv'
  BY DInvStep
<1>2. ASSUME DInv, [Next]_vars
      PROVE  [\A p \in Paths :
                /\ (local'[p] = None /\ local[p] # None) =>
                      (p \in listed /\ <<"remote", p>> \in userDeleted) \/ RemoveLocal(p)
                /\ (remote'[p] = None /\ remote[p] # None) =>
                      \/ /\ p \in listed
                         /\ {<<"local", p>>, <<"remote", p>>} \cap userDeleted # {}
                      \/ RemoveRemote(p)]_vars
  BY <1>2, UsersStep DEF RemoteGone, UserGone
<1> QED
  BY <1>1, <1>2, DInvInit, PTL DEF Spec, DeletionsAreUsers

-----------------------------------------------------------------------------
(* The merged host files *)

\* What a merge of the two copies may give.
Merges(x, y) == {MergeKeys(x, y), MergeKeys(y, x)}

\* Only a two-way run gets past its passes with something to merge, and a
\* result exists from the decision to merge on.
MergePath ==
    /\ attempt > 0 => mode = "both"
    /\ stage \in {"checkhere", "checkpeer", "write", "push"} => attempt > 0
    /\ stage \in {"idle", "look", "decide", "passes"} => result = NoDoc
    /\ stage \in {"checkhere", "checkpeer", "write", "push"} => result \in Docs
    /\ stage \in {"idle", "passes"} => attempt = 0

\* What the run knows of the copy here before it writes.
KnownHere ==
    (stage = "checkhere" /\ ~touched) \/ stage = "checkpeer" =>
        /\ file["here"] \in Docs
        /\ peerData \in Docs
        /\ result \in Merges(file["here"], peerData)

\* Both copies are unwritten since the second look at them.
Checked ==
    /\ stage = "checkhere" => peerData \in Docs
    /\ stage = "write" =>
          \A m \in Macs : file[m] \in Docs /\ file[m].entries \subseteq result.entries
    /\ stage = "push" =>
          file["peer"] \in Docs /\ file["peer"].entries \subseteq result.entries

\* From the write on, a copy that is not the result is somebody's.
Spread ==
    /\ stage = "push" => ("here" \in saved \/ file["here"] = result)
    /\ MergedOnBoth

\* The invariant of the merge.
MergeInv == MergeTypeOK /\ MergePath /\ KnownHere /\ Checked /\ Spread

\* A merge gives a document with the entries of both copies.
LEMMA MergeDocs ==
    ASSUME NEW x \in Docs, NEW y \in Docs
    PROVE  /\ MergeKeys(x, y) \in Docs
           /\ x.entries \subseteq MergeKeys(x, y).entries
           /\ y.entries \subseteq MergeKeys(x, y).entries
BY DEF Docs, MergeKeys

\* What stands for no document is none.
LEMMA MergeValues ==
  /\ {NoDoc, Absent, Odd, Text} \cap Docs = {}
  /\ MaxStops \in Nat
  /\ Docs \subseteq Contents /\ {Absent, Odd, Text} \subseteq Contents
BY HostMergeAssumption DEF Docs, Contents

\* Two copies and no run.
LEMMA MergeInvInit == MergeInit => MergeInv
<1>1. MergeInit => touched \in BOOLEAN
  BY DEF MergeInit
<1> QED BY <1>1, MergeValues
           DEF MergeInit, MergeInv, MergeTypeOK, MergePath, KnownHere, Checked, Spread,
           MergedOnBoth,
   Stages, Directions, Kinds, hostMergeAttempts

\* Every step of the run, of the create-only pass and of the apps keeps the
\* four parts of the invariant.
LEMMA MergeInvStep ==
  ASSUME "race" \notin Races, MergeInv, [MergeNext]_mergeVars 
  PROVE  MergeInv'
<1> USE MergeValues DEF MergeInv
<1>t. MergeTypeOK'
  <2> USE DEF MergeTypeOK, mergeVars, mergeRun, hostMergeAttempts, Stages, Directions, Kinds
  <2>t. touched' \in BOOLEAN
    BY DEF MergeNext, Merge, Create, Begin, StartMerge, Look, Decide, Decline, Passes, CheckHere,
       CheckPeer, Write, PushMerged, PullOnly, PushOnly, Stop, Apps, Load, Save, ReplaceFile,
       Written,
       Onwards, Discard, Keep, Again, Unchanged, End, NoMerge
  <2> USE <2>t
  <2>1. CASE Begin
    BY <2>1 DEF Begin, StartMerge, Goto
  <2>2. CASE Look
    BY <2>2 DEF Look, Goto, KindOf, Macs
  <2>3. CASE Decide
    BY <2>3, MergeDocs DEF Decide, Goto, Keep, Onwards, Discard, Refused, Mergeable
  <2>4. CASE Decline
    BY <2>4 DEF Decline, Goto, Onwards, Discard, End, NoMerge
  <2>5. CASE Passes
    BY <2>5 DEF Passes, Goto
  <2>6. CASE CheckHere
    BY <2>6 DEF CheckHere, Again, Unchanged, End, NoMerge, Keep, Goto, Discard
  <2>7. CASE CheckPeer
    BY <2>7 DEF CheckPeer, Again, Unchanged, End, NoMerge, Goto, Discard
  <2>8. CASE Write
    <3>1. (file \in [Macs -> Contents])'
      BY <2>8 DEF Write, End, NoMerge, MergePath, Macs
    <3> QED BY <2>8, <3>1 DEF Write, End, NoMerge, Goto
  <2>9. CASE PushMerged
    BY <2>9 DEF PushMerged, Goto, MergePath, Macs
  <2>10. CASE PullOnly
    <3>1. (file \in [Macs -> Contents])'
      BY <2>10 DEF PullOnly, CreateOnly, Macs
    <3> QED BY <2>10, <3>1 DEF PullOnly, NoMerge, Goto
  <2>11. CASE PushOnly
    <3>1. (file \in [Macs -> Contents])'
      BY <2>11 DEF PushOnly, CreateOnly, Macs
    <3> QED BY <2>11, <3>1 DEF PushOnly, NoMerge
  <2>12. CASE Stop
    BY <2>12 DEF Stop, NoMerge
  <2>13. CASE Apps
    <3>1. (file \in [Macs -> Contents])'
      BY <2>13 DEF Apps, Load, Save, ReplaceFile, Written, Changes
    <3>2. (mem \in [Macs -> Docs \cup {NoDoc}])'
      BY <2>13 DEF Apps, Load, Save, ReplaceFile, Changes
    <3>3. (saved \subseteq Macs)'
      BY <2>13 DEF Apps, Load, Save, ReplaceFile, Written
    <3> QED BY <2>13, <3>1, <3>2, <3>3 DEF Apps, Load, Save, ReplaceFile, Written
  <2>14. CASE UNCHANGED mergeVars
    BY <2>14
  <2> QED BY <2>1, <2>2, <2>3, <2>4, <2>5, <2>6, <2>7, <2>8, <2>9, <2>10, <2>11, <2>12, <2>13, <2>14
     DEF MergeNext, Merge, Create
<1>p. MergePath'
  <2> USE DEF MergePath
  <2>1. CASE Begin
    BY <2>1 DEF Begin, StartMerge, Goto
  <2>2. CASE Look
    BY <2>2 DEF Look, Goto
  <2>3. CASE Decide
    BY <2>3, MergeDocs DEF Decide, Goto, Keep, Onwards, Refused, Mergeable, MergeTypeOK
  <2>4. CASE Decline
    BY <2>4 DEF Decline, Goto, Onwards, End, NoMerge
  <2>5. CASE Passes
    BY <2>5 DEF Passes, Goto
  <2>6. CASE CheckHere
    BY <2>6 DEF CheckHere, Again, Unchanged, End, NoMerge, Goto, MergeTypeOK
  <2>7. CASE CheckPeer
    BY <2>7 DEF CheckPeer, Again, Unchanged, End, NoMerge, Goto, MergeTypeOK
  <2>8. CASE Write
    BY <2>8 DEF Write, End, NoMerge, Goto
  <2>9. CASE PushMerged
    BY <2>9 DEF PushMerged, Goto
  <2>10. CASE PullOnly
    BY <2>10 DEF PullOnly, Goto, NoMerge
  <2>11. CASE PushOnly
    BY <2>11 DEF PushOnly, NoMerge
  <2>12. CASE Stop
    BY <2>12 DEF Stop, NoMerge
  <2>13. CASE Apps
    BY <2>13 DEF Apps, Load, Save, ReplaceFile, Written, mergeRun
  <2>14. CASE UNCHANGED mergeVars
    BY <2>14 DEF mergeVars, mergeRun
  <2> QED BY <2>1, <2>2, <2>3, <2>4, <2>5, <2>6, <2>7, <2>8, <2>9, <2>10, <2>11, <2>12, <2>13, <2>14
     DEF MergeNext, Merge, Create
<1>k. KnownHere' /\ Checked'
  <2> USE DEF KnownHere, Checked
  <2>1. CASE Begin
    BY <2>1 DEF Begin, StartMerge, Goto
  <2>2. CASE Look
    BY <2>2 DEF Look, Goto
  <2>3. CASE Decide
    BY <2>3, MergeDocs DEF Decide, Goto, Keep, Onwards, Refused, Mergeable, Merges
  <2>4. CASE Decline
    BY <2>4 DEF Decline, Goto, Onwards, End, NoMerge
  <2>5. CASE Passes
    BY <2>5 DEF Passes, Goto
  <2>6. CASE CheckHere
    BY <2>6 DEF CheckHere, Again, Unchanged, End, NoMerge, Goto, Keep
  <2>7. CASE CheckPeer
    BY <2>7, MergeDocs DEF CheckPeer, Again, Unchanged, End, NoMerge, Goto, Merges, Macs, Discard
  <2>8. CASE Write
    BY <2>8 DEF Write, End, NoMerge, Goto, Macs, MergeTypeOK
  <2>9. CASE PushMerged
    BY <2>9 DEF PushMerged, Goto
  <2>10. CASE PullOnly
    BY <2>10 DEF PullOnly, Goto, NoMerge
  <2>11. CASE PushOnly
    BY <2>11 DEF PushOnly, NoMerge
  <2>12. CASE Stop
    BY <2>12 DEF Stop, NoMerge
  <2>13. ASSUME NEW m \in Macs, Load(m) PROVE KnownHere' /\ Checked'
    BY <2>13 DEF Load, mergeRun
  <2>14. ASSUME NEW m \in Macs, NEW c, Written(m, c) PROVE KnownHere' /\ Checked'
    BY <2>14 DEF Written, MayWrite, Macs, MergeTypeOK
  <2>15. CASE UNCHANGED mergeVars
    BY <2>15 DEF mergeVars, mergeRun
  <2> QED BY <2>1, <2>2, <2>3, <2>4, <2>5, <2>6, <2>7, <2>8, <2>9, <2>10, <2>11, <2>12, <2>13,
             <2>14, <2>15
     DEF MergeNext, Merge, Create, Apps, Save, ReplaceFile
<1>s. Spread'
  <2> USE DEF Spread, MergedOnBoth
  <2>1. CASE Begin
    BY <2>1 DEF Begin, StartMerge, Goto
  <2>2. CASE Look
    BY <2>2 DEF Look, Goto
  <2>3. CASE Decide
    BY <2>3 DEF Decide, Goto, Onwards, MergePath
  <2>4. CASE Decline
    BY <2>4 DEF Decline, Goto, Onwards, End, NoMerge, MergePath
  <2>5. CASE Passes
    BY <2>5 DEF Passes, Goto, MergePath
  <2>6. CASE CheckHere
    BY <2>6 DEF CheckHere, Again, Unchanged, End, NoMerge, Goto
  <2>7. CASE CheckPeer
    BY <2>7 DEF CheckPeer, Again, Unchanged, End, NoMerge, Goto
  <2>8. CASE Write
    BY <2>8 DEF Write, End, NoMerge, Goto, Macs, MergeTypeOK
  <2>9. CASE PushMerged
    BY <2>9 DEF PushMerged, Goto, Macs, MergeTypeOK
  <2>10. CASE PullOnly
    BY <2>10 DEF PullOnly, Goto, NoMerge, CreateOnly, Macs, MergeTypeOK
  <2>11. CASE PushOnly
    BY <2>11 DEF PushOnly, NoMerge
  <2>12. CASE Stop
    BY <2>12 DEF Stop, NoMerge
  <2>13. ASSUME NEW m \in Macs, Load(m) PROVE Spread'
    BY <2>13 DEF Load, mergeRun
  <2>14. ASSUME NEW m \in Macs, NEW c, Written(m, c) PROVE Spread'
    BY <2>14 DEF Written, MayWrite, Macs, MergeTypeOK
  <2>15. CASE UNCHANGED mergeVars
    BY <2>15 DEF mergeVars, mergeRun
  <2> QED BY <2>1, <2>2, <2>3, <2>4, <2>5, <2>6, <2>7, <2>8, <2>9, <2>10, <2>11, <2>12, <2>13,
             <2>14, <2>15
     DEF MergeNext, Merge, Create, Apps, Save, ReplaceFile
<1> QED BY <1>t, <1>p, <1>k, <1>s

\* A step leaves every entry where it is, and a one-way run every copy.
Spares ==
    \A m \in Macs :
        /\ \A n \in Names : Has(m, n) => Has(m, n)'
        /\ mode # "both" /\ Present(m) => file'[m] = file[m]

\* The run writes results that have both copies' entries, and creates only
\* what is absent.
LEMMA SparesStep ==
  ASSUME MergeInv, [MergeNext]_mergeVars
  PROVE  Apps \/ Spares
<1>1. CASE Write
  BY <1>1 DEF Write, End, MergeInv, MergePath, Checked, Spares, Has, Macs, MergeTypeOK
<1>2. CASE PushMerged
  BY <1>2 DEF PushMerged, MergeInv, MergePath, Checked, Spares, Has, Macs, MergeTypeOK
<1>3. CASE Create
  BY <1>3, MergeValues
     DEF Create, PullOnly, PushOnly, CreateOnly, MergeInv, Spares, Has, Present, Macs,
     MergeTypeOK
<1>4. CASE UNCHANGED file
  BY <1>4 DEF Spares, Has
<1>5. Write \/ PushMerged \/ Create \/ Apps \/ UNCHANGED file
  BY DEF MergeNext, Merge, Begin, StartMerge, Look, Decide, Decline, Passes, CheckHere, CheckPeer,
     Stop, End, Again, Unchanged, mergeVars
<1> QED BY <1>1, <1>2, <1>3, <1>4, <1>5

\* When a run has merged a host file, each Mac has the result unless somebody
\* saved over it since, for any set of entries and any number of stopped runs:
\* the look-again loop of mergePeerHostFiles never leaves the two copies apart.
\* Saves at any other moment than the two unchecked windows are allowed.
THEOREM MergeLands ==
    ASSUME "race" \notin Races
    PROVE  MergeSpec => []MergedOnBoth
<1>1. MergeInv => MergedOnBoth
  BY DEF MergeInv, Spread
<1>2. MergeInv /\ [MergeNext]_mergeVars => MergeInv'
  BY MergeInvStep
<1> QED BY <1>1, <1>2, MergeInvInit, PTL DEF MergeSpec

\* No step of the run takes an entry off a copy of the file, and a one-way run
\* changes no copy that is there: writeHostMerges and pushMergedCopy replace a
\* copy only by one that has its entries.
THEOREM MergeDropsNothing ==
    ASSUME "race" \notin Races
    PROVE  MergeSpec => EntriesKept
<1>1. MergeInv /\ [MergeNext]_mergeVars => MergeInv'
  BY MergeInvStep
<1>2. MergeInv /\ [MergeNext]_mergeVars =>
        [Apps \/ \A m \in Macs :
          /\ \A n \in Names : Has(m, n) => Has(m, n)'
          /\ mode # "both" /\ Present(m) => file'[m] = file[m]]_file
  BY SparesStep DEF Spares
<1> QED BY <1>1, <1>2, MergeInvInit, PTL DEF MergeSpec, EntriesKept

=============================================================================
