--------------------------- MODULE PeerSyncProofs ---------------------------
(***************************************************************************)
(* Proofs about PeerReconcile and PeerSync, for every set of paths, every  *)
(* number of versions and of interrupted runs, and every mix of options.   *)
(*                                                                         *)
(* The argument of NoEditLost.  A version is Gone when there is nothing    *)
(* left to lose of it: it was never written, a user has replaced or        *)
(* deleted it, or a quarantine holds it; a version that is Gone stays so.  *)
(* What the baseline records is Gone or on both machines (BaselineKept).   *)
(* So an inventory that differs from the baseline proves the baseline's    *)
(* version Gone (LocalLook, RemoteLook), and what a pull or a plain push   *)
(* overwrites is exactly the baseline's version, provided nobody wrote     *)
(* the file since the look the plan rests on (Attentive).  The next        *)
(* baseline is again on both machines because the passes put it there      *)
(* (Pulled, Pushed), or else it is Gone by then.                           *)
(***************************************************************************)
EXTENDS PeerSync, TLAPS

\* No user hits the three windows between a look and the step based on it.
Attentive == Faults \cap {"planGap", "pullGap", "pushGap"} = {}

AfterRemote == {"pull", "dellocal", "delremote", "revalidate", "conflict", "push",
                "commit"}
AfterLocal == {"remote"} \cup AfterRemote

Gone(p, v) == v = None \/ <<p, v>> \notin live \/ <<p, v>> \in quarantine
Both(p, v) == local[p] = v /\ remote[p] = v

\* No version is newer than the counter.
Fresh ==
    /\ \A p \in Paths :
         /\ local[p] <= newest /\ remote[p] <= newest /\ baseline[p] <= newest
         /\ lsnap[p] <= newest /\ rsnap[p] <= newest
    /\ \A e \in live : e[2] <= newest

Kept(p) == \A v \in Nat : Gone(p, v) \/ local[p] = v \/ remote[p] = v

BaselineKept(p) == Gone(p, baseline[p]) \/ Both(p, baseline[p])

\* A tombstone is a recorded file the local inventory does not have either.
Evident(p) ==
    p \in tombstones =>
        /\ pc = "local" => baseline[p] # None /\ local[p] = None
        /\ pc \in AfterLocal => baseline[p] # None /\ lsnap[p] = None

LocalLook(p) ==
    pc \in AfterLocal =>
        /\ Gone(p, lsnap[p]) \/ local[p] = lsnap[p]
        /\ lsnap[p] # baseline[p] => Gone(p, baseline[p])
        /\ (pc = "remote" \/ (pc = "pull" /\ p \in todo)) => local[p] \in {lsnap[p], None}

RemoteLook(p) ==
    pc \in AfterRemote =>
        /\ Gone(p, rsnap[p]) \/ remote[p] = rsnap[p]
        /\ rsnap[p] # baseline[p] => Gone(p, baseline[p])
        /\ (p \in PlanPush \ PlanQuarantine /\ (pc = "conflict" \/ (pc = "push" /\ p \in todo)))
              => remote[p] \in {rsnap[p], None}

\* A pass moves only files of its own part of the plan.
Scope(p) ==
    p \in todo =>
        /\ pc = "pull" => p \in PlanPull
        /\ pc = "conflict" => p \in PlanQuarantine
        /\ pc = "push" => p \in PlanPush \ PlanQuarantine

Pulled(p) ==
    (/\ p \in PlanPull
     /\ run.mode # "push"
     /\ pc \in AfterRemote
     /\ pc = "pull" => p \notin todo)
    => Gone(p, rsnap[p]) \/ Both(p, rsnap[p])

Pushed(p) ==
    (/\ p \in PlanPush
     /\ run.mode # "pull"
     /\ \/ pc = "commit"
        \/ pc = "push" /\ p \notin todo
        \/ pc = "conflict" /\ p \in PlanQuarantine \ todo)
    => Gone(p, lsnap[p]) \/ Both(p, lsnap[p])

PathInv(p) ==
    /\ Kept(p) /\ BaselineKept(p) /\ Evident(p) /\ LocalLook(p) /\ RemoteLook(p)
    /\ Scope(p) /\ Pulled(p) /\ Pushed(p)

IInv == TypeOK /\ Fresh /\ \A p \in Paths : PathInv(p)

-----------------------------------------------------------------------------

\* The plan, path by path.
LEMMA PlanFacts ==
  ASSUME NEW p \in Paths
  PROVE  /\ p \in PlanPull <=>
               lsnap[p] = baseline[p] /\ rsnap[p] # baseline[p] /\ rsnap[p] # None
         /\ p \in PlanPush <=>
               lsnap[p] # baseline[p] /\ lsnap[p] # rsnap[p] /\ lsnap[p] # None
         /\ p \in PlanQuarantine <=>
               p \in PlanPush /\ rsnap[p] # baseline[p] /\ rsnap[p] # None
         /\ p \in PlanDeleteLocal <=>
               lsnap[p] = baseline[p] /\ rsnap[p] # baseline[p] /\ rsnap[p] = None
         /\ p \in PlanDeleteRemote <=>
               lsnap[p] # baseline[p] /\ lsnap[p] # rsnap[p] /\ lsnap[p] = None
         /\ PlanNext[p] = IF lsnap[p] # baseline[p] THEN lsnap[p] ELSE rsnap[p]
  BY DEF PlanPull, PlanPush, PlanQuarantine, PlanDeleteLocal, PlanDeleteRemote, PlanNext,
         Pull, Push, QuarantineRemote, DeleteLocal, DeleteRemote, NextBaseline,
         Accepted, Sent, LocalChanged, RemoteChanged

LEMMA TInvInit == Init => TypeOK
<1> SUFFICES ASSUME Init PROVE TypeOK
  OBVIOUS
<1> USE DEF Init, Inventories, NoFiles, None, NoRun
<1>1. local \in Inventories /\ remote \in Inventories /\ baseline \in Inventories /\ ready \in BOOLEAN
  <2>1. CASE local \in [Paths -> {None, 1}] /\ remote \in [Paths -> {None, 1, 2}] /\ baseline = NoFiles /\ ready = FALSE
    <3>1. local \in Inventories /\ remote \in Inventories
      BY <2>1
    <3>2. NoFiles \in Inventories
      OBVIOUS
    <3> QED
      BY <2>1, <3>1, <3>2
  <2>2. CASE local \in [Paths -> {None, 1}] /\ remote = local /\ baseline = local /\ ready = TRUE
    BY <2>2
  <2> QED
    BY <2>1, <2>2
<1>2. live \subseteq Entries
  BY DEF Entries
<1>3. fails \in 0..MaxFails
  BY PeerSyncAssumption
<1>4. newest \in Nat
  OBVIOUS
<1> QED
  BY <1>1, <1>2, <1>3, <1>4 DEF TypeOK, Pcs, Options, Entries

LEMMA TInvStep == TypeOK /\ [Next]_vars => TypeOK'
<1> SUFFICES ASSUME TypeOK, [Next]_vars PROVE TypeOK'
  OBVIOUS
<1> USE DEF TypeOK, Inventories, NoFiles, None, Pcs, Options, NoRun, Entries, Forget
<1>1. ASSUME Start PROVE TypeOK'
  BY <1>1, PeerSyncAssumption DEF Start, ComputeTombstones, Evidence, Held, trees, store, history
<1>b. ASSUME NEW who PROVE By(who) \subseteq deletions
  BY DEF By
<1>2. ASSUME InventoryLocal PROVE TypeOK'
  BY <1>2, <1>b DEF InventoryLocal, trees, store, history
<1>3. ASSUME InventoryRemote PROVE TypeOK'
  BY <1>3, <1>b
     DEF InventoryRemote, trees, store, history, Pull, Accepted, LocalChanged, RemoteChanged
<1>4. ASSUME RefusePlan \/ StopOnPartial \/ RefuseStale \/ Fail PROVE TypeOK'
  <2>1. Refuse \/ Fail
    BY <1>4 DEF RefusePlan, StopOnPartial, RefuseStale
  <2>2. fails' \in 0..MaxFails
    BY <2>1, PeerSyncAssumption DEF Refuse, Fail
  <2>3. Forget /\ UNCHANGED <<trees, store, history>>
    BY <2>1 DEF Refuse, Fail
  <2> QED
    BY <2>2, <2>3 DEF trees, store, history
<1>5. ASSUME NEW p \in Paths, PullFile(p) PROVE TypeOK'
  BY <1>5 DEF PullFile, store, history, planned
<1>6. ASSUME NEW p \in Paths, DeleteLocalFile(p) PROVE TypeOK'
  BY <1>6 DEF DeleteLocalFile, store, history, planned
<1>7. ASSUME NEW p \in Paths, DeleteRemoteFile(p) PROVE TypeOK'
  BY <1>7 DEF DeleteRemoteFile, store, history, planned
<1>8. ASSUME NEW p \in Paths, PushFile(p) PROVE TypeOK'
  BY <1>8 DEF PushFile, Overwritten, store, history, planned
<1>9. ASSUME NEW l \in Pcs, NEW files \in SUBSET Paths, Enter(l, files), complete' \in BOOLEAN
      PROVE  TypeOK'
  BY <1>9 DEF Enter, trees, store, history, planned
<1>10. PlanDeleteLocal \in SUBSET Paths /\ DeleteSet \in SUBSET Paths /\ PlanQuarantine \in SUBSET Paths /\ PlanPush \in SUBSET Paths
  BY DEF PlanDeleteLocal, DeleteSet, PlanQuarantine, PlanPush, DeleteLocal, Accepted,
     RemoteChanged, QuarantineRemote, Push, Sent, LocalChanged
<1>11. ASSUME PullDone PROVE TypeOK'
  BY <1>9, <1>10, <1>11 DEF PullDone
<1>12. ASSUME DeleteLocalDone PROVE TypeOK'
  BY <1>9, <1>10, <1>12 DEF DeleteLocalDone
<1>13. ASSUME DeleteRemoteDone \/ Revalidate \/ ConflictsDone \/ PushDone PROVE TypeOK'
  BY <1>9, <1>10, <1>13 DEF DeleteRemoteDone, Revalidate, ConflictsDone, PushDone
<1>14. ASSUME Commit PROVE TypeOK'
  <2>1. Committed \in Inventories
    BY DEF Committed, PlanNext, NextBaseline
  <2> QED
    BY <1>14, <1>b, <2>1 DEF Commit, trees, history, planned
<1>15. ASSUME Mark \/ Stamp PROVE TypeOK'
  <2>1. CASE Mark
    BY <2>1 DEF Mark, trees, history, planned
  <2>2. CASE Stamp
    <3>1. held' \in BOOLEAN
      BY <2>2 DEF Stamp
    <3> QED
      BY <2>2, <3>1 DEF Stamp, trees, history
  <2> QED
    BY <1>15, <2>1, <2>2
<1>16. ASSUME UserActs PROVE TypeOK'
  BY <1>16
     DEF UserActs, WriteLocal, WriteRemote, Replace, RemoveLocal, RemoveRemote, Remove, store,
     planned
<1>17. CASE UNCHANGED vars
  BY <1>17 DEF vars, trees, store, planned, history
<1> QED
  BY <1>1, <1>2, <1>3, <1>4, <1>5, <1>6, <1>7, <1>8, <1>11, <1>12, <1>13, <1>14, <1>15, <1>16, <1>17
     DEF Next, Proceed, MoveFile

\* Every variable of every reachable state has its type.
THEOREM TypeCorrect == Spec => []TypeOK
  BY TInvInit, TInvStep, PTL DEF Spec

-----------------------------------------------------------------------------

LEMMA IInvInit == Init => Fresh /\ \A p \in Paths : PathInv(p)
<1> SUFFICES ASSUME Init PROVE Fresh /\ \A p \in Paths : PathInv(p)
  OBVIOUS
<1>1. TypeOK
  BY TInvInit
<1>2. Fresh
  BY <1>1 DEF Init, Fresh, NoFiles, None
<1>3. ASSUME NEW p \in Paths PROVE PathInv(p)
  <2>1. Kept(p)
    BY <1>1 DEF Kept, Gone, Init, None
  <2>2. BaselineKept(p)
    BY <1>1 DEF BaselineKept, Both, Gone, Init, NoFiles
  <2> QED
    BY <2>1, <2>2 DEF Init, PathInv, Evident, LocalLook, RemoteLook, Scope, Pulled, Pushed,
                      AfterLocal, AfterRemote
<1> QED
  BY <1>2, <1>3

\* No version is newer than the counter, and no step makes one that is.
LEMMA FreshStep == TypeOK /\ Fresh /\ [Next]_vars => Fresh'
<1> SUFFICES ASSUME TypeOK, Fresh, [Next]_vars PROVE Fresh'
  OBVIOUS
<1> USE DEF TypeOK, Inventories, Fresh
<1>1. CASE Start \/ InventoryLocal \/ InventoryRemote
  BY <1>1 DEF Start, ComputeTombstones, InventoryLocal, InventoryRemote, trees, store, history
<1>2. ASSUME NEW q \in Paths,
             PullFile(q) \/ DeleteLocalFile(q) \/ DeleteRemoteFile(q) \/ PushFile(q)
      PROVE  Fresh'
  BY <1>2 DEF PullFile, DeleteLocalFile, DeleteRemoteFile, PushFile, store, history, planned, None
<1>3. CASE PullDone \/ DeleteLocalDone \/ DeleteRemoteDone \/ Revalidate \/ ConflictsDone \/ PushDone
  BY <1>3 DEF PullDone, DeleteLocalDone, DeleteRemoteDone, Revalidate, ConflictsDone, PushDone,
     Enter, trees, store, planned, history
<1>4. CASE Commit
  <2>1. \A p \in Paths : PlanNext[p] = IF lsnap[p] # baseline[p] THEN lsnap[p] ELSE rsnap[p]
    BY PlanFacts
  <2> QED
    BY <1>4, <2>1 DEF Commit, CanCommit, Committed, trees, history, planned
<1>5. CASE Mark \/ Stamp
  BY <1>5 DEF Mark, Stamp, Forget, NoFiles, None, trees, planned, history
<1>6. ASSUME NEW q \in Paths, WriteLocal(q) \/ WriteRemote(q) PROVE Fresh'
  <2>1. /\ newest' = newest + 1
        /\ \A e \in live' : e \in live \/ e = <<q, newest + 1>>
        /\ UNCHANGED <<baseline, lsnap, rsnap>>
        /\ \/ local' = [local EXCEPT ![q] = newest + 1] /\ remote' = remote
           \/ remote' = [remote EXCEPT ![q] = newest + 1] /\ local' = local
    BY <1>6 DEF WriteLocal, WriteRemote, Replace, store, planned
  <2>2. \A e \in live' : e[2] <= newest'
    BY <2>1 DEF Entries
  <2> QED
    BY <2>1, <2>2
<1>7. ASSUME NEW q \in Paths, RemoveLocal(q) \/ RemoveRemote(q) PROVE Fresh'
  BY <1>7 DEF RemoveLocal, RemoveRemote, Remove, store, planned, None
<1>8. CASE RefusePlan \/ StopOnPartial \/ RefuseStale \/ Fail
  <2>1. Forget /\ UNCHANGED <<trees, store, history>>
    BY <1>8 DEF RefusePlan, StopOnPartial, RefuseStale, Refuse, Fail
  <2> QED
    BY <2>1 DEF Forget, NoFiles, None, trees, store, history
<1>9. CASE UNCHANGED vars
  BY <1>9 DEF vars, trees, store, planned, history
<1> QED
  BY <1>1, <1>2, <1>3, <1>4, <1>5, <1>6, <1>7, <1>8, <1>9 DEF Next, Proceed, MoveFile, UserActs

\* Every step of a run and of a user keeps the invariant: one step per action.
LEMMA IInvStep ==
  ASSUME Attentive, TypeOK, TypeOK', Fresh, \A p \in Paths : PathInv(p), Next
  PROVE  \A p \in Paths : PathInv(p)'
<1> USE DEF TypeOK, Inventories, PathInv
<1>f. ASSUME NEW p \in Paths
      PROVE /\ p \in PlanPull <=>
                  lsnap[p] = baseline[p] /\ rsnap[p] # baseline[p] /\ rsnap[p] # None
            /\ p \in PlanPush <=>
                  lsnap[p] # baseline[p] /\ lsnap[p] # rsnap[p] /\ lsnap[p] # None
            /\ p \in PlanQuarantine <=>
                  p \in PlanPush /\ rsnap[p] # baseline[p] /\ rsnap[p] # None
            /\ p \in PlanPull' <=>
                  lsnap'[p] = baseline'[p] /\ rsnap'[p] # baseline'[p] /\ rsnap'[p] # None
            /\ p \in PlanPush' <=>
                  lsnap'[p] # baseline'[p] /\ lsnap'[p] # rsnap'[p] /\ lsnap'[p] # None
            /\ p \in PlanQuarantine' <=>
                  p \in PlanPush' /\ rsnap'[p] # baseline'[p] /\ rsnap'[p] # None
  BY DEF PlanPull, PlanPush, PlanQuarantine, Pull, Push, QuarantineRemote,
         Accepted, Sent, LocalChanged, RemoteChanged
<1>1. ASSUME Start, NEW p \in Paths PROVE PathInv(p)'
  BY <1>1, <1>f DEF Start, ComputeTombstones, Evidence, Held, trees, store, history,
     Kept, BaselineKept, Evident, LocalLook, RemoteLook, Scope, Pulled, Pushed, Gone, Both,
     AfterLocal, AfterRemote
<1>2. ASSUME InventoryLocal, NEW p \in Paths PROVE PathInv(p)'
  BY <1>2, <1>f DEF InventoryLocal, trees, store, history,
     Kept, BaselineKept, Evident, LocalLook, RemoteLook, Scope, Pulled, Pushed, Gone, Both,
     AfterLocal, AfterRemote
<1>3. ASSUME InventoryRemote, NEW p \in Paths PROVE PathInv(p)'
  BY <1>3, <1>f
     DEF InventoryRemote, trees, store, history, Pull, Accepted, LocalChanged, RemoteChanged,
     Kept, BaselineKept, Evident, LocalLook, RemoteLook, Scope, Pulled, Pushed, Gone, Both,
     AfterLocal, AfterRemote
<1>5. ASSUME NEW q \in Paths, PullFile(q), NEW p \in Paths PROVE PathInv(p)'
  BY <1>5, <1>f DEF PullFile, store, history, planned,
     Kept, BaselineKept, Evident, LocalLook, RemoteLook, Scope, Pulled, Pushed, Gone, Both,
     AfterLocal, AfterRemote
<1>6. ASSUME NEW q \in Paths, DeleteLocalFile(q), NEW p \in Paths PROVE PathInv(p)'
  BY <1>6, <1>f DEF DeleteLocalFile, store, history, planned,
     Kept, BaselineKept, Evident, LocalLook, RemoteLook, Scope, Pulled, Pushed, Gone, Both,
     AfterLocal, AfterRemote
<1>8. ASSUME NEW q \in Paths, PushFile(q), NEW p \in Paths PROVE PathInv(p)'
  BY <1>8, <1>f DEF PushFile, Overwritten, store, history, planned,
     Kept, BaselineKept, Evident, LocalLook, RemoteLook, Scope, Pulled, Pushed, Gone, Both,
     AfterLocal, AfterRemote
<1>14. ASSUME Commit PROVE \A p \in Paths : PathInv(p)'
  <2>0. \A p \in Paths : PlanNext[p] = IF lsnap[p] # baseline[p] THEN lsnap[p] ELSE rsnap[p]
    BY PlanFacts
  <2>2. ASSUME NEW p \in Paths PROVE PathInv(p)'
    <3>1. UNCHANGED <<local, remote, quarantine, live, run, tombstones, lsnap, rsnap, todo>>
          /\ pc = "commit"
      BY <1>14 DEF Commit, trees, history, planned
    <3>2. CASE CanCommit
      <4>1. baseline'[p] = PlanNext[p] /\ pc' = "mark" /\ run.mode = "both"
        BY <1>14, <3>2 DEF Commit, Committed, CanCommit
      <4>2. BaselineKept(p)'
        BY <2>0, <3>1, <4>1, <1>f
           DEF BaselineKept, LocalLook, RemoteLook, Pulled, Pushed, Gone, Both, AfterLocal,
               AfterRemote
      <4> QED
        BY <3>1, <4>1, <4>2 DEF Kept, Evident, LocalLook, RemoteLook, Scope, Pulled, Pushed,
                                Gone, AfterLocal, AfterRemote
    <3>3. CASE ~CanCommit
      <4>1. baseline' = baseline /\ pc' = "stamp"
        BY <1>14, <3>3 DEF Commit
      <4> QED
        BY <3>1, <4>1 DEF Kept, BaselineKept, Evident, LocalLook, RemoteLook, Scope, Pulled,
                          Pushed, Gone, Both, AfterLocal, AfterRemote
    <3> QED
      BY <3>2, <3>3
  <2> QED
    BY <2>2
<1>16. ASSUME NEW q \in Paths, WriteLocal(q) PROVE \A p \in Paths : PathInv(p)'
  <2>1. /\ UNCHANGED <<remote, quarantine, baseline, pc, run, tombstones, lsnap, rsnap, todo>>
        /\ local' = [local EXCEPT ![q] = newest + 1]
        /\ newest' = newest + 1
        /\ live' = (live \ {<<q, local[q]>>}) \cup {<<q, newest + 1>>}
    BY <1>16 DEF WriteLocal, Replace, store, planned
  <2>3. \A p \in Paths : local'[p] = IF p = q THEN newest + 1 ELSE local[p]
    BY <2>1
  <2>4. ASSUME NEW p \in Paths, NEW v \in Nat, v <= newest, Gone(p, v) PROVE Gone(p, v)'
    BY <2>1, <2>4 DEF Gone
  <2>5. ASSUME NEW v \in Nat, v = local[q] PROVE Gone(q, v)'
    BY <2>1, <2>5 DEF Gone, Fresh
  <2>6. ASSUME NEW p \in Paths, p # q PROVE PathInv(p)'
    <3>1. \A v \in Nat : Gone(p, v)' <=> Gone(p, v)
      BY <2>1, <2>6 DEF Gone
    <3> QED
      BY <2>1, <2>3, <2>6, <3>1, <1>f
         DEF Kept, BaselineKept, Evident, LocalLook, RemoteLook, Scope, Pulled, Pushed, Both,
         AfterLocal, AfterRemote
  <2>7. /\ ~(pc = "local" /\ q \in tombstones)
        /\ ~(pc = "remote" \/ (pc = "pull" /\ q \in todo))
    BY <1>16 DEF WriteLocal, MayWriteLocal, Attentive
  <2>8. Kept(q)'
    BY <2>1, <2>3, <2>4, <2>5 DEF Kept, Gone, Fresh
  <2>9. BaselineKept(q)'
    BY <2>1, <2>3, <2>4, <2>5 DEF BaselineKept, Both, Gone, Fresh
  <2>10. Evident(q)'
    BY <2>1, <2>3, <2>7 DEF Evident
  <2>11. LocalLook(q)'
    BY <2>1, <2>3, <2>4, <2>5, <2>7 DEF LocalLook, Gone, AfterLocal, AfterRemote, Fresh
  <2>12. RemoteLook(q)'
    BY <2>1, <2>3, <2>4, <2>5, <2>7, <1>f DEF RemoteLook, Gone, AfterRemote, Fresh
  <2>13. Scope(q)' /\ Pulled(q)' /\ Pushed(q)'
    BY <2>1, <2>3, <2>4, <2>5, <1>f DEF Scope, Pulled, Pushed, Both, Gone, AfterRemote, Fresh
  <2> QED
    BY <2>6, <2>8, <2>9, <2>10, <2>11, <2>12, <2>13
<1>17. ASSUME NEW q \in Paths, WriteRemote(q) PROVE \A p \in Paths : PathInv(p)'
  <2>1. /\ UNCHANGED <<local, quarantine, baseline, pc, run, tombstones, lsnap, rsnap, todo>>
        /\ remote' = [remote EXCEPT ![q] = newest + 1]
        /\ newest' = newest + 1
        /\ live' = (live \ {<<q, remote[q]>>}) \cup {<<q, newest + 1>>}
    BY <1>17 DEF WriteRemote, Replace, store, planned
  <2>3. \A p \in Paths : remote'[p] = IF p = q THEN newest + 1 ELSE remote[p]
    BY <2>1
  <2>4. ASSUME NEW p \in Paths, NEW v \in Nat, v <= newest, Gone(p, v) PROVE Gone(p, v)'
    BY <2>1, <2>4 DEF Gone
  <2>5. ASSUME NEW v \in Nat, v = remote[q] PROVE Gone(q, v)'
    BY <2>1, <2>5 DEF Gone, Fresh
  <2>6. ASSUME NEW p \in Paths, p # q PROVE PathInv(p)'
    <3>1. \A v \in Nat : Gone(p, v)' <=> Gone(p, v)
      BY <2>1, <2>6 DEF Gone
    <3> QED
      BY <2>1, <2>3, <2>6, <3>1, <1>f
         DEF Kept, BaselineKept, Evident, LocalLook, RemoteLook, Scope, Pulled, Pushed, Both,
         AfterLocal, AfterRemote
  <2>7. ~(pc \in {"conflict", "push"} /\ q \in PlanPush \ PlanQuarantine
            /\ (pc = "push" => q \in todo))
    BY <1>17 DEF WriteRemote, MayWriteRemote, Attentive
  <2>8. Kept(q)'
    BY <2>1, <2>3, <2>4, <2>5 DEF Kept, Gone, Fresh
  <2>9. BaselineKept(q)'
    BY <2>1, <2>3, <2>4, <2>5 DEF BaselineKept, Both, Gone, Fresh
  <2>10. Evident(q)'
    BY <2>1, <2>3, <2>7 DEF Evident
  <2>11. LocalLook(q)'
    BY <2>1, <2>3, <2>4, <2>5, <2>7 DEF LocalLook, Gone, AfterLocal, AfterRemote, Fresh
  <2>12. RemoteLook(q)'
    BY <2>1, <2>3, <2>4, <2>5, <2>7, <1>f DEF RemoteLook, Gone, AfterRemote, Fresh
  <2>13. Scope(q)' /\ Pulled(q)' /\ Pushed(q)'
    BY <2>1, <2>3, <2>4, <2>5, <1>f DEF Scope, Pulled, Pushed, Both, Gone, AfterRemote, Fresh
  <2> QED
    BY <2>6, <2>8, <2>9, <2>10, <2>11, <2>12, <2>13
<1>18. ASSUME NEW q \in Paths, RemoveLocal(q), NEW p \in Paths PROVE PathInv(p)'
  BY <1>18, <1>f DEF RemoveLocal, Remove, MayDeleteLocal, Attentive, Fresh, store, planned,
     Kept, BaselineKept, Evident, LocalLook, RemoteLook, Scope, Pulled, Pushed, Gone, Both,
     AfterLocal, AfterRemote
<1>19. ASSUME NEW q \in Paths, RemoveRemote(q), NEW p \in Paths PROVE PathInv(p)'
  BY <1>19, <1>f DEF RemoveRemote, Remove, Fresh, store, planned,
     Kept, BaselineKept, Evident, LocalLook, RemoteLook, Scope, Pulled, Pushed, Gone, Both,
     AfterLocal, AfterRemote
<1>7. ASSUME NEW q \in Paths, DeleteRemoteFile(q), NEW p \in Paths PROVE PathInv(p)'
  BY <1>7, <1>f DEF DeleteRemoteFile, store, history, planned,
     Kept, BaselineKept, Evident, LocalLook, RemoteLook, Scope, Pulled, Pushed, Gone, Both,
     AfterLocal, AfterRemote
<1>11. ASSUME PullDone, NEW p \in Paths PROVE PathInv(p)'
  BY <1>11, <1>f DEF PullDone, Enter, trees, store, planned, history,
     Kept, BaselineKept, Evident, LocalLook, RemoteLook, Scope, Pulled, Pushed, Gone, Both,
     AfterLocal, AfterRemote
<1>12. ASSUME DeleteLocalDone, NEW p \in Paths PROVE PathInv(p)'
  BY <1>12, <1>f DEF DeleteLocalDone, Enter, trees, store, planned, history,
     Kept, BaselineKept, Evident, LocalLook, RemoteLook, Scope, Pulled, Pushed, Gone, Both,
     AfterLocal, AfterRemote
<1>13. ASSUME DeleteRemoteDone, NEW p \in Paths PROVE PathInv(p)'
  BY <1>13, <1>f DEF DeleteRemoteDone, Enter, trees, store, planned, history,
     Kept, BaselineKept, Evident, LocalLook, RemoteLook, Scope, Pulled, Pushed, Gone, Both,
     AfterLocal, AfterRemote
<1>21. ASSUME Revalidate, NEW p \in Paths PROVE PathInv(p)'
  BY <1>21, <1>f DEF Revalidate, RemoteStable, Enter, trees, store, planned, history,
     Kept, BaselineKept, Evident, LocalLook, RemoteLook, Scope, Pulled, Pushed, Gone, Both,
     AfterLocal, AfterRemote
<1>22. ASSUME ConflictsDone, NEW p \in Paths PROVE PathInv(p)'
  BY <1>22, <1>f DEF ConflictsDone, Enter, trees, store, planned, history,
     Kept, BaselineKept, Evident, LocalLook, RemoteLook, Scope, Pulled, Pushed, Gone, Both,
     AfterLocal, AfterRemote
<1>23. ASSUME PushDone, NEW p \in Paths PROVE PathInv(p)'
  BY <1>23, <1>f DEF PushDone, Enter, trees, store, planned, history,
     Kept, BaselineKept, Evident, LocalLook, RemoteLook, Scope, Pulled, Pushed, Gone, Both,
     AfterLocal, AfterRemote
<1>20. ASSUME RefusePlan \/ StopOnPartial \/ RefuseStale \/ Fail PROVE \A p \in Paths : PathInv(p)'
  <2>1. Forget /\ UNCHANGED <<trees, store, history>>
    BY <1>20 DEF RefusePlan, StopOnPartial, RefuseStale, Refuse, Fail
  <2>3. ASSUME NEW p \in Paths PROVE PathInv(p)'
    BY <2>1, <1>f DEF Forget, trees, store, history,
       Kept, BaselineKept, Evident, LocalLook, RemoteLook, Scope, Pulled, Pushed, Gone, Both,
       AfterLocal, AfterRemote
  <2> QED
    BY <2>3
<1>24. ASSUME Mark \/ Stamp, NEW p \in Paths PROVE PathInv(p)'
  BY <1>24, <1>f DEF Mark, Stamp, Forget, trees, planned, history,
     Kept, BaselineKept, Evident, LocalLook, RemoteLook, Scope, Pulled, Pushed, Gone, Both,
     AfterLocal, AfterRemote
<1> QED
  BY <1>1, <1>2, <1>3, <1>5, <1>6, <1>7, <1>8, <1>11, <1>12, <1>13, <1>14, <1>16, <1>17, <1>18,
     <1>19, <1>20, <1>21, <1>22, <1>23, <1>24
     DEF Next, Proceed, MoveFile, UserActs

\* Nobody's only copy is ever destroyed, whatever the users and the runs do
\* outside the three windows.
THEOREM EditsSurvive ==
  ASSUME Attentive
  PROVE  Spec => []NoEditLost
<1>1. Init => IInv
  BY TInvInit, IInvInit DEF IInv
<1>2. IInv /\ [Next]_vars => IInv'
  <2> SUFFICES ASSUME IInv, [Next]_vars PROVE IInv'
    OBVIOUS
  <2>1. TypeOK'
    BY TInvStep DEF IInv
  <2>2. CASE Next
    BY <2>1, <2>2, FreshStep, IInvStep DEF IInv
  <2>3. CASE UNCHANGED vars
    <3>1. ASSUME NEW p \in Paths PROVE PathInv(p)'
      BY <2>3 DEF vars, trees, store, planned, history, IInv, PathInv,
         Kept, BaselineKept, Evident, LocalLook, RemoteLook, Scope, Pulled, Pushed, Gone, Both,
         AfterLocal, AfterRemote,
         PlanPull, PlanPush, PlanQuarantine
    <3> QED
      BY <2>1, <3>1, FreshStep DEF IInv
  <2> QED
    BY <2>2, <2>3
<1>3. IInv => NoEditLost
  BY DEF IInv, TypeOK, PathInv, Kept, Gone, NoEditLost, Entries
<1> QED
  BY <1>1, <1>2, <1>3, PTL DEF Spec

-----------------------------------------------------------------------------
(* Deletions.                                                              *)
(*                                                                         *)
(* The argument of DeletionSticks.  A version that a user deleted while    *)
(* the verified baseline recorded it, and that is still on the other       *)
(* machine, is still the baseline's (DeadKept): the passes move only what  *)
(* differs from the baseline (Away), and a baseline without it is not      *)
(* published before the passes of the plan have replaced or removed the    *)
(* other copy (PulledAway, DeletedLocal, PushedAway, DeletedRemote), which *)
(* for a deletion takes the tombstone that every deletion seen by the      *)
(* inventory has (Derived).                                                *)
(*                                                                         *)
(* The argument of DeletionsAreUsers.  What the baseline records and a     *)
(* machine does not have was deleted by a user of that machine, or, on the *)
(* coordinator, by a run that accepted such a deletion and whose baseline  *)
(* was not committed (Missing, RunGone); the looks of the plan show        *)
(* nothing else, and a deletion they found is among its grounds (Looked).  *)

\* No user deletes between the tombstones and the local inventory.
Punctual == "planGap" \notin Faults

\* A deletion that stands accounts for what is missing now; one among the
\* grounds accounts for what was missing when the run looked.
LocalGone(p) == <<"local", p>> \in deletions \/ <<"run", p>> \in deletions
RemoteGone(p) == <<"remote", p>> \in deletions
LocalGround(p) == <<"local", p>> \in grounds \/ <<"run", p>> \in grounds
RemoteGround(p) == <<"remote", p>> \in grounds

\* The step changes nothing of the deletions of p.
Same(p) ==
    /\ <<"local", p>> \in deletions' <=> <<"local", p>> \in deletions
    /\ <<"remote", p>> \in deletions' <=> <<"remote", p>> \in deletions
    /\ <<"run", p>> \in deletions' <=> <<"run", p>> \in deletions

DeadKept(p) ==
    \A v \in Nat : <<p, v>> \in dead =>
        /\ v # None /\ v <= newest /\ ready
        /\ local[p] = v \/ remote[p] = v => baseline[p] = v

\* Every recorded file the run found missing has its tombstone.
Derived(p) ==
    run.delete /\ ready /\ baseline[p] # None =>
        /\ pc = "local" /\ local[p] = None => p \in tombstones
        /\ pc \in AfterLocal /\ lsnap[p] = None => p \in tombstones

\* What a look found different from the baseline does not become it again.
Away(p) ==
    baseline[p] # None =>
        /\ pc \in AfterLocal /\ lsnap[p] # baseline[p] => local[p] # baseline[p]
        /\ pc \in AfterRemote /\ rsnap[p] # baseline[p] => remote[p] # baseline[p]

DeleteScope(p) ==
    p \in todo =>
        /\ pc = "dellocal" => p \in PlanDeleteLocal
        /\ pc = "delremote" => p \in PlanDeleteRemote /\ p \in tombstones

PartialKnown == partial => pc \in {"pull", "conflict", "push"}

PulledAway(p) ==
    (/\ p \in PlanPull
     /\ run.mode # "push"
     /\ pc \in AfterRemote
     /\ pc = "pull" => p \notin todo
     /\ ~partial)
    => /\ baseline[p] # None => local[p] # baseline[p]
       /\ local[p] = None => LocalGone(p)

DeletedLocal(p) ==
    (/\ p \in PlanDeleteLocal
     /\ run.mode # "push"
     /\ complete
     /\ pc \in AfterRemote \ {"pull"}
     /\ pc = "dellocal" => p \notin todo)
    => local[p] # baseline[p]

PushedAway(p) ==
    (/\ p \in PlanPush
     /\ run.mode # "pull"
     /\ \/ pc = "commit"
        \/ pc = "push" /\ p \notin todo
        \/ pc = "conflict" /\ p \in PlanQuarantine \ todo
     /\ ~partial)
    => /\ baseline[p] # None => remote[p] # baseline[p]
       /\ remote[p] = None => RemoteGone(p)

AfterDeletes == {"delremote", "revalidate", "conflict", "push", "commit"}

DeletedRemote(p) ==
    (p \in PlanDeleteRemote /\ run.mode # "pull" /\ pc \in AfterDeletes) =>
        /\ complete => run.delete
        /\ (/\ p \in tombstones
            /\ run.delete
            /\ pc = "delremote" => p \notin todo)
           => remote[p] # baseline[p]

Missing(p) ==
    /\ p \in tombstones /\ pc \in AfterLocal => LocalGround(p)
    /\ baseline[p] # None /\ local[p] = None => LocalGone(p)
    /\ baseline[p] # None /\ local[p] = baseline[p] /\ remote[p] = None => RemoteGone(p)

Looked(p) ==
    /\ pc \in AfterLocal /\ lsnap[p] # None /\ local[p] = None => LocalGone(p)
    /\ baseline[p] # None /\ lsnap[p] = baseline[p] =>
           /\ pc = "remote" /\ remote[p] = None => RemoteGone(p)
           /\ pc \in AfterRemote /\ rsnap[p] = None => RemoteGround(p)
    /\ pc \in AfterRemote /\ rsnap[p] # None /\ remote[p] = None =>
           RemoteGone(p) \/ (lsnap[p] # baseline[p] /\ lsnap[p] = None)

\* A run's own deletion stands until a baseline without the path is committed.
RunGone(p) ==
    <<"run", p>> \in deletions =>
        /\ local[p] = None
        /\ baseline[p] # None
        /\ pc \in AfterLocal =>
               lsnap[p] = None \/ (pc \in AfterRemote /\ p \in PlanDeleteLocal)

DPath(p) ==
    /\ Evident(p) /\ Scope(p) /\ DeadKept(p) /\ Derived(p) /\ Away(p) /\ DeleteScope(p)
    /\ PulledAway(p) /\ DeletedLocal(p) /\ PushedAway(p) /\ DeletedRemote(p)
    /\ Missing(p) /\ Looked(p) /\ RunGone(p)

DInv == TypeOK /\ Fresh /\ PartialKnown /\ \A p \in Paths : DPath(p)

LEMMA DInvInit == Init => DInv
<1> SUFFICES ASSUME Init PROVE DInv
  OBVIOUS
<1>1. TypeOK /\ Fresh
  BY TInvInit, IInvInit
<1>2. ASSUME NEW p \in Paths PROVE DPath(p)
  BY <1>1 DEF Init, NoFiles, None, DPath, Evident, Scope, DeadKept, Derived, Away, DeleteScope,
     PulledAway, DeletedLocal, PushedAway, DeletedRemote, Missing, Looked, RunGone, AfterLocal,
     AfterRemote, AfterDeletes
<1> QED
  BY <1>1, <1>2 DEF DInv, PartialKnown, Init

\* Every step keeps what is known of the deletions: one step per action.
LEMMA DPathStep ==
  ASSUME Punctual, TypeOK, TypeOK', Fresh, PartialKnown, \A p \in Paths : DPath(p), Next
  PROVE  \A p \in Paths : DPath(p)'
<1> USE DEF TypeOK, Inventories, DPath
<1>f. ASSUME NEW p \in Paths
      PROVE /\ p \in PlanPull <=>
                  lsnap[p] = baseline[p] /\ rsnap[p] # baseline[p] /\ rsnap[p] # None
            /\ p \in PlanPush <=>
                  lsnap[p] # baseline[p] /\ lsnap[p] # rsnap[p] /\ lsnap[p] # None
            /\ p \in PlanQuarantine <=>
                  p \in PlanPush /\ rsnap[p] # baseline[p] /\ rsnap[p] # None
            /\ p \in PlanDeleteLocal <=>
                  lsnap[p] = baseline[p] /\ rsnap[p] # baseline[p] /\ rsnap[p] = None
            /\ p \in PlanDeleteRemote <=>
                  lsnap[p] # baseline[p] /\ lsnap[p] # rsnap[p] /\ lsnap[p] = None
            /\ p \in PlanPull' <=>
                  lsnap'[p] = baseline'[p] /\ rsnap'[p] # baseline'[p] /\ rsnap'[p] # None
            /\ p \in PlanPush' <=>
                  lsnap'[p] # baseline'[p] /\ lsnap'[p] # rsnap'[p] /\ lsnap'[p] # None
            /\ p \in PlanQuarantine' <=>
                  p \in PlanPush' /\ rsnap'[p] # baseline'[p] /\ rsnap'[p] # None
            /\ p \in PlanDeleteLocal' <=>
                  lsnap'[p] = baseline'[p] /\ rsnap'[p] # baseline'[p] /\ rsnap'[p] = None
            /\ p \in PlanDeleteRemote' <=>
                  lsnap'[p] # baseline'[p] /\ lsnap'[p] # rsnap'[p] /\ lsnap'[p] = None
  BY DEF PlanPull, PlanPush, PlanQuarantine, PlanDeleteLocal, PlanDeleteRemote, Pull, Push,
         QuarantineRemote, DeleteLocal, DeleteRemote, Accepted, Sent, LocalChanged, RemoteChanged
<1>1. ASSUME Start, NEW p \in Paths PROVE DPath(p)'
  BY <1>1, <1>f DEF Start, ComputeTombstones, Evidence, Held, trees, store, history,
     Evident, Scope, DeadKept, Derived, Away, DeleteScope, PulledAway, DeletedLocal,
     PushedAway, DeletedRemote, Missing, Looked, RunGone, LocalGone, RemoteGone, LocalGround,
     RemoteGround, By, AfterLocal,
     AfterRemote, AfterDeletes, None
<1>2. ASSUME InventoryLocal, NEW p \in Paths PROVE DPath(p)'
  BY <1>2, <1>f DEF InventoryLocal, trees, store, history,
     Evident, Scope, DeadKept, Derived, Away, DeleteScope, PulledAway, DeletedLocal,
     PushedAway, DeletedRemote, Missing, Looked, RunGone, LocalGone, RemoteGone, LocalGround,
     RemoteGround, By, AfterLocal,
     AfterRemote, AfterDeletes, None
<1>3. ASSUME InventoryRemote, NEW p \in Paths PROVE DPath(p)'
  BY <1>3, <1>f
     DEF InventoryRemote, Pull, Accepted, LocalChanged, RemoteChanged, trees, store, history,
     Evident, Scope, DeadKept, Derived, Away, DeleteScope, PulledAway, DeletedLocal,
     PushedAway, DeletedRemote, Missing, Looked, RunGone, LocalGone, RemoteGone, LocalGround,
     RemoteGround, By, AfterLocal,
     AfterRemote, AfterDeletes, None
<1>4. ASSUME NEW q \in Paths, PullFile(q), NEW p \in Paths PROVE DPath(p)'
  <2>1. /\ UNCHANGED <<remote, baseline, ready, pc, run, tombstones, lsnap, rsnap, complete,
                      dead, newest>>
        /\ pc = "pull" /\ q \in todo /\ todo' = todo \ {q}
        /\ partial' = (partial \/ remote[q] = None)
    BY <1>4 DEF PullFile, store, history, planned
  <2>g. grounds' = grounds
    BY <1>4 DEF PullFile, planned
  <2>2. p # q => local'[p] = local[p] /\ Same(p)
    BY <1>4 DEF PullFile, Same
  <2>3. p = q => \/ /\ local'[p] = remote[p] /\ remote[p] # None
                    /\ <<"run", p>> \notin deletions'
                    /\ <<"remote", p>> \in deletions' <=> <<"remote", p>> \in deletions
                 \/ /\ local'[p] = local[p] /\ (p \in tombstones \/ remote[p] = None)
                    /\ Same(p)
    BY <1>4 DEF PullFile, Same
  <2>4. DeadKept(p)'
    BY <2>1, <2>2, <2>3, <2>g, <1>f DEF DeadKept, Away, Scope, AfterLocal, AfterRemote, None
  <2>5. Away(p)'
    BY <2>1, <2>2, <2>3, <2>g, <1>f DEF Away, Scope, AfterLocal, AfterRemote, None
  <2>6. Evident(p)' /\ Scope(p)' /\ Derived(p)' /\ DeleteScope(p)'
    BY <2>1, <2>2, <2>3, <2>g, <1>f
       DEF Evident, Scope, Derived, DeleteScope, AfterLocal, AfterRemote
  <2>7. PulledAway(p)'
    BY <2>1, <2>2, <2>3, <2>g, <1>f
       DEF PulledAway, Away, Evident, Scope, AfterLocal, AfterRemote, Same, LocalGone,
       RemoteGone, LocalGround, RemoteGround, By, None
  <2>8. DeletedLocal(p)' /\ DeletedRemote(p)'
    BY <2>1, <2>2, <2>3, <2>g, <1>f
       DEF DeletedLocal, DeletedRemote, Away, Scope, AfterLocal, AfterRemote, AfterDeletes, None
  <2>9. PushedAway(p)'
    BY <2>1, <2>2, <2>3, <2>g, <1>f
       DEF PushedAway, Away, Evident, Scope, AfterLocal, AfterRemote, Same, LocalGone,
       RemoteGone, LocalGround, RemoteGround, By, None
  <2>10. Missing(p)' /\ Looked(p)' /\ RunGone(p)'
    BY <2>1, <2>2, <2>3, <2>g, <1>f
       DEF Missing, Looked, RunGone, Scope, AfterLocal, AfterRemote, Same, LocalGone,
       RemoteGone, LocalGround, RemoteGround, By, None
  <2> QED
    BY <2>4, <2>5, <2>6, <2>7, <2>8, <2>9, <2>10
<1>5. ASSUME NEW q \in Paths, DeleteLocalFile(q), NEW p \in Paths PROVE DPath(p)'
  BY <1>5, <1>f DEF DeleteLocalFile, store, history, planned,
     Evident, Scope, DeadKept, Derived, Away, DeleteScope, PulledAway, DeletedLocal,
     PushedAway, DeletedRemote, Missing, Looked, RunGone, LocalGone, RemoteGone, LocalGround,
     RemoteGround, By, AfterLocal,
     AfterRemote, AfterDeletes, None
<1>6. ASSUME NEW q \in Paths, DeleteRemoteFile(q), NEW p \in Paths PROVE DPath(p)'
  BY <1>6, <1>f DEF DeleteRemoteFile, store, history, planned,
     Evident, Scope, DeadKept, Derived, Away, DeleteScope, PulledAway, DeletedLocal,
     PushedAway, DeletedRemote, Missing, Looked, RunGone, LocalGone, RemoteGone, LocalGround,
     RemoteGround, By, AfterLocal,
     AfterRemote, AfterDeletes, None
<1>7. ASSUME NEW q \in Paths, PushFile(q), NEW p \in Paths PROVE DPath(p)'
  <2>1. /\ UNCHANGED <<local, baseline, ready, pc, run, tombstones, lsnap, rsnap, complete,
                      dead, newest>>
        /\ pc \in {"conflict", "push"} /\ q \in todo /\ todo' = todo \ {q}
        /\ partial' = (partial \/ (q \notin tombstones /\ local[q] = None))
    BY <1>7 DEF PushFile, store, history, planned
  <2>g. grounds' = grounds
    BY <1>7 DEF PushFile, planned
  <2>2. p # q => remote'[p] = remote[p] /\ Same(p)
    BY <1>7 DEF PushFile, Same
  <2>3. p = q => \/ /\ remote'[p] = local[p] /\ local[p] # None
                    /\ <<"run", p>> \in deletions' <=> <<"run", p>> \in deletions
                    /\ <<"local", p>> \in deletions' <=> <<"local", p>> \in deletions
                 \/ /\ remote'[p] = remote[p] /\ (p \in tombstones \/ local[p] = None)
                    /\ Same(p)
    BY <1>7 DEF PushFile, Same
  <2>4. DeadKept(p)'
    BY <2>1, <2>2, <2>3, <2>g, <1>f DEF DeadKept, Away, Scope, AfterLocal, AfterRemote, None
  <2>5. Away(p)'
    BY <2>1, <2>2, <2>3, <2>g, <1>f DEF Away, Scope, AfterLocal, AfterRemote, None
  <2>6. Evident(p)' /\ Scope(p)' /\ Derived(p)' /\ DeleteScope(p)'
    BY <2>1, <2>2, <2>3, <2>g, <1>f
       DEF Evident, Scope, Derived, DeleteScope, AfterLocal, AfterRemote
  <2>7. PulledAway(p)'
    BY <2>1, <2>2, <2>3, <2>g, <1>f
       DEF PulledAway, Away, Evident, Scope, AfterLocal, AfterRemote, Same, LocalGone,
       RemoteGone, LocalGround, RemoteGround, By, None
  <2>8. DeletedLocal(p)' /\ DeletedRemote(p)'
    BY <2>1, <2>2, <2>3, <2>g, <1>f
       DEF DeletedLocal, DeletedRemote, Away, Scope, AfterLocal, AfterRemote, AfterDeletes, None
  <2>9. PushedAway(p)'
    BY <2>1, <2>2, <2>3, <2>g, <1>f
       DEF PushedAway, Away, Evident, Scope, AfterLocal, AfterRemote, Same, LocalGone,
       RemoteGone, LocalGround, RemoteGround, By, None
  <2>10. Missing(p)' /\ Looked(p)' /\ RunGone(p)'
    BY <2>1, <2>2, <2>3, <2>g, <1>f
       DEF Missing, Looked, RunGone, Scope, AfterLocal, AfterRemote, Same, LocalGone,
       RemoteGone, LocalGround, RemoteGround, By, None
  <2> QED
    BY <2>4, <2>5, <2>6, <2>7, <2>8, <2>9, <2>10
<1>8. ASSUME PullDone, NEW p \in Paths PROVE DPath(p)'
  BY <1>8, <1>f DEF PullDone, DeletesAuthorized, Enter, trees, store, planned, history,
     Evident, Scope, DeadKept, Derived, Away, DeleteScope, PulledAway, DeletedLocal,
     PushedAway, DeletedRemote, Missing, Looked, RunGone, LocalGone, RemoteGone, LocalGround,
     RemoteGround, By, AfterLocal,
     AfterRemote, AfterDeletes, None
<1>9. ASSUME DeleteLocalDone, NEW p \in Paths PROVE DPath(p)'
  BY <1>9, <1>f DEF DeleteLocalDone, DeleteSet, Enter, trees, store, planned, history,
     Evident, Scope, DeadKept, Derived, Away, DeleteScope, PulledAway, DeletedLocal,
     PushedAway, DeletedRemote, Missing, Looked, RunGone, LocalGone, RemoteGone, LocalGround,
     RemoteGround, By, AfterLocal,
     AfterRemote, AfterDeletes, None
<1>10. ASSUME DeleteRemoteDone, NEW p \in Paths PROVE DPath(p)'
  BY <1>10, <1>f DEF DeleteRemoteDone, Enter, trees, store, planned, history,
     Evident, Scope, DeadKept, Derived, Away, DeleteScope, PulledAway, DeletedLocal,
     PushedAway, DeletedRemote, Missing, Looked, RunGone, LocalGone, RemoteGone, LocalGround,
     RemoteGround, By, AfterLocal,
     AfterRemote, AfterDeletes, None
<1>11. ASSUME Revalidate, NEW p \in Paths PROVE DPath(p)'
  BY <1>11, <1>f DEF Revalidate, Enter, trees, store, planned, history,
     Evident, Scope, DeadKept, Derived, Away, DeleteScope, PulledAway, DeletedLocal,
     PushedAway, DeletedRemote, Missing, Looked, RunGone, LocalGone, RemoteGone, LocalGround,
     RemoteGround, By, AfterLocal,
     AfterRemote, AfterDeletes, None
<1>12. ASSUME ConflictsDone, NEW p \in Paths PROVE DPath(p)'
  BY <1>12, <1>f DEF ConflictsDone, Enter, trees, store, planned, history,
     Evident, Scope, DeadKept, Derived, Away, DeleteScope, PulledAway, DeletedLocal,
     PushedAway, DeletedRemote, Missing, Looked, RunGone, LocalGone, RemoteGone, LocalGround,
     RemoteGround, By, AfterLocal,
     AfterRemote, AfterDeletes, None
<1>13. ASSUME PushDone, NEW p \in Paths PROVE DPath(p)'
  BY <1>13, <1>f DEF PushDone, Enter, trees, store, planned, history,
     Evident, Scope, DeadKept, Derived, Away, DeleteScope, PulledAway, DeletedLocal,
     PushedAway, DeletedRemote, Missing, Looked, RunGone, LocalGone, RemoteGone, LocalGround,
     RemoteGround, By, AfterLocal,
     AfterRemote, AfterDeletes, None
<1>14. ASSUME Commit, NEW p \in Paths PROVE DPath(p)'
  <2>1. UNCHANGED <<local, remote, ready, tombstones, grounds, lsnap, rsnap, todo, dead,
                    newest>>
        /\ pc = "commit" /\ ~partial
    BY <1>14 DEF Commit, trees, history, planned, PartialKnown
  <2>2. CASE CanCommit
    <3>1. baseline'[p] = (IF lsnap[p] # baseline[p] THEN lsnap[p] ELSE rsnap[p])
          /\ pc' = "mark" /\ run.mode = "both" /\ complete
          /\ (p \in PlanDeleteRemote => ready)
      BY <1>14, <2>2, PlanFacts DEF Commit, Committed, CanCommit
    <3>d. /\ <<"run", p>> \notin deletions'
          /\ <<"local", p>> \in deletions' <=> <<"local", p>> \in deletions
          /\ <<"remote", p>> \in deletions' <=> <<"remote", p>> \in deletions
      BY <1>14, <2>2 DEF Commit, By
    <3>2. DeadKept(p)'
      <4> SUFFICES ASSUME NEW v \in Nat, <<p, v>> \in dead, local[p] = v \/ remote[p] = v
                   PROVE  baseline'[p] = v
        BY <2>1 DEF DeadKept
      <4>1. baseline[p] = v /\ v # None /\ ready
        BY DEF DeadKept
      <4>2. CASE local[p] = v
        BY <2>1, <3>1, <4>1, <4>2, <1>f
           DEF Away, PulledAway, DeletedLocal, AfterLocal, AfterRemote, None
      <4>3. CASE remote[p] = v
        BY <2>1, <3>1, <4>1, <4>3, <1>f
           DEF Away, PushedAway, DeletedRemote, Derived, AfterLocal, AfterRemote, AfterDeletes, None
      <4> QED
        BY <4>2, <4>3
    <3>3. Missing(p)'
      BY <2>1, <3>1, <3>d, <1>f
         DEF Missing, Looked, RunGone, PulledAway, PushedAway, Evident, RemoteGone, LocalGone,
             LocalGround, AfterLocal, AfterRemote, None
    <3>4. RunGone(p)'
      BY <3>d DEF RunGone
    <3> QED
      BY <2>1, <3>1, <3>2, <3>3, <3>4
         DEF Evident, Scope, Derived, Away, DeleteScope, PulledAway, DeletedLocal, PushedAway,
             DeletedRemote, Looked, AfterLocal, AfterRemote, AfterDeletes
  <2>3. CASE ~CanCommit
    <3>1. baseline' = baseline /\ pc' = "stamp" /\ deletions' = deletions
      BY <1>14, <2>3 DEF Commit
    <3> QED
      BY <2>1, <3>1
         DEF Evident, Scope, DeadKept, Derived, Away, DeleteScope, PulledAway, DeletedLocal,
     PushedAway, DeletedRemote, Missing, Looked, RunGone, LocalGone, RemoteGone, LocalGround,
     RemoteGround, By, AfterLocal,
     AfterRemote, AfterDeletes, None
  <2> QED
    BY <2>2, <2>3
<1>15. ASSUME Mark \/ Stamp, NEW p \in Paths PROVE DPath(p)'
  BY <1>15, <1>f DEF Mark, Stamp, Forget, NoFiles, trees, planned, history,
     Evident, Scope, DeadKept, Derived, Away, DeleteScope, PulledAway, DeletedLocal,
     PushedAway, DeletedRemote, Missing, Looked, RunGone, LocalGone, RemoteGone, LocalGround,
     RemoteGround, By, AfterLocal,
     AfterRemote, AfterDeletes, None
<1>16. ASSUME NEW q \in Paths, WriteLocal(q), NEW p \in Paths PROVE DPath(p)'
  <2>1. /\ UNCHANGED <<remote, baseline, ready, pc, run, tombstones, lsnap, rsnap, todo, partial,
                      complete, dead>>
        /\ local'[p] = IF p = q THEN newest + 1 ELSE local[p]
        /\ newest' = newest + 1
        /\ baseline[p] <= newest
    BY <1>16 DEF WriteLocal, Replace, store, planned, Fresh
  <2>d. /\ <<"remote", p>> \in deletions' <=> <<"remote", p>> \in deletions
        /\ <<"local", p>> \in deletions' <=> <<"local", p>> \in deletions /\ p # q
        /\ <<"run", p>> \in deletions' <=> <<"run", p>> \in deletions /\ p # q
        /\ grounds' = grounds
    BY <1>16 DEF WriteLocal, Replace, planned
  <2>2. p = q => ~(pc = "local" /\ p \in tombstones)
    BY <1>16 DEF WriteLocal, MayWriteLocal, Punctual
  <2>3. /\ local'[p] # local[p] => p = q
        /\ p = q => local'[p] # baseline[p] /\ local'[p] # None
    BY <2>1 DEF None
  <2>4. DeadKept(p)'
    BY <2>1 DEF DeadKept, None
  <2>5. Evident(p)' /\ Scope(p)' /\ Derived(p)' /\ Away(p)' /\ DeleteScope(p)'
    BY <2>1, <2>d, <2>2, <2>3, <1>f
       DEF Evident, Scope, Derived, Away, DeleteScope, AfterLocal, AfterRemote
  <2>6. PulledAway(p)' /\ DeletedLocal(p)' /\ PushedAway(p)' /\ DeletedRemote(p)'
    BY <2>1, <2>d, <2>2, <2>3, <1>f
       DEF PulledAway, DeletedLocal, PushedAway, DeletedRemote, Away, LocalGone,
       RemoteGone, AfterLocal, AfterRemote, AfterDeletes
  <2>7. Missing(p)' /\ Looked(p)'
    BY <2>1, <2>d, <2>2, <2>3, <1>f
       DEF Missing, Looked, LocalGone, RemoteGone, LocalGround, RemoteGround,
       AfterLocal, AfterRemote
  <2>8. RunGone(p)'
    BY <2>1, <2>d, <2>2, <2>3, <1>f DEF RunGone
  <2> QED
    BY <2>4, <2>5, <2>6, <2>7, <2>8
<1>17. ASSUME NEW q \in Paths, WriteRemote(q), NEW p \in Paths PROVE DPath(p)'
  <2>1. /\ UNCHANGED <<local, baseline, ready, pc, run, tombstones, lsnap, rsnap, todo, partial,
                      complete, dead>>
        /\ remote'[p] = IF p = q THEN newest + 1 ELSE remote[p]
        /\ newest' = newest + 1
        /\ baseline[p] <= newest
    BY <1>17 DEF WriteRemote, Replace, store, planned, Fresh
  <2>d. /\ <<"remote", p>> \in deletions' <=> <<"remote", p>> \in deletions /\ p # q
        /\ <<"local", p>> \in deletions' <=> <<"local", p>> \in deletions
        /\ <<"run", p>> \in deletions' <=> <<"run", p>> \in deletions
        /\ grounds' = grounds
    BY <1>17 DEF WriteRemote, Replace, planned
  <2>2. /\ remote'[p] # remote[p] => p = q
        /\ p = q => remote'[p] # baseline[p] /\ remote'[p] # None
    BY <2>1 DEF None
  <2>3. DeadKept(p)'
    BY <2>1 DEF DeadKept, None
  <2>5. Evident(p)' /\ Scope(p)' /\ Derived(p)' /\ Away(p)' /\ DeleteScope(p)'
    BY <2>1, <2>d, <2>2, <1>f
       DEF Evident, Scope, Derived, Away, DeleteScope, AfterLocal, AfterRemote
  <2>6. PulledAway(p)' /\ DeletedLocal(p)' /\ PushedAway(p)' /\ DeletedRemote(p)'
    BY <2>1, <2>d, <2>2, <1>f
       DEF PulledAway, DeletedLocal, PushedAway, DeletedRemote, Away, LocalGone,
       RemoteGone, AfterLocal, AfterRemote, AfterDeletes
  <2>7. Missing(p)' /\ Looked(p)'
    BY <2>1, <2>d, <2>2, <1>f DEF Missing, Looked, LocalGone, RemoteGone, LocalGround, RemoteGround,
       AfterLocal, AfterRemote
  <2>8. RunGone(p)'
    BY <2>1, <2>d, <2>2, <1>f DEF RunGone
  <2> QED
    BY <2>3, <2>5, <2>6, <2>7, <2>8
<1>18. ASSUME NEW q \in Paths, RemoveLocal(q), NEW p \in Paths PROVE DPath(p)'
  BY <1>18, <1>f DEF RemoveLocal, Remove, MayDeleteLocal, Punctual, Fresh, store, planned,
     Evident, Scope, DeadKept, Derived, Away, DeleteScope, PulledAway, DeletedLocal,
     PushedAway, DeletedRemote, Missing, Looked, RunGone, LocalGone, RemoteGone, LocalGround,
     RemoteGround, By, AfterLocal,
     AfterRemote, AfterDeletes, None
<1>19. ASSUME NEW q \in Paths, RemoveRemote(q), NEW p \in Paths PROVE DPath(p)'
  BY <1>19, <1>f DEF RemoveRemote, Remove, MayDeleteLocal, Punctual, Fresh, store, planned,
     Evident, Scope, DeadKept, Derived, Away, DeleteScope, PulledAway, DeletedLocal,
     PushedAway, DeletedRemote, Missing, Looked, RunGone, LocalGone, RemoteGone, LocalGround,
     RemoteGround, By, AfterLocal,
     AfterRemote, AfterDeletes, None
<1>20. ASSUME RefusePlan \/ StopOnPartial \/ RefuseStale \/ Fail, NEW p \in Paths PROVE DPath(p)'
  <2>1. Forget /\ UNCHANGED <<trees, store, history>>
    BY <1>20 DEF RefusePlan, StopOnPartial, RefuseStale, Refuse, Fail
  <2> QED
    BY <2>1 DEF Forget, trees, store, history,
     Evident, Scope, DeadKept, Derived, Away, DeleteScope, PulledAway, DeletedLocal,
     PushedAway, DeletedRemote, Missing, Looked, RunGone, LocalGone, RemoteGone, LocalGround,
     RemoteGround, By, AfterLocal,
     AfterRemote, AfterDeletes, None
<1> QED
  BY <1>1, <1>2, <1>3, <1>4, <1>5, <1>6, <1>7, <1>8, <1>9, <1>10, <1>11, <1>12, <1>13, <1>14,
     <1>15, <1>16, <1>17, <1>18, <1>19, <1>20
     DEF Next, Proceed, MoveFile, UserActs

LEMMA PartialStep == PartialKnown /\ [Next]_vars => PartialKnown'
<1> SUFFICES ASSUME PartialKnown, [Next]_vars PROVE PartialKnown'
  OBVIOUS
<1> USE DEF PartialKnown
<1>1. CASE Start \/ InventoryLocal \/ InventoryRemote
  BY <1>1 DEF Start, ComputeTombstones, InventoryLocal, InventoryRemote
<1>2. ASSUME NEW q \in Paths,
             PullFile(q) \/ DeleteLocalFile(q) \/ DeleteRemoteFile(q) \/ PushFile(q)
      PROVE  PartialKnown'
  BY <1>2 DEF PullFile, DeleteLocalFile, DeleteRemoteFile, PushFile
<1>3. CASE PullDone \/ DeleteLocalDone \/ DeleteRemoteDone \/ Revalidate \/ ConflictsDone \/ PushDone
  BY <1>3
     DEF PullDone, DeleteLocalDone, DeleteRemoteDone, Revalidate, ConflictsDone, PushDone, Enter
<1>4. CASE Commit \/ Mark \/ Stamp
  BY <1>4 DEF Commit, Mark, Stamp, Forget
<1>5. ASSUME NEW q \in Paths, WriteLocal(q) \/ WriteRemote(q) \/ RemoveLocal(q) \/ RemoveRemote(q)
      PROVE  PartialKnown'
  BY <1>5 DEF WriteLocal, WriteRemote, Replace, RemoveLocal, RemoveRemote, Remove
<1>6. CASE RefusePlan \/ StopOnPartial \/ RefuseStale \/ Fail
  BY <1>6 DEF RefusePlan, StopOnPartial, RefuseStale, Refuse, Fail, Forget
<1>7. CASE UNCHANGED vars
  BY <1>7 DEF vars
<1> QED
  BY <1>1, <1>2, <1>3, <1>4, <1>5, <1>6, <1>7 DEF Next, Proceed, MoveFile, UserActs

LEMMA DInvStep == Punctual /\ DInv /\ [Next]_vars => DInv'
<1> SUFFICES ASSUME Punctual, DInv, [Next]_vars PROVE DInv'
  OBVIOUS
<1>1. TypeOK' /\ Fresh' /\ PartialKnown'
  BY TInvStep, FreshStep, PartialStep DEF DInv
<1>2. CASE Next
  BY <1>1, <1>2, DPathStep DEF DInv
<1>3. CASE UNCHANGED vars
  <2>1. ASSUME NEW p \in Paths PROVE DPath(p)'
    BY <1>3 DEF vars, trees, store, planned, history, DInv, DPath,
       Evident, Scope, DeadKept, Derived, Away, DeleteScope, PulledAway, DeletedLocal,
       PushedAway, DeletedRemote, Missing, Looked, RunGone, LocalGone, RemoteGone, LocalGround,
       RemoteGround, By,
       PlanPull, PlanPush, PlanQuarantine, PlanDeleteLocal, PlanDeleteRemote
  <2> QED
    BY <1>1, <2>1 DEF DInv
<1> QED
  BY <1>2, <1>3

\* What a step that moves a file of path p may bring into a tree.
LEMMA LocalMoves ==
  ASSUME TypeOK, [Next]_vars, NEW p \in Paths, local'[p] # local[p]
  PROVE  \/ PullFile(p) /\ local'[p] = remote[p] /\ remote[p] # None
         \/ DeleteLocalFile(p) /\ local'[p] = None
         \/ RemoveLocal(p) /\ local'[p] = None
         \/ WriteLocal(p) /\ local'[p] = newest + 1
<1> USE DEF TypeOK, Inventories
<1>1. CASE Start \/ InventoryLocal \/ InventoryRemote
  BY <1>1 DEF Start, ComputeTombstones, InventoryLocal, InventoryRemote, trees
<1>2. ASSUME NEW q \in Paths, PullFile(q)
      PROVE  PullFile(p) /\ local'[p] = remote[p] /\ remote[p] # None
  <2>1. p = q
    BY <1>2 DEF PullFile
  <2>2. local'[q] = remote[q] /\ remote[q] # None
    BY <1>2, <2>1 DEF PullFile
  <2> QED
    BY <1>2, <2>1, <2>2
<1>3. ASSUME NEW q \in Paths, DeleteLocalFile(q)
      PROVE  DeleteLocalFile(p) /\ local'[p] = None
  <2>1. p = q
    BY <1>3 DEF DeleteLocalFile
  <2>2. local'[q] = None
    BY <1>3 DEF DeleteLocalFile
  <2> QED
    BY <1>3, <2>1, <2>2
<1>4. ASSUME NEW q \in Paths, RemoveLocal(q)
      PROVE  RemoveLocal(p) /\ local'[p] = None
  <2>1. p = q
    BY <1>4 DEF RemoveLocal
  <2>2. local'[q] = None
    BY <1>4 DEF RemoveLocal
  <2> QED
    BY <1>4, <2>1, <2>2
<1>5. ASSUME NEW q \in Paths, WriteLocal(q)
      PROVE  WriteLocal(p) /\ local'[p] = newest + 1
  <2>1. p = q
    BY <1>5 DEF WriteLocal
  <2>2. local'[q] = newest + 1
    BY <1>5 DEF WriteLocal
  <2> QED
    BY <1>5, <2>1, <2>2
<1>6. ASSUME NEW q \in Paths, DeleteRemoteFile(q) \/ PushFile(q) \/ WriteRemote(q) \/ RemoveRemote(q)
      PROVE  FALSE
  BY <1>6 DEF DeleteRemoteFile, PushFile, WriteRemote, RemoveRemote
<1>7. CASE \/ PullDone \/ DeleteLocalDone \/ DeleteRemoteDone \/ Revalidate
           \/ ConflictsDone \/ PushDone \/ Commit \/ Mark \/ Stamp
  BY <1>7 DEF PullDone, DeleteLocalDone, DeleteRemoteDone, Revalidate, ConflictsDone, PushDone,
     Commit, Mark, Stamp, Enter, trees
<1>8. CASE RefusePlan \/ StopOnPartial \/ RefuseStale \/ Fail
  BY <1>8 DEF RefusePlan, StopOnPartial, RefuseStale, Refuse, Fail, trees
<1>9. CASE UNCHANGED vars
  BY <1>9 DEF vars, trees
<1> QED
  BY <1>1, <1>2, <1>3, <1>4, <1>5, <1>6, <1>7, <1>8, <1>9 DEF Next, Proceed, MoveFile, UserActs

LEMMA RemoteMoves ==
  ASSUME TypeOK, [Next]_vars, NEW p \in Paths, remote'[p] # remote[p]
  PROVE  \/ PushFile(p) /\ remote'[p] = local[p] /\ local[p] # None
         \/ DeleteRemoteFile(p) /\ remote'[p] = None
         \/ RemoveRemote(p) /\ remote'[p] = None
         \/ WriteRemote(p) /\ remote'[p] = newest + 1
<1> USE DEF TypeOK, Inventories
<1>1. CASE Start \/ InventoryLocal \/ InventoryRemote
  BY <1>1 DEF Start, ComputeTombstones, InventoryLocal, InventoryRemote, trees
<1>2. ASSUME NEW q \in Paths, PushFile(q)
      PROVE  PushFile(p) /\ remote'[p] = local[p] /\ local[p] # None
  <2>1. p = q
    BY <1>2 DEF PushFile
  <2>2. remote'[q] = local[q] /\ local[q] # None
    BY <1>2, <2>1 DEF PushFile
  <2> QED
    BY <1>2, <2>1, <2>2
<1>3. ASSUME NEW q \in Paths, DeleteRemoteFile(q)
      PROVE  DeleteRemoteFile(p) /\ remote'[p] = None
  <2>1. p = q
    BY <1>3 DEF DeleteRemoteFile
  <2>2. remote'[q] = None
    BY <1>3 DEF DeleteRemoteFile
  <2> QED
    BY <1>3, <2>1, <2>2
<1>4. ASSUME NEW q \in Paths, RemoveRemote(q)
      PROVE  RemoveRemote(p) /\ remote'[p] = None
  <2>1. p = q
    BY <1>4 DEF RemoveRemote
  <2>2. remote'[q] = None
    BY <1>4 DEF RemoveRemote
  <2> QED
    BY <1>4, <2>1, <2>2
<1>5. ASSUME NEW q \in Paths, WriteRemote(q)
      PROVE  WriteRemote(p) /\ remote'[p] = newest + 1
  <2>1. p = q
    BY <1>5 DEF WriteRemote
  <2>2. remote'[q] = newest + 1
    BY <1>5 DEF WriteRemote
  <2> QED
    BY <1>5, <2>1, <2>2
<1>6. ASSUME NEW q \in Paths, DeleteLocalFile(q) \/ PullFile(q) \/ WriteLocal(q) \/ RemoveLocal(q)
      PROVE  FALSE
  BY <1>6 DEF DeleteLocalFile, PullFile, WriteLocal, RemoveLocal
<1>7. CASE \/ PullDone \/ DeleteLocalDone \/ DeleteRemoteDone \/ Revalidate
           \/ ConflictsDone \/ PushDone \/ Commit \/ Mark \/ Stamp
  BY <1>7 DEF PullDone, DeleteLocalDone, DeleteRemoteDone, Revalidate, ConflictsDone, PushDone,
     Commit, Mark, Stamp, Enter, trees
<1>8. CASE RefusePlan \/ StopOnPartial \/ RefuseStale \/ Fail
  BY <1>8 DEF RefusePlan, StopOnPartial, RefuseStale, Refuse, Fail, trees
<1>9. CASE UNCHANGED vars
  BY <1>9 DEF vars, trees
<1> QED
  BY <1>1, <1>2, <1>3, <1>4, <1>5, <1>6, <1>7, <1>8, <1>9 DEF Next, Proceed, MoveFile, UserActs

\* A pull or a push brings a content the baseline does not record, a user's
\* write a new one; a dead version still in a tree is the baseline's.
LEMMA SticksStep ==
  ASSUME DInv, [Next]_vars, NEW p \in Paths
  PROVE  /\ local'[p] # local[p] => <<p, local'[p]>> \notin dead
         /\ remote'[p] # remote[p] => <<p, remote'[p]>> \notin dead
<1> USE DEF DInv
<1>1. TypeOK /\ DPath(p)
  OBVIOUS
<1>2. /\ local[p] \in Nat /\ remote[p] \in Nat /\ newest \in Nat
      /\ lsnap[p] \in Nat /\ rsnap[p] \in Nat /\ baseline[p] \in Nat
  BY <1>1 DEF TypeOK, Inventories
<1>3. /\ <<p, None>> \notin dead
      /\ <<p, newest + 1>> \notin dead
      /\ <<p, remote[p]>> \in dead => baseline[p] = remote[p]
      /\ <<p, local[p]>> \in dead => baseline[p] = local[p]
  BY <1>1, <1>2 DEF DPath, DeadKept, None
<1>4. ASSUME PullFile(p), remote[p] # None PROVE <<p, remote[p]>> \notin dead
  <2>1. pc = "pull" /\ p \in todo
    BY <1>4 DEF PullFile
  <2>2. rsnap[p] # baseline[p]
    BY <2>1, <1>1 DEF DPath, Scope, PlanPull, Pull, Accepted, RemoteChanged
  <2>3. baseline[p] # None => remote[p] # baseline[p]
    BY <1>1, <2>1, <2>2 DEF DPath, Away, AfterRemote
  <2> QED
    BY <1>3, <1>4, <2>3
<1>5. ASSUME PushFile(p), local[p] # None PROVE <<p, local[p]>> \notin dead
  <2>1. pc \in {"conflict", "push"} /\ p \in todo
    BY <1>5 DEF PushFile
  <2>2. lsnap[p] # baseline[p]
    BY <2>1, <1>1
       DEF DPath, Scope, PlanPush, PlanQuarantine, Push, QuarantineRemote, Sent, LocalChanged
  <2>3. baseline[p] # None => local[p] # baseline[p]
    BY <1>1, <2>1, <2>2 DEF DPath, Away, AfterLocal, AfterRemote
  <2> QED
    BY <1>3, <1>5, <2>3
<1> QED
  BY <1>1, <1>3, <1>4, <1>5, LocalMoves, RemoteMoves

LEMMA UsersStep ==
  ASSUME DInv, [Next]_vars, NEW p \in Paths
  PROVE  /\ (local'[p] = None /\ local[p] # None) => RemoteGround(p) \/ RemoveLocal(p)
         /\ (remote'[p] = None /\ remote[p] # None) => LocalGround(p) \/ RemoveRemote(p)
<1> USE DEF DInv
<1>1. TypeOK /\ DPath(p)
  OBVIOUS
<1>2. /\ newest \in Nat /\ lsnap[p] \in Nat /\ rsnap[p] \in Nat /\ baseline[p] \in Nat
  BY <1>1 DEF TypeOK, Inventories
<1>3. ASSUME DeleteLocalFile(p) PROVE RemoteGround(p)
  <2>1. pc = "dellocal" /\ p \in todo
    BY <1>3 DEF DeleteLocalFile
  <2>2. lsnap[p] = baseline[p] /\ rsnap[p] # baseline[p] /\ rsnap[p] = None
    BY <1>1, <2>1 DEF DPath, DeleteScope, PlanDeleteLocal, DeleteLocal, Accepted, LocalChanged,
       RemoteChanged
  <2> QED
    BY <1>1, <2>1, <2>2 DEF DPath, Looked, AfterRemote
<1>4. ASSUME DeleteRemoteFile(p) PROVE LocalGround(p)
  <2>1. p \in tombstones /\ pc \in AfterLocal
    BY <1>1, <1>4 DEF DeleteRemoteFile, DPath, DeleteScope, AfterLocal, AfterRemote
  <2> QED
    BY <1>1, <2>1 DEF DPath, Missing
<1>5. newest + 1 # None
  BY <1>2 DEF None
<1> QED
  BY <1>1, <1>3, <1>4, <1>5, LocalMoves, RemoteMoves

\* Once a user of either machine deletes a file the verified baseline records,
\* no step of any run brings that content back (PullPeerPlan, PushPeerPlan), for
\* any number of paths, runs, failures and edits, provided no user acts between
\* the tombstones and the local inventory of one run.
THEOREM DeletionsHold == Punctual => (Spec => DeletionSticks)
<1> SUFFICES ASSUME Punctual PROVE Spec => DeletionSticks
  OBVIOUS
<1>1. Punctual /\ DInv /\ [Next]_vars => DInv'
  BY DInvStep
<1>2. DInv /\ [Next]_vars =>
        [\A p \in Paths :
           /\ local'[p] # local[p] => <<p, local'[p]>> \notin dead
           /\ remote'[p] # remote[p] => <<p, remote'[p]>> \notin dead]_vars
  BY SticksStep
<1> QED
  BY <1>1, <1>2, DInvInit, PTL DEF Spec, DeletionSticks

\* DeletePeerLocal moves a file away only when a user of the peer had deleted that
\* path, and PropagateDeletes only when the coordinator's user had, or a run had
\* accepted such a deletion from the peer and none had committed since: what one
\* side never received, or wrote again, is never read as that side's deletion.
THEOREM DeletionsByUsers == Punctual => (Spec => DeletionsAreUsers)
<1> SUFFICES ASSUME Punctual PROVE Spec => DeletionsAreUsers
  OBVIOUS
<1>1. Punctual /\ DInv /\ [Next]_vars => DInv'
  BY DInvStep
<1>2. ASSUME DInv, [Next]_vars
      PROVE  [\A p \in Paths :
                /\ (local'[p] = None /\ local[p] # None) =>
                      <<"remote", p>> \in grounds \/ RemoveLocal(p)
                /\ (remote'[p] = None /\ remote[p] # None) =>
                      {<<"local", p>>, <<"run", p>>} \cap grounds # {} \/ RemoveRemote(p)]_vars
  BY <1>2, UsersStep DEF RemoteGround, LocalGround
<1> QED
  BY <1>1, <1>2, DInvInit, PTL DEF Spec, DeletionsAreUsers

=============================================================================
