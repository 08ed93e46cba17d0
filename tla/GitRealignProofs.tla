-------------------------- MODULE GitRealignProofs --------------------------
(***************************************************************************)
(* Proofs about GitRealign, for any history, files and number of failures. *)
(* A history is what HistoryAssumption says of one: Reach is the least set *)
(* closed under Parent, and all that is used of it is that it is least.    *)
(*                                                                         *)
(* CommitsKept.  The argument is Safe.  What the remote has was published  *)
(* (Published), so a target holds nothing that is only here (PlanOK); what *)
(* a move takes off a branch is HEAD as judged, which Keep has put on a    *)
(* rescue branch (Saved) or the target descends from; and the compare-and- *)
(* swap of the branch, or the second look at HEAD under index.lock, makes  *)
(* sure that the branch was still there (Left).  What an undo takes off is *)
(* a target again (UndoSafe).                                              *)
(*                                                                         *)
(* NoRepublish.  The argument is Fresh.  Everything here that a rewrite    *)
(* may concern is in line with a branch of the remote: of each commit that *)
(* is rewritten, that branch has it or its twin (Lined).  So when it was   *)
(* taken out its twin is there (Shown), a remote that did not move shows   *)
(* the twin in what was fetched, and the judgment refused (NoTwinSeen,     *)
(* Clean).  A run must be on the branch it judged for this (Steady).       *)
(*                                                                         *)
(* MovesWhole.  The argument is Whole: where the index and the branches    *)
(* stand at each point between taking index.lock and letting it go.        *)
(***************************************************************************)
EXTENDS GitRealign, TLAPS

-----------------------------------------------------------------------------
(* The invariant of the user's commits *)

\* What a branch may be at.
Heads == Commits \cup {NoCommit}

\* A history with no commit that is only here.
Foreign(c) == Reach[c] \cap Mine = {}

\* What the rescue branches hold.
Rescued == UNION {Reach[rescues[k]] : k \in 1..MaxRescues}

\* What a run may have judged, and what a report may say how to undo.
Plans == [head : Heads, on : Branches, target : Commits, rescue : 0..MaxRescues,
          push : BOOLEAN, switch : BOOLEAN, old : Heads]

Undos == [on : Branches, head : Heads, target : Commits, switch : BOOLEAN]

\* The places of a run: before it has a plan, moving a branch, switching to
\* the default branch, and there after the comparison with it.
Idle == {"off", "block", "judge"}
Moving == {"lock", "move", "rename"}
Compared == {"lockdef", "recheck", "movedef", "point", "renamedef", "config"}
Switching == {"compare"} \cup Compared

\* The type invariant.
TypesOK ==
    /\ head \in Branches
    /\ branch \in [Branches -> Heads]
    /\ rescues \in [1..MaxRescues -> Heads]
    /\ index \in [base : Heads, staged : BOOLEAN]
    /\ lock \in Runs \cup {NoLock, Stale}
    /\ seen \in [Branches -> Heads]
    /\ remote \in [Branches -> Heads]
    /\ pushed \subseteq Heads
    /\ taken \subseteq Commits
    /\ made \subseteq Mine
    /\ undo \in Undos \cup {NoUndo}
    /\ pc \in [Runs -> Pcs]
    /\ plan \in [Runs -> Plans \cup {NoPlan}]

\* The remote has nothing that is only here.
Published == \A on \in Branches : Foreign(remote[on]) /\ Foreign(seen[on])

\* What the place of a run says about its plan.
PlanOK(r) ==
    pc[r] \notin Idle =>
        /\ plan[r] \in Plans
        /\ Foreign(plan[r].target)
        /\ plan[r].rescue = None =>
              /\ plan[r].head \in Reach[plan[r].target]
              /\ ~plan[r].switch
              /\ pc[r] \in Moving
        /\ plan[r].switch => plan[r].on # "main"
        /\ pc[r] \in {"check", "push"} => plan[r].push
        /\ pc[r] \in Moving => ~plan[r].switch
        /\ pc[r] \in Switching => plan[r].switch
        /\ pc[r] \in Compared => Foreign(plan[r].old)

\* index.lock is the run's while it needs it.
Held(r) == pc[r] \in Holding => lock = r

\* Once a run may move a branch, the rescue branches hold HEAD's commits.
Saved(r) ==
    pc[r] \in {"push"} \cup Moving \cup Switching => Reach[plan[r].head] \cap Mine \subseteq Rescued

\* The moved branch holds nothing of the user's.
Landed(r) == pc[r] = "rename" => Foreign(HeadCommit)

\* The rescue branches hold the commits of the branch that a switch leaves.
Left(r) ==
    pc[r] \in {"movedef", "point", "renamedef"} =>
        Reach[branch[plan[r].on]] \cap Mine \subseteq Rescued

\* What an undo command takes off a branch is published or rescued.
UndoSafe ==
    undo # NoUndo =>
        /\ Foreign(undo.target)
        /\ undo.switch => Reach[branch[undo.on]] \cap Mine \subseteq Rescued

-----------------------------------------------------------------------------
(* Histories *)

\* Parents are commits or none.
LEMMA ParentOf == \A c \in Commits : Parent[c] \in Heads
BY GitRealignAssumption DEF Heads

\* No commit, no history.
LEMMA NoHistory == Reach[NoCommit] = {}
BY DEF Reach

\* A history is of commits,
LEMMA ReachCommits == \A c \in Heads : Reach[c] \subseteq Commits
BY DEF Reach, Heads

\* has the commit itself,
LEMMA ReachSelf == \A c \in Commits : c \in Reach[c]
BY GitRealignAssumption DEF Reach

\* A set that holds its parents and a commit holds the commit's history.
LEMMA ReachLeast ==
    ASSUME NEW S \in Closed, NEW c \in S
    PROVE  Reach[c] \subseteq S
BY DEF Reach, Closed

\* holds its parents,
LEMMA ReachClosed == \A c \in Heads : Reach[c] \in Closed
<1> SUFFICES ASSUME NEW c \in Heads PROVE Reach[c] \in Closed
  OBVIOUS
<1>1. Reach[c] \in SUBSET Commits
  BY ReachCommits
<1>2. ASSUME NEW d \in Reach[c], Parent[d] # NoCommit PROVE Parent[d] \in Reach[c]
  <2>1. d \in Commits /\ Parent[d] \in Commits
    BY <1>1, <1>2, ParentOf DEF Heads
  <2>2. c # NoCommit /\ \A S \in Closed : c \in S => d \in S
    BY <1>2 DEF Reach, Heads
  <2>3. \A S \in Closed : c \in S => Parent[d] \in S
    BY <2>2, <1>2 DEF Closed
  <2> QED BY <2>1, <2>2, <2>3 DEF Reach, Heads
<1> QED BY <1>1, <1>2 DEF Closed

\* and with a commit that commit's history.
LEMMA ReachTrans == \A c \in Heads : \A d \in Reach[c] : Reach[d] \subseteq Reach[c]
BY ReachClosed, ReachLeast

\* A commit adds itself to its parent's history.
LEMMA ReachParent ==
    ASSUME NEW c \in Commits
    PROVE  /\ Reach[Parent[c]] \subseteq Reach[c]
           /\ Reach[c] \subseteq {c} \cup Reach[Parent[c]]
<1>1. Parent[c] = NoCommit \/ Parent[c] \in Reach[c]
  BY ReachSelf, ReachClosed DEF Closed, Heads
<1>2. Reach[Parent[c]] \subseteq Reach[c]
  BY <1>1, NoHistory, ReachTrans DEF Heads
<1>3. {c} \cup Reach[Parent[c]] \in Closed
  <2>1. Reach[Parent[c]] \in Closed
    BY ParentOf, ReachClosed
  <2>2. Parent[c] = NoCommit \/ Parent[c] \in Reach[Parent[c]]
    BY ParentOf, ReachSelf DEF Heads
  <2> QED BY <2>1, <2>2 DEF Closed
<1> QED BY <1>2, <1>3, ReachLeast

\* A rewrite makes commits that are not rewritten again and are not the user's.
LEMMA TwinTypes ==
    \A c \in DOMAIN Twin : c \in Commits /\ Twin[c] \in Commits /\ Twin[c] \notin DOMAIN Twin
                           /\ c \notin Mine /\ Twin[c] \notin Mine
BY GitRealignAssumption, HistoryAssumption

\* What a rewrite makes of a history: a commit of it stays, or has its twin.
LEMMA TwinKeeps ==
    ASSUME NEW c \in DOMAIN Twin, NEW t \in Reach[c]
    PROVE  t \in Reach[Twin[c]] \/ (t \in DOMAIN Twin /\ Twin[t] \in Reach[Twin[c]])
<1> DEFINE R == Reach[Twin[c]]
           S == {x \in Commits : x \in R \/ (x \in DOMAIN Twin /\ Twin[x] \in R)}
<1>1. Twin[c] \in Heads /\ R \in Closed /\ R \subseteq Commits
  BY TwinTypes, ReachClosed, ReachCommits DEF Heads
<1>2. c \in S
  BY TwinTypes, ReachSelf
<1>3. ASSUME NEW x \in S, Parent[x] # NoCommit PROVE Parent[x] \in S
  <2>1. Parent[x] \in Commits
    BY <1>3, ParentOf DEF Heads
  <2>2. CASE x \in R
    BY <1>1, <1>3, <2>1, <2>2 DEF Closed
  <2>3. CASE x \in DOMAIN Twin /\ Twin[x] \in R
    <3>1. Parent[Twin[x]] = IF Parent[x] \in DOMAIN Twin THEN Twin[Parent[x]] ELSE Parent[x]
      BY <2>3, HistoryAssumption
    <3>2. Parent[Twin[x]] # NoCommit
      BY <3>1, <1>3, TwinTypes, GitRealignAssumption
    <3>3. Parent[Twin[x]] \in R
      BY <2>3, <3>2, <1>1 DEF Closed
    <3> QED BY <3>1, <3>3, <2>1
  <2> QED BY <2>2, <2>3
<1>4. S \in Closed
  BY <1>3 DEF Closed
<1> HIDE DEF S
<1>5. t \in S
  BY <1>2, <1>4, ReachLeast
<1> QED BY <1>5 DEF S

\* And every commit of the rewritten history comes from the one before.
LEMMA TwinFrom ==
    ASSUME NEW c \in DOMAIN Twin, NEW t \in Reach[Twin[c]]
    PROVE  t \in Reach[c] \/ \E d \in DOMAIN Twin : t = Twin[d]
<1> DEFINE S == {x \in Commits : x \in Reach[c] \/ \E d \in DOMAIN Twin \cap Reach[c] : x = Twin[d]}
<1>1. c \in Commits /\ Reach[c] \in Closed /\ Reach[c] \subseteq Commits
  BY TwinTypes, ReachClosed, ReachCommits DEF Heads
<1>2. Twin[c] \in S
  BY TwinTypes, ReachSelf
<1>3. ASSUME NEW x \in S, Parent[x] # NoCommit PROVE Parent[x] \in S
  <2>1. Parent[x] \in Commits
    BY <1>3, ParentOf DEF Heads
  <2>2. CASE x \in Reach[c]
    BY <1>1, <1>3, <2>1, <2>2 DEF Closed
  <2>3. ASSUME NEW d \in DOMAIN Twin \cap Reach[c], x = Twin[d] PROVE Parent[x] \in S
    <3>1. Parent[x] = IF Parent[d] \in DOMAIN Twin THEN Twin[Parent[d]] ELSE Parent[d]
      BY <2>3, HistoryAssumption
    <3>2. Parent[d] # NoCommit
      BY <3>1, <1>3, TwinTypes, GitRealignAssumption
    <3>3. Parent[d] \in Reach[c]
      BY <3>2, <1>1 DEF Closed
    <3> QED BY <3>1, <3>3, <2>1
  <2> QED BY <2>2, <2>3
<1>4. S \in Closed
  BY <1>3 DEF Closed
<1> HIDE DEF S
<1>5. t \in S
  BY <1>2, <1>4, ReachLeast
<1> QED BY <1>5 DEF S

-----------------------------------------------------------------------------
(* Judgments *)

\* An upstream is the branch as fetched, or none.
LEMMA UpstreamIn ==
    ASSUME TypesOK
    PROVE  Upstream(head) \in Heads /\ Upstream(head) \in {NoCommit, seen[head]}
BY DEF TypesOK, Upstream, Heads, Branches

\* The target of a judgment is in a history that was fetched.
LEMMA MovesFacts ==
    ASSUME TypesOK, NEW push \in BOOLEAN, NEW p, p \in Moves(push)
    PROVE  /\ p \in Plans /\ p.head = HeadCommit /\ p.on = head /\ p.push = push
           /\ p.rescue = None => ~p.switch /\ p.head \in Reach[p.target]
           /\ p.rescue # None /\ push => ~RewriteTwins(HeadCommit)
           /\ p.switch => p.on # "main" /\ p.target \in Reach[seen["main"]]
           /\ ~p.switch => p.target \in Reach[Upstream(head)]
           /\ p.rescue # None /\ ~p.switch => Upstream(head) # NoCommit
<1> DEFINE h == HeadCommit
           Made(c, n, switch) == p = Plan(c, n, push, switch)
<1>0. h \in Heads
  BY DEF TypesOK, HeadCommit
<1>1. ASSUME NEW c, NEW n, NEW switch, Made(c, n, switch), c \in Commits, n \in 0..MaxRescues,
             switch \in BOOLEAN
      PROVE  /\ p \in Plans /\ p.head = HeadCommit /\ p.on = head /\ p.push = push
             /\ p.target = c /\ p.rescue = n /\ p.switch = switch
  BY <1>1, <1>0 DEF Plan, Plans, Heads, TypesOK
<1>2. ASSUME NEW c \in Newest(Tied(h)), Made(c, None, FALSE)
      PROVE  c \in Reach[Upstream(head)] /\ c \in Commits /\ h \in Reach[c]
  BY UpstreamIn, ReachCommits DEF Newest, Tied, Candidates, StrictDescendant
<1>3. \A c \in Newest(Mismatch(h)) : c \in Reach[seen["main"]] /\ c \in Commits /\ head # "main"
  BY ReachCommits DEF Newest, Mismatch, BestOnChain, TypesOK, Branches
<1>4. \A c \in Newest(Diverged(h)) :
         c \in Reach[Upstream(head)] /\ c \in Commits /\ Upstream(head) # NoCommit
  BY UpstreamIn, ReachCommits, NoHistory DEF Newest, Diverged, BestOnChain
<1>5. \A n \in FirstFree : n \in 1..MaxRescues
  BY DEF FirstFree, FreeNames
<1>6. None \in 0..MaxRescues /\ \A n \in 1..MaxRescues : n \in 0..MaxRescues /\ n # None
  BY GitRealignAssumption DEF None
<1>a. CASE \E c \in Newest(Tied(h)) : Made(c, None, FALSE)
  BY <1>a, <1>1, <1>2, <1>6
<1>b. CASE \E c \in Newest(Mismatch(h)), n \in FirstFree :
             Made(c, n, TRUE) /\ ~(push /\ RewriteTwins(h))
  BY <1>b, <1>1, <1>3, <1>5, <1>6
<1>c. CASE \E c \in Newest(Diverged(h)), n \in FirstFree :
             Made(c, n, FALSE) /\ ~(push /\ RewriteTwins(h))
  BY <1>c, <1>1, <1>4, <1>5, <1>6
<1>7. ASSUME Tied(h) # {} PROVE Moves(push) = {Plan(c, None, push, FALSE) : c \in Newest(Tied(h))}
  BY <1>7 DEF Moves
<1>8. ASSUME Tied(h) = {}, Mismatch(h) # {}
      PROVE  Moves(push) \subseteq Rescues(Mismatch(h), push, TRUE)
  <2>1. \/ Moves(push) = {}
        \/ Moves(push) = {m \in Rescues(Mismatch(h), push, TRUE) : ~DefaultAhead(m.target)}
    BY <1>8 DEF Moves
  <2> QED BY <2>1
<1>9. ASSUME Tied(h) = {}, Mismatch(h) = {}
      PROVE  Moves(push) = {} \/ Moves(push) = Rescues(Diverged(h), push, FALSE)
  BY <1>9 DEF Moves
<1>10. \A cs, switch : p \in Rescues(cs, push, switch) =>
          \E c \in Newest(cs), n \in FirstFree :
              Made(c, n, switch) /\ ~(push /\ RewriteTwins(h))
  BY DEF Rescues
<1> HIDE DEF h
<1> QED BY <1>a, <1>b, <1>c, <1>7, <1>8, <1>9, <1>10

-----------------------------------------------------------------------------
(* Types *)

\* The initial states are well typed.
LEMMA TypesInit == Init => TypesOK
BY HistoryAssumption, GitRealignAssumption DEF Init, TypesOK, Heads, Branches, Pcs, HeadCommit, refs

\* Every step keeps the types: one step per action.
LEMMA TypesStep ==
    ASSUME TypesOK, \A r \in Runs : PlanOK(r), [Next]_vars
    PROVE  TypesOK'
<1> USE DEF world, refs, runState
<1>1. ASSUME NEW r \in Runs, Start(r) PROVE TypesOK'
  BY <1>1 DEF Start, TypesOK, PlanOK, End, Goto, At, Pcs, Unlock, TakeLock, Fails, Idle
<1>2. ASSUME NEW r \in Runs, BlockReason(r) PROVE TypesOK'
  BY <1>2 DEF BlockReason, TypesOK, PlanOK, End, Goto, At, Pcs, Unlock, TakeLock, Fails, Idle
<1>3. ASSUME NEW r \in Runs, Judge(r) PROVE TypesOK'
  BY <1>3, MovesFacts, GitRealignAssumption DEF Judge, TypesOK, End, Goto, At, Pcs, AfterPlan
<1>4. ASSUME NEW r \in Runs, CheckRemote(r) PROVE TypesOK'
  BY <1>4 DEF CheckRemote, TypesOK, PlanOK, End, Goto, At, Pcs, Unlock, TakeLock, Fails, Idle
<1>5. ASSUME NEW r \in Runs, Keep(r) PROVE TypesOK'
  BY <1>5 DEF Keep, TypesOK, PlanOK, End, Goto, At, Pcs, Idle, AfterKeep, Plans, Heads
<1>6. ASSUME NEW r \in Runs, Push(r) PROVE TypesOK'
  BY <1>6 DEF Push, TypesOK, PlanOK, Goto, At, Pcs, Idle, AfterKeep, Plans
<1>7. ASSUME NEW r \in Runs, PushFails(r) PROVE TypesOK'
  BY <1>7 DEF PushFails, TypesOK, PlanOK, End, Goto, At, Pcs, Unlock, TakeLock, Fails, Idle
<1>8. ASSUME NEW r \in Runs, LockIndex(r) PROVE TypesOK'
  BY <1>8 DEF LockIndex, TypesOK, PlanOK, End, Goto, At, Pcs, Unlock, TakeLock, Fails, Idle
<1>9. ASSUME NEW r \in Runs, MoveHead(r) PROVE TypesOK'
  <2>1. plan[r].target \in Heads
    BY <1>9 DEF MoveHead, PlanOK, At, Idle, Plans, Heads
  <2>2. (branch \in [Branches -> Heads])'
    BY <1>9, <2>1 DEF MoveHead, TypesOK
  <2> QED BY <1>9, <2>2 DEF MoveHead, TypesOK, End, Goto, At, Pcs, Unlock
<1>10. ASSUME NEW r \in Runs, RenameLock(r) PROVE TypesOK'
  BY <1>10
     DEF RenameLock, TypesOK, PlanOK, End, Goto, At, Pcs, Unlock, Idle, Moved, Plans, Undos,
     Heads
<1>11. ASSUME NEW r \in Runs, RollBack(r) PROVE TypesOK'
  BY <1>11
     DEF RollBack, TypesOK, PlanOK, End, Goto, At, Pcs, Unlock, TakeLock, Fails, Idle, Plans,
     Heads, RestoreDefault, DefaultAhead, HeadCommit, Branches
<1>12. ASSUME NEW r \in Runs, CompareDefault(r) PROVE TypesOK'
  BY <1>12
     DEF CompareDefault, TypesOK, PlanOK, End, Goto, At, Pcs, Unlock, TakeLock, Fails, Idle,
     Plans, Heads, RestoreDefault, DefaultAhead, HeadCommit, Branches
<1>13. ASSUME NEW r \in Runs, LockDefault(r) PROVE TypesOK'
  BY <1>13 DEF LockDefault, TypesOK, PlanOK, End, Goto, At, Pcs, Unlock, TakeLock, Fails, Idle
<1>14. ASSUME NEW r \in Runs, RecheckHead(r) PROVE TypesOK'
  BY <1>14 DEF RecheckHead, TypesOK, PlanOK, End, Goto, At, Pcs, Unlock, TakeLock, Fails, Idle
<1>15. ASSUME NEW r \in Runs, MoveDefault(r) PROVE TypesOK'
  BY <1>15
     DEF MoveDefault, TypesOK, PlanOK, End, Goto, At, Pcs, Unlock, TakeLock, Fails, Idle,
     Plans, Heads, RestoreDefault, DefaultAhead, HeadCommit, Branches
<1>16. ASSUME NEW r \in Runs, PointHead(r) PROVE TypesOK'
  BY <1>16
     DEF PointHead, TypesOK, PlanOK, End, Goto, At, Pcs, Unlock, TakeLock, Fails, Idle, Branches
<1>17. ASSUME NEW r \in Runs, RestoreHead(r) PROVE TypesOK'
  BY <1>17
     DEF RestoreHead, TypesOK, PlanOK, End, Goto, At, Pcs, Unlock, TakeLock, Fails, Idle,
     Plans, Heads, RestoreDefault, DefaultAhead, HeadCommit, Branches
<1>18. ASSUME NEW r \in Runs, RenameDefault(r) PROVE TypesOK'
  BY <1>18
     DEF RenameDefault, TypesOK, PlanOK, End, Goto, At, Pcs, Unlock, Idle, Moved, Plans, Undos,
     Heads
<1>19. ASSUME NEW r \in Runs, ConfigDefault(r) PROVE TypesOK'
  BY <1>19 DEF ConfigDefault, TypesOK, PlanOK, End, Goto, At, Pcs, Unlock, TakeLock, Fails, Idle
<1>20. ASSUME NEW r \in Runs, Kill(r) PROVE TypesOK'
  BY <1>20 DEF Kill, TypesOK, PlanOK, End, Goto, At, Pcs, Unlock, TakeLock, Fails, Idle
<1>21. ASSUME NEW c \in Mine, Commit(c) PROVE TypesOK'
  BY <1>21, GitRealignAssumption DEF Commit, TypesOK, Heads, runState
<1>22. ASSUME NEW on \in Branches, Switch(on) PROVE TypesOK'
  BY <1>22 DEF Switch, TypesOK, Heads, HeadCommit
<1>23. CASE Stage
  BY <1>23 DEF Stage, TypesOK, Unlock, runState
<1>24. CASE Unstage
  BY <1>24 DEF Unstage, TypesOK, HeadCommit
<1>25. CASE Fetch
  BY <1>25 DEF Fetch, TypesOK, Unlock, runState
<1>26. CASE ForwardMain
  BY <1>26 DEF ForwardMain, TypesOK, Branches
<1>27. CASE Undo
  BY <1>27 DEF Undo, TypesOK, Undos
<1>28. CASE RemoveStaleLock
  BY <1>28 DEF RemoveStaleLock, TypesOK, Unlock, runState
<1>29. ASSUME NEW w \in Worktrees, Deliver(w) PROVE TypesOK'
  BY <1>29 DEF Deliver, TypesOK, Unlock, runState
<1>30. ASSUME NEW on \in Branches, NEW c \in Theirs, RemoteAdvance(on, c) PROVE TypesOK'
  BY <1>30, GitRealignAssumption DEF RemoteAdvance, TypesOK, Heads
<1>31. ASSUME NEW on \in Branches, RemoteRewrite(on) PROVE TypesOK'
  BY <1>31, TwinTypes, ReachCommits DEF RemoteRewrite, TypesOK, Heads
<1>32. CASE RemoteDelete
  BY <1>32 DEF RemoteDelete, TypesOK, Heads, Branches
<1>33. CASE UNCHANGED vars
  BY <1>33 DEF vars, world, refs, TypesOK
<1> QED
  BY <1>1, <1>2, <1>3, <1>4, <1>5, <1>6, <1>7, <1>8, <1>9, <1>10, <1>11, <1>12, <1>13, <1>14,
     <1>15, <1>16, <1>17, <1>18, <1>19, <1>20, <1>21, <1>22, <1>23, <1>24, <1>25, <1>26, <1>27,
     <1>28, <1>29, <1>30, <1>31, <1>32, <1>33
  DEF Next, User, Others, Step, Realign, SwitchDefault

-----------------------------------------------------------------------------
(* CommitsKept *)

\* What a published commit rests on is published.
LEMMA ForeignFacts ==
    ASSUME NEW c \in Heads, Foreign(c)
    PROVE  /\ \A d \in Reach[c] : Foreign(d)
           /\ c \notin Mine
BY ReachTrans, ReachSelf, GitRealignAssumption DEF Foreign, Heads

\* And so is no commit.
LEMMA NoneForeign == Foreign(NoCommit)
BY NoHistory DEF Foreign

\* Only fetches and the other Mac change what is on the remote.
LEMMA RemoteFrame ==
    ASSUME [Next]_vars
    PROVE  \/ UNCHANGED <<seen, remote, taken>>
           \/ Fetch /\ UNCHANGED <<remote, taken>>
           \/ (\E on \in Branches, c \in Theirs : RemoteAdvance(on, c)) /\ UNCHANGED <<seen, taken>>
           \/ (\E on \in Branches : RemoteRewrite(on)) /\ UNCHANGED seen
           \/ RemoteDelete /\ UNCHANGED <<seen, taken>>
<1> USE DEF world, refs, runState
<1> DEFINE Same == UNCHANGED <<seen, remote, taken>>
<1>1. ASSUME NEW r \in Runs, Start(r) PROVE Same
  BY <1>1 DEF Start
<1>2. ASSUME NEW r \in Runs, BlockReason(r) PROVE Same
  BY <1>2 DEF BlockReason
<1>3. ASSUME NEW r \in Runs, Judge(r) PROVE Same
  BY <1>3 DEF Judge
<1>4. ASSUME NEW r \in Runs, CheckRemote(r) PROVE Same
  BY <1>4 DEF CheckRemote
<1>5. ASSUME NEW r \in Runs, Keep(r) PROVE Same
  BY <1>5 DEF Keep
<1>6. ASSUME NEW r \in Runs, Push(r) PROVE Same
  BY <1>6 DEF Push
<1>7. ASSUME NEW r \in Runs, PushFails(r) PROVE Same
  BY <1>7 DEF PushFails
<1>8. ASSUME NEW r \in Runs, LockIndex(r) PROVE Same
  BY <1>8 DEF LockIndex, TakeLock
<1>9. ASSUME NEW r \in Runs, MoveHead(r) PROVE Same
  BY <1>9 DEF MoveHead
<1>10. ASSUME NEW r \in Runs, RenameLock(r) PROVE Same
  BY <1>10 DEF RenameLock
<1>11. ASSUME NEW r \in Runs, RollBack(r) PROVE Same
  BY <1>11 DEF RollBack
<1>12. ASSUME NEW r \in Runs, CompareDefault(r) PROVE Same
  BY <1>12 DEF CompareDefault
<1>13. ASSUME NEW r \in Runs, LockDefault(r) PROVE Same
  BY <1>13 DEF LockDefault, TakeLock
<1>14. ASSUME NEW r \in Runs, RecheckHead(r) PROVE Same
  BY <1>14 DEF RecheckHead
<1>15. ASSUME NEW r \in Runs, MoveDefault(r) PROVE Same
  BY <1>15 DEF MoveDefault
<1>16. ASSUME NEW r \in Runs, PointHead(r) PROVE Same
  BY <1>16 DEF PointHead
<1>17. ASSUME NEW r \in Runs, RestoreHead(r) PROVE Same
  BY <1>17 DEF RestoreHead
<1>18. ASSUME NEW r \in Runs, RenameDefault(r) PROVE Same
  BY <1>18 DEF RenameDefault
<1>19. ASSUME NEW r \in Runs, ConfigDefault(r) PROVE Same
  BY <1>19 DEF ConfigDefault
<1>20. ASSUME NEW r \in Runs, Kill(r) PROVE Same
  BY <1>20 DEF Kill
<1>21. ASSUME NEW c \in Mine, Commit(c) PROVE Same
  BY <1>21 DEF Commit
<1>22. ASSUME NEW on \in Branches, Switch(on) PROVE Same
  BY <1>22 DEF Switch
<1>23. ASSUME Stage PROVE Same
  BY <1>23 DEF Stage
<1>24. ASSUME Unstage PROVE Same
  BY <1>24 DEF Unstage
<1>26. ASSUME ForwardMain PROVE Same
  BY <1>26 DEF ForwardMain
<1>27. ASSUME Undo PROVE Same
  BY <1>27 DEF Undo
<1>28. ASSUME RemoveStaleLock PROVE Same
  BY <1>28 DEF RemoveStaleLock
<1>29. ASSUME NEW w \in Worktrees, Deliver(w) PROVE Same
  BY <1>29 DEF Deliver
<1>33. ASSUME UNCHANGED vars PROVE Same
  BY <1>33 DEF vars, world, refs
<1> HIDE DEF Same
<1>q. Same \/ Fetch \/ (\E on \in Branches, c \in Theirs : RemoteAdvance(on, c))
        \/ (\E on \in Branches : RemoteRewrite(on)) \/ RemoteDelete
  BY <1>1, <1>2, <1>3, <1>4, <1>5, <1>6, <1>7, <1>8, <1>9, <1>10, <1>11, <1>12, <1>13, <1>14,
     <1>15, <1>16, <1>17, <1>18, <1>19, <1>20, <1>21, <1>22, <1>23, <1>24, <1>26, <1>27, <1>28,
     <1>29, <1>33 DEF Next, User, Others, Step, Realign, SwitchDefault
<1> QED BY <1>q DEF Same, Fetch, RemoteAdvance, RemoteRewrite, RemoteDelete

\* At first the remote has what the starts give it.
LEMMA PublishedInit == Init => Published
BY HistoryAssumption DEF Init, Published, Foreign

\* Nobody but the runs brings the user's commits to the remote, and they only
\* to rescue branches.
LEMMA PublishedStep ==
    ASSUME TypesOK, Published, [Next]_vars
    PROVE  Published'
<1>1. CASE UNCHANGED <<seen, remote>>
  BY <1>1 DEF Published, Foreign
<1>2. CASE Fetch
  BY <1>2 DEF Fetch, Published, Foreign, world
<1>3. ASSUME NEW on \in Branches, NEW c \in Theirs, RemoteAdvance(on, c) PROVE Published'
  <2>1. c \in Commits /\ c \notin Mine /\ Parent[c] = remote[on] /\ Foreign(Parent[c])
    BY <1>3, GitRealignAssumption DEF RemoteAdvance, Published
  <2>2. Foreign(c)
    BY <2>1, ReachParent DEF Foreign
  <2> QED BY <1>3, <2>2 DEF RemoteAdvance, Published, Foreign, TypesOK
<1>4. ASSUME NEW on \in Branches, RemoteRewrite(on) PROVE Published'
  <2>1. remote[on] \in DOMAIN Twin /\ Foreign(remote[on])
    BY <1>4 DEF RemoteRewrite, Published
  <2>2. Foreign(Twin[remote[on]])
    BY <2>1, TwinFrom, TwinTypes DEF Foreign
  <2> QED BY <1>4, <2>2 DEF RemoteRewrite, Published, Foreign, TypesOK
<1>5. CASE RemoteDelete
  BY <1>5, NoHistory DEF RemoteDelete, Published, Foreign, TypesOK
<1> QED BY <1>1, <1>2, <1>3, <1>4, <1>5, RemoteFrame

\* A run's plan is its own.
LEMMA RunAlone ==
    ASSUME TypesOK, NEW r \in Runs, Step(r) \/ Kill(r)
    PROVE  \A q \in Runs \ {r} : pc'[q] = pc[q] /\ plan'[q] = plan[q]
<1>1. CASE Start(r)
  BY <1>1 DEF TypesOK, Start, Goto, End
<1>2. CASE BlockReason(r)
  BY <1>2 DEF TypesOK, BlockReason, Goto, End
<1>3. CASE Judge(r)
  BY <1>3 DEF TypesOK, Judge, Goto, End
<1>4. CASE CheckRemote(r)
  BY <1>4 DEF TypesOK, CheckRemote, Goto, End
<1>5. CASE Keep(r)
  BY <1>5 DEF TypesOK, Keep, Goto, End
<1>6. CASE Push(r)
  BY <1>6 DEF TypesOK, Push, Goto, End
<1>7. CASE PushFails(r)
  BY <1>7 DEF TypesOK, PushFails, Goto, End
<1>8. CASE LockIndex(r)
  BY <1>8 DEF TypesOK, LockIndex, Goto, End, TakeLock
<1>9. CASE MoveHead(r)
  BY <1>9 DEF TypesOK, MoveHead, Goto, End
<1>10. CASE RenameLock(r)
  BY <1>10 DEF TypesOK, RenameLock, Goto, End
<1>11. CASE RollBack(r)
  BY <1>11 DEF TypesOK, RollBack, Goto, End
<1>12. CASE CompareDefault(r)
  BY <1>12 DEF TypesOK, CompareDefault, Goto, End
<1>13. CASE LockDefault(r)
  BY <1>13 DEF TypesOK, LockDefault, Goto, End, TakeLock
<1>14. CASE RecheckHead(r)
  BY <1>14 DEF TypesOK, RecheckHead, Goto, End
<1>15. CASE MoveDefault(r)
  BY <1>15 DEF TypesOK, MoveDefault, Goto, End
<1>16. CASE PointHead(r)
  BY <1>16 DEF TypesOK, PointHead, Goto, End
<1>17. CASE RestoreHead(r)
  BY <1>17 DEF TypesOK, RestoreHead, Goto, End
<1>18. CASE RenameDefault(r)
  BY <1>18 DEF TypesOK, RenameDefault, Goto, End
<1>19. CASE ConfigDefault(r)
  BY <1>19 DEF TypesOK, ConfigDefault, Goto, End
<1>20. CASE Kill(r)
  BY <1>20 DEF TypesOK, Kill, Goto, End
<1> QED BY <1>1, <1>2, <1>3, <1>4, <1>5, <1>6, <1>7, <1>8, <1>9, <1>10, <1>11, <1>12, <1>13,
           <1>14, <1>15, <1>16, <1>17, <1>18, <1>19, <1>20 DEF Step, Realign, SwitchDefault

\* The user and the other Mac change no run.
LEMMA RunFrame ==
    ASSUME User \/ Others \/ UNCHANGED vars
    PROVE  UNCHANGED <<pc, plan>>
BY DEF User, Others, Commit, Switch, Stage, Unstage, Fetch, ForwardMain, Undo, RemoveStaleLock,
   Deliver, RemoteAdvance, RemoteRewrite, RemoteDelete, runState, vars

\* Every step leaves a run with a plan that fits its place.
LEMMA PlanStep ==
    ASSUME TypesOK, Published, NEW r \in Runs, PlanOK(r), Step(r) \/ Kill(r)
    PROVE  PlanOK(r)'
<1> USE DEF TypesOK, PlanOK, At, Goto, Idle, Moving, Switching, Compared
<1>1. CASE Start(r)
  BY <1>1 DEF Start
<1>2. CASE BlockReason(r)
  BY <1>2 DEF BlockReason, End
<1>3. CASE Judge(r)
  <2>1. CASE plan'[r] = NoPlan /\ pc'[r] = "off"
    BY <2>1
  <2>2. ASSUME NEW push \in BOOLEAN, NEW p, p \in Moves(push),
               pc'[r] = AfterPlan(p), plan'[r] = p
        PROVE  PlanOK(r)'
    <3>1. Foreign(p.target)
      BY <2>2, MovesFacts, UpstreamIn, ForeignFacts, NoneForeign DEF Published, Branches
    <3> QED BY <2>2, <3>1, MovesFacts DEF AfterPlan, Foreign
  <2> QED BY <1>3, <2>1, <2>2, GitRealignAssumption DEF Judge, End
<1>4. CASE CheckRemote(r)
  BY <1>4 DEF CheckRemote, End
<1>5. CASE Keep(r)
  BY <1>5 DEF Keep, AfterKeep, End
<1>6. CASE Push(r)
  BY <1>6 DEF Push, AfterKeep
<1>7. CASE PushFails(r)
  BY <1>7 DEF PushFails, End
<1>8. CASE LockIndex(r)
  BY <1>8 DEF LockIndex, TakeLock, End
<1>9. CASE MoveHead(r)
  BY <1>9 DEF MoveHead, End
<1>10. CASE RenameLock(r)
  BY <1>10 DEF RenameLock, End
<1>11. CASE RollBack(r)
  BY <1>11 DEF RollBack, End
<1>12. CASE CompareDefault(r)
  <2>1. CASE DefaultAhead(plan[r].target)
    BY <1>12, <2>1 DEF CompareDefault, End
  <2>2. ASSUME ~DefaultAhead(plan[r].target) PROVE Foreign(branch["main"])
    BY <1>12, <2>2, ForeignFacts, NoneForeign
       DEF CompareDefault, DefaultAhead, StrictDescendant, Plans, Heads
  <2>3. ASSUME ~DefaultAhead(plan[r].target)
        PROVE  /\ pc' = [pc EXCEPT ![r] = "lockdef"]
               /\ plan' = [plan EXCEPT ![r].old = branch["main"]]
               /\ plan[r] \in Plans /\ branch["main"] \in Heads
    BY <1>12, <2>3 DEF CompareDefault, Branches
  <2>4. ASSUME ~DefaultAhead(plan[r].target)
        PROVE  plan'[r] = [plan[r] EXCEPT !.old = branch["main"]]
    BY <2>3, <2>4
  <2> QED BY <1>12, <2>1, <2>2, <2>3, <2>4 DEF CompareDefault, Plans
<1>13. CASE LockDefault(r)
  BY <1>13 DEF LockDefault, TakeLock, End
<1>14. CASE RecheckHead(r)
  BY <1>14 DEF RecheckHead, End
<1>15. CASE MoveDefault(r)
  BY <1>15 DEF MoveDefault, End
<1>16. CASE PointHead(r)
  BY <1>16 DEF PointHead
<1>17. CASE RestoreHead(r)
  BY <1>17 DEF RestoreHead, End
<1>18. CASE RenameDefault(r)
  BY <1>18 DEF RenameDefault, End
<1>19. CASE ConfigDefault(r)
  BY <1>19 DEF ConfigDefault, End
<1>20. CASE Kill(r)
  BY <1>20 DEF Kill, End
<1> QED BY <1>1, <1>2, <1>3, <1>4, <1>5, <1>6, <1>7, <1>8, <1>9, <1>10, <1>11, <1>12, <1>13,
           <1>14, <1>15, <1>16, <1>17, <1>18, <1>19, <1>20 DEF Step, Realign, SwitchDefault

\* Only the run that holds index.lock releases it, or its end leaves it stale.
LEMMA HeldRun ==
    ASSUME TypesOK, NEW r \in Runs, Held(r), Step(r) \/ Kill(r)
    PROVE  /\ Held(r)'
           /\ \A q \in Runs \ {r} : lock = q => lock' = q
<1> USE GitRealignAssumption DEF TypesOK, Held, Holding, At, Goto
<1>1. CASE Start(r)
  BY <1>1 DEF Start, End, Unlock, refs, world
<1>2. CASE BlockReason(r)
  BY <1>2 DEF BlockReason, End, Unlock, refs, world
<1>3. CASE Judge(r)
  BY <1>3 DEF Judge, End, AfterPlan
<1>4. CASE CheckRemote(r)
  BY <1>4 DEF CheckRemote, End, Unlock, refs, world
<1>5. CASE Keep(r)
  BY <1>5 DEF Keep, AfterKeep, End, refs, world
<1>6. CASE Push(r)
  BY <1>6 DEF Push, AfterKeep, End, refs, world
<1>7. CASE PushFails(r)
  BY <1>7 DEF PushFails, End, Unlock, refs, world
<1>8. CASE LockIndex(r)
  BY <1>8 DEF LockIndex, TakeLock, End
<1>9. CASE MoveHead(r)
  BY <1>9 DEF MoveHead, End, Unlock, refs, world
<1>10. CASE RenameLock(r)
  BY <1>10 DEF RenameLock, End, Unlock, Moved
<1>11. CASE RollBack(r)
  BY <1>11 DEF RollBack, End, Unlock, refs, world
<1>12. CASE CompareDefault(r)
  BY <1>12 DEF CompareDefault, End, Unlock, refs, world
<1>13. CASE LockDefault(r)
  BY <1>13 DEF LockDefault, TakeLock, End
<1>14. CASE RecheckHead(r)
  BY <1>14 DEF RecheckHead, End, Unlock, refs, world
<1>15. CASE MoveDefault(r)
  BY <1>15 DEF MoveDefault, End, Unlock, refs, world
<1>16. CASE PointHead(r)
  BY <1>16 DEF PointHead, End, Unlock, refs, world
<1>17. CASE RestoreHead(r)
  BY <1>17 DEF RestoreHead, End, Unlock, refs, world
<1>18. CASE RenameDefault(r)
  BY <1>18 DEF RenameDefault, End, Unlock, Moved
<1>19. CASE ConfigDefault(r)
  BY <1>19 DEF ConfigDefault, End, Unlock, refs, world
<1>20. CASE Kill(r)
  BY <1>20 DEF Kill, End, Unlock, refs, world
<1> QED BY <1>1, <1>2, <1>3, <1>4, <1>5, <1>6, <1>7, <1>8, <1>9, <1>10, <1>11, <1>12, <1>13,
           <1>14, <1>15, <1>16, <1>17, <1>18, <1>19, <1>20 DEF Step, Realign, SwitchDefault

\* index.lock stays the run's until it lets it go.
LEMMA HeldStep ==
    ASSUME TypesOK, \A r \in Runs : Held(r), [Next]_vars
    PROVE  \A r \in Runs : Held(r)'
<1>1. ASSUME NEW r \in Runs, Step(r) \/ Kill(r) PROVE \A q \in Runs : Held(q)'
  <2>1. \A q \in Runs \ {r} : pc'[q] = pc[q]
    BY <1>1, RunAlone
  <2> QED BY <1>1, <2>1, HeldRun DEF Held
<1>2. ASSUME User \/ Others \/ UNCHANGED vars PROVE \A q \in Runs : Held(q)'
  BY <1>2, GitRealignAssumption DEF Held, User, Others, Commit, Switch, Stage, Unstage, Fetch,
     ForwardMain, Undo, RemoveStaleLock, Unlock, Deliver, RemoteAdvance, RemoteRewrite,
     RemoteDelete,
     runState, refs, vars
<1> QED BY <1>1, <1>2 DEF Next

\* A rescue branch is only ever created.
LEMMA RescuedGrows ==
    ASSUME TypesOK, [Next]_vars
    PROVE  Rescued \subseteq Rescued'
<1>1. CASE UNCHANGED rescues
  BY <1>1 DEF Rescued
<1>2. ASSUME NEW r \in Runs, Keep(r) PROVE Rescued \subseteq Rescued'
  <2>1. \A k \in 1..MaxRescues : Reach[rescues[k]] \subseteq Reach[rescues'[k]]
    BY <1>2, NoHistory DEF Keep, TypesOK
  <2> QED BY <2>1 DEF Rescued
<1>3. UNCHANGED rescues \/ \E r \in Runs : Keep(r)
  BY DEF Next, User, Others, Step, Realign, SwitchDefault, Start, BlockReason, Judge, CheckRemote,
     Push, PushFails, LockIndex, TakeLock, MoveHead, RenameLock, RollBack, CompareDefault,
     LockDefault, RecheckHead, MoveDefault, PointHead, RestoreHead, RenameDefault, ConfigDefault,
     Kill, Commit, Switch, Stage, Unstage, Fetch, ForwardMain, Undo, RemoveStaleLock, Deliver,
     RemoteAdvance, RemoteRewrite, RemoteDelete, refs, vars
<1> QED BY <1>1, <1>2, <1>3

\* A run's own steps: Keep has put HEAD on a rescue branch.
LEMMA SavedRun ==
    ASSUME TypesOK, Published, NEW r \in Runs, PlanOK(r), Saved(r), [Next]_vars, Step(r) \/ Kill(r)
    PROVE  Saved(r)'
<1>0. Rescued \subseteq Rescued'
  BY RescuedGrows
<1> USE <1>0 DEF TypesOK, Saved, Moving, Switching, Compared, At, Goto
<1>1. CASE Start(r)
  BY <1>1 DEF Start, End
<1>2. CASE BlockReason(r)
  BY <1>2 DEF BlockReason, End
<1>3. CASE Judge(r)
  <2>1. ASSUME NEW push \in BOOLEAN, NEW p, p \in Moves(push),
               pc'[r] = AfterPlan(p), plan'[r] = p, p.rescue = None
        PROVE  Saved(r)'
    <3>1. Foreign(p.target) /\ p.target \in Heads
      BY <2>1, MovesFacts, UpstreamIn, ForeignFacts, NoneForeign
         DEF Published, Branches, Plans, Heads
    <3> QED BY <2>1, <3>1, MovesFacts, ForeignFacts DEF Foreign
  <2> QED BY <1>3, <2>1, GitRealignAssumption DEF Judge, End, AfterPlan
<1>4. CASE CheckRemote(r)
  BY <1>4 DEF CheckRemote, End
<1>5. CASE Keep(r)
  <2>1. CASE rescues[plan[r].rescue] # NoCommit
    BY <1>5, <2>1 DEF Keep, End
  <2>2. CASE rescues[plan[r].rescue] = NoCommit
    <3>1. plan[r] \in Plans /\ plan[r].rescue \in 1..MaxRescues /\ plan'[r] = plan[r]
      BY <1>5, <2>2, GitRealignAssumption DEF Keep, PlanOK, Idle, Plans, None
    <3>2. rescues'[plan[r].rescue] = plan[r].head
      BY <1>5, <2>2, <3>1 DEF Keep
    <3> QED BY <3>1, <3>2 DEF Rescued
  <2> QED BY <2>1, <2>2
<1>6. CASE Push(r)
  BY <1>6 DEF Push, AfterKeep
<1>7. CASE PushFails(r)
  BY <1>7 DEF PushFails, End
<1>8. CASE LockIndex(r)
  BY <1>8 DEF LockIndex, TakeLock, End
<1>9. CASE MoveHead(r)
  BY <1>9 DEF MoveHead, End
<1>10. CASE RenameLock(r)
  BY <1>10 DEF RenameLock, End
<1>11. CASE RollBack(r)
  BY <1>11 DEF RollBack, End
<1>12. CASE CompareDefault(r)
  <2>1. plan[r] \in Plans
    BY <1>12 DEF CompareDefault, PlanOK, Idle
  <2>2. pc'[r] = "lockdef" => plan'[r].head = plan[r].head
    BY <1>12, <2>1 DEF CompareDefault, End, Plans
  <2> QED BY <1>12, <2>2 DEF CompareDefault, End
<1>13. CASE LockDefault(r)
  BY <1>13 DEF LockDefault, TakeLock, End
<1>14. CASE RecheckHead(r)
  BY <1>14 DEF RecheckHead, End
<1>15. CASE MoveDefault(r)
  BY <1>15 DEF MoveDefault, End
<1>16. CASE PointHead(r)
  BY <1>16 DEF PointHead, End
<1>17. CASE RestoreHead(r)
  BY <1>17 DEF RestoreHead, End
<1>18. CASE RenameDefault(r)
  BY <1>18 DEF RenameDefault, End
<1>19. CASE ConfigDefault(r)
  BY <1>19 DEF ConfigDefault, End
<1>20. CASE Kill(r)
  BY <1>20 DEF Kill, End
<1> QED BY <1>1, <1>2, <1>3, <1>4, <1>5, <1>6, <1>7, <1>8, <1>9, <1>10, <1>11, <1>12, <1>13,
           <1>14, <1>15, <1>16, <1>17, <1>18, <1>19, <1>20 DEF Step, Realign, SwitchDefault

\* The invariant but for the user's commits, and with them.
Sound == TypesOK /\ Published /\ \A r \in Runs : PlanOK(r) /\ Held(r)

Safe == Sound /\ UndoSafe /\ \A r \in Runs : Saved(r) /\ Landed(r) /\ Left(r)

\* The steps that change a branch.
LEMMA BranchFrame ==
    ASSUME [Next]_vars
    PROVE  \/ UNCHANGED branch
           \/ \E r \in Runs : MoveHead(r) \/ RollBack(r) \/ MoveDefault(r) \/ RestoreHead(r)
           \/ ForwardMain \/ Undo \/ \E c \in Mine : Commit(c)
BY DEF Next, User, Others, Step, Realign, SwitchDefault, Start, BlockReason, Judge, CheckRemote,
     Keep, Push, PushFails, LockIndex, TakeLock, RenameLock, CompareDefault, LockDefault,
     RecheckHead,
     PointHead, RenameDefault, ConfigDefault, Kill, Switch, Stage, Unstage, Fetch, RemoveStaleLock,
     Deliver, RemoteAdvance, RemoteRewrite, RemoteDelete, refs, vars

\* A run puts a branch where nothing of the user's is that no rescue has.
LEMMA BranchGets ==
    ASSUME Safe, [Next]_vars, ~Undo, \A c \in Mine : ~Commit(c), NEW on \in Branches
    PROVE  branch'[on] = branch[on] \/ Reach[branch'[on]] \cap Mine \subseteq Rescued
<1> USE DEF Safe, Sound, TypesOK
<1>1. ASSUME NEW r \in Runs, MoveHead(r) PROVE branch'[on] = branch[on] \/ Foreign(branch'[on])
  BY <1>1 DEF MoveHead, At, PlanOK, Idle
<1>2. ASSUME NEW r \in Runs, RollBack(r)
      PROVE  branch'[on] = branch[on] \/ Reach[branch'[on]] \cap Mine \subseteq Rescued
  BY <1>2 DEF RollBack, At, Saved, Moving
<1>3. ASSUME NEW r \in Runs, MoveDefault(r) PROVE branch'[on] = branch[on] \/ Foreign(branch'[on])
  BY <1>3 DEF MoveDefault, At, PlanOK, Idle
<1>4. ASSUME NEW r \in Runs, RestoreHead(r) PROVE branch'[on] = branch[on] \/ Foreign(branch'[on])
  BY <1>4 DEF RestoreHead, RestoreDefault, PlanOK, Idle, Compared
<1>5. ASSUME ForwardMain PROVE branch'[on] = branch[on] \/ Foreign(branch'[on])
  BY <1>5 DEF ForwardMain, Published, Branches
<1> QED BY <1>1, <1>2, <1>3, <1>4, <1>5, BranchFrame DEF Foreign

\* And takes nothing of the user's off a branch that no rescue has.
LEMMA BranchLoses ==
    ASSUME Safe, [Next]_vars, NEW on \in Branches
    PROVE  \/ Reach[branch[on]] \subseteq Reach[branch'[on]]
           \/ Reach[branch[on]] \cap Mine \subseteq Rescued
<1> USE DEF Safe, Sound, TypesOK
<1>1. ASSUME NEW r \in Runs, MoveHead(r)
      PROVE  branch'[on] = branch[on] \/ Reach[branch[on]] \cap Mine \subseteq Rescued
  BY <1>1 DEF MoveHead, At, Saved, Moving, HeadCommit
<1>2. ASSUME NEW r \in Runs, RollBack(r) PROVE branch'[on] = branch[on] \/ Foreign(branch[on])
  BY <1>2 DEF RollBack, At, Landed, HeadCommit
<1>3. ASSUME NEW r \in Runs, MoveDefault(r) PROVE branch'[on] = branch[on] \/ Foreign(branch[on])
  BY <1>3 DEF MoveDefault, At, PlanOK, Idle, Compared
<1>4. ASSUME NEW r \in Runs, RestoreHead(r) PROVE branch'[on] = branch[on] \/ Foreign(branch[on])
  BY <1>4 DEF RestoreHead, RestoreDefault, PlanOK, Idle
<1>5. ASSUME ForwardMain PROVE Reach[branch[on]] \subseteq Reach[branch'[on]]
  <2>1. branch["main"] \in Reach[seen["main"]] /\ seen["main"] \in Heads
    BY <1>5 DEF ForwardMain, StrictDescendant, Branches
  <2>2. Reach[branch["main"]] \subseteq Reach[seen["main"]]
    BY <2>1, ReachTrans
  <2> QED BY <1>5, <2>2 DEF ForwardMain
<1>6. ASSUME NEW c \in Mine, Commit(c) PROVE Reach[branch[on]] \subseteq Reach[branch'[on]]
  <2>1. c \in Commits /\ Reach[branch[head]] \subseteq Reach[c]
    BY <1>6, GitRealignAssumption, ReachParent DEF Commit, HeadCommit
  <2> QED BY <1>6, <2>1 DEF Commit
<1>7. ASSUME Undo
      PROVE  branch'[on] = branch[on] \/ Reach[branch[on]] \cap Mine \subseteq Rescued
  BY <1>7 DEF Undo, UndoSafe, HeadCommit, Undos, Foreign
<1> QED BY <1>1, <1>2, <1>3, <1>4, <1>5, <1>6, <1>7, BranchFrame DEF Foreign

\* What a step takes off a branch is rescued or published.
LEMMA KeptStep ==
    ASSUME Safe, CommitsKept, [Next]_vars
    PROVE  CommitsKept'
<1>1. \A t \in made : t \in Mine
  BY DEF Safe, Sound, TypesOK
<1>2. Rescued \subseteq Rescued'
  BY RescuedGrows DEF Safe, Sound
<1>3. \A t \in made : t \in Rescued \/ \E on \in Branches : t \in Reach[branch[on]]
  BY DEF CommitsKept, Rescued
<1>4. \A t \in made : t \in Rescued' \/ \E on \in Branches : t \in Reach[branch'[on]]
  BY <1>1, <1>2, <1>3, BranchLoses
<1>5. made' = made \/ \E c \in Mine : Commit(c)
  BY DEF MoveHead, RollBack, MoveDefault, RestoreHead, ForwardMain, Undo, world,
     Next, User, Others, Step, Realign, SwitchDefault, Start, BlockReason, Judge, CheckRemote,
     Keep, Push, PushFails, LockIndex, TakeLock, RenameLock, CompareDefault, LockDefault,
     RecheckHead,
     PointHead, RenameDefault, ConfigDefault, Kill, Switch, Stage, Unstage, Fetch, RemoveStaleLock,
     Deliver, RemoteAdvance, RemoteRewrite, RemoteDelete, refs, vars
<1>6. ASSUME NEW c \in Mine, Commit(c)
      PROVE  made' = made \cup {c} /\ \E on \in Branches : c \in Reach[branch'[on]]
  BY <1>6, ReachSelf, GitRealignAssumption DEF Commit, Safe, Sound, TypesOK
<1>7. \A t \in made' : t \in Rescued' \/ \E on \in Branches : t \in Reach[branch'[on]]
  BY <1>4, <1>5, <1>6
<1> QED BY <1>7 DEF CommitsKept, Rescued

\* Under the lock nobody else moves a branch or HEAD.
LEMMA LockedOut ==
    ASSUME Safe, [Next]_vars, "lateCommit" \notin Faults, NEW r \in Runs, lock = r
    PROVE  /\ ~Undo /\ (\A c \in Mine : ~Commit(c)) /\ \A on \in Branches : ~Switch(on)
           /\ pc'[r] = pc[r] /\ pc[r] \in Holding =>
                 head' = head /\ \A on \in Branches : branch'[on] # branch[on] => on # head
<1> USE GitRealignAssumption
<1>1. ~Undo /\ (\A on \in Branches : ~Switch(on))
  BY DEF Undo, Switch
<1>2. \A c \in Mine : ~Commit(c)
  BY DEF Commit
<1>3. ASSUME NEW q \in Runs,
             \/ MoveHead(q) \/ RollBack(q) \/ MoveDefault(q) \/ RestoreHead(q) \/ PointHead(q)
      PROVE  q = r /\ (pc[r] \in Holding => pc'[r] # pc[r])
  <2>1. pc[q] \in Holding
    BY <1>3 DEF MoveHead, RollBack, MoveDefault, RestoreHead, PointHead, At, Holding
  <2>2. q = r
    BY <2>1 DEF Safe, Sound, Held
  <2>3. pc'[q] # pc[q]
    BY <1>3
       DEF MoveHead, RollBack, MoveDefault, RestoreHead, PointHead, At, Goto, End, Safe, Sound,
       TypesOK
  <2> QED BY <2>2, <2>3
<1>4. ASSUME ForwardMain
      PROVE  head' = head /\ \A on \in Branches : branch'[on] # branch[on] => on # head
  BY <1>4 DEF ForwardMain, Safe, Sound, TypesOK
<1>5. head' = head \/ \E q \in Runs : PointHead(q) \/ RestoreHead(q)
  BY <1>1 DEF Commit, MoveHead, RollBack, MoveDefault, ForwardMain,
     Next, User, Others, Step, Realign, SwitchDefault, Start, BlockReason, Judge, CheckRemote,
     Keep, Push, PushFails, LockIndex, TakeLock, RenameLock, CompareDefault, LockDefault,
     RecheckHead,
     RenameDefault, ConfigDefault, Kill, Stage, Unstage, Fetch, RemoveStaleLock,
     Deliver, RemoteAdvance, RemoteRewrite, RemoteDelete, refs, vars
<1> QED BY <1>1, <1>2, <1>3, <1>4, <1>5, BranchFrame

\* Every step of a run goes on.
LEMMA StepsGoOn ==
    ASSUME TypesOK, NEW r \in Runs, Step(r) \/ Kill(r)
    PROVE  pc'[r] # pc[r]
<1> USE DEF TypesOK, At, Goto, End
<1>1. CASE Start(r)
  BY <1>1 DEF Start
<1>2. CASE BlockReason(r)
  BY <1>2 DEF BlockReason
<1>3. CASE Judge(r)
  BY <1>3 DEF Judge, AfterPlan
<1>4. CASE CheckRemote(r)
  BY <1>4 DEF CheckRemote
<1>5. CASE Keep(r)
  BY <1>5 DEF Keep, AfterKeep
<1>6. CASE Push(r)
  BY <1>6 DEF Push, AfterKeep
<1>7. CASE PushFails(r)
  BY <1>7 DEF PushFails
<1>8. CASE LockIndex(r)
  BY <1>8 DEF LockIndex, TakeLock
<1>9. CASE MoveHead(r)
  BY <1>9 DEF MoveHead
<1>10. CASE RenameLock(r)
  BY <1>10 DEF RenameLock
<1>11. CASE RollBack(r)
  BY <1>11 DEF RollBack
<1>12. CASE CompareDefault(r)
  BY <1>12 DEF CompareDefault
<1>13. CASE LockDefault(r)
  BY <1>13 DEF LockDefault, TakeLock
<1>14. CASE RecheckHead(r)
  BY <1>14 DEF RecheckHead
<1>15. CASE MoveDefault(r)
  BY <1>15 DEF MoveDefault
<1>16. CASE PointHead(r)
  BY <1>16 DEF PointHead
<1>17. CASE RestoreHead(r)
  BY <1>17 DEF RestoreHead
<1>18. CASE RenameDefault(r)
  BY <1>18 DEF RenameDefault
<1>19. CASE ConfigDefault(r)
  BY <1>19 DEF ConfigDefault
<1>20. CASE Kill(r)
  BY <1>20 DEF Kill
<1> QED BY <1>1, <1>2, <1>3, <1>4, <1>5, <1>6, <1>7, <1>8, <1>9, <1>10, <1>11, <1>12, <1>13,
           <1>14, <1>15, <1>16, <1>17, <1>18, <1>19, <1>20 DEF Step, Realign, SwitchDefault

\* A run that stays where it is keeps its plan.
LEMMA PlanStays ==
    ASSUME TypesOK, [Next]_vars, NEW r \in Runs
    PROVE  pc'[r] = pc[r] => plan'[r] = plan[r]
BY RunAlone, RunFrame, StepsGoOn DEF Next

\* What changes a run is a step of it.
LEMMA OwnStep ==
    ASSUME TypesOK, [Next]_vars, NEW r \in Runs, pc'[r] # pc[r]
    PROVE  Step(r) \/ Kill(r)
BY RunAlone, RunFrame DEF Next

\* Between the move and the rename nobody commits: they hold index.lock.
LEMMA LandedStep ==
    ASSUME Safe, [Next]_vars, "lateCommit" \notin Faults, NEW r \in Runs
    PROVE  Landed(r)'
<1> SUFFICES ASSUME pc'[r] = "rename" PROVE Foreign(HeadCommit)'
  BY DEF Landed
<1>1. CASE pc[r] = "rename"
  <2>1. lock = r /\ Foreign(HeadCommit)
    BY <1>1 DEF Safe, Sound, Held, Holding, Landed
  <2>2. head' = head /\ branch'[head] = branch[head]
    BY <1>1, <2>1, LockedOut DEF Holding, Safe, Sound, TypesOK
  <2> QED BY <2>1, <2>2 DEF Foreign, HeadCommit
<1>2. CASE pc[r] # "rename"
  <2>1. Step(r) \/ Kill(r)
    BY <1>2, OwnStep DEF Safe, Sound
  <2>2. MoveHead(r)
    BY <2>1, <1>2
       DEF Step, Realign, SwitchDefault, Start, BlockReason, Judge, CheckRemote, Keep, Push,
       PushFails, LockIndex, TakeLock, RenameLock, RollBack, CompareDefault, LockDefault,
       RecheckHead,
       MoveDefault, PointHead, RestoreHead, RenameDefault, ConfigDefault, Kill, Goto, End,
       AfterKeep,
       AfterPlan, Safe, Sound, TypesOK
  <2>3. branch'[head'] = plan[r].target
    BY <2>2 DEF MoveHead, Safe, Sound, TypesOK, Goto, End
  <2> QED BY <2>2, <2>3 DEF MoveHead, At, Safe, Sound, PlanOK, Idle, Foreign, HeadCommit
<1> QED BY <1>1, <1>2

\* And between the second look at HEAD and the switch.
LEMMA LeftStep ==
    ASSUME Safe, [Next]_vars, "lateCommit" \notin Faults, NEW r \in Runs
    PROVE  Left(r)'
<1> DEFINE Reached == {"movedef", "point", "renamedef"}
<1> SUFFICES ASSUME pc'[r] \in Reached
             PROVE  Reach[branch'[plan'[r].on]] \cap Mine \subseteq Rescued'
  BY DEF Left
<1>0. Rescued \subseteq Rescued'
  BY RescuedGrows DEF Safe, Sound
<1>1. /\ plan'[r] = plan[r]
      /\ pc[r] \in Reached \/ RecheckHead(r)
  <2>1. CASE pc'[r] = pc[r]
    BY <2>1, PlanStays DEF Safe, Sound
  <2>2. CASE pc'[r] # pc[r]
    BY <2>2, OwnStep
       DEF Step, Realign, SwitchDefault, Start, BlockReason, Judge, CheckRemote, Keep, Push,
       PushFails, LockIndex, TakeLock, MoveHead, RenameLock, RollBack, CompareDefault, LockDefault,
       RecheckHead, MoveDefault, PointHead, RestoreHead, RenameDefault, ConfigDefault, Kill,
       Goto, End,
       AfterKeep, AfterPlan, At, Safe, Sound, TypesOK
  <2> QED BY <2>1, <2>2
<1>2. plan[r].on \in Branches /\ lock = r
  BY <1>1 DEF RecheckHead, At, Safe, Sound, PlanOK, Held, Holding, Idle, Plans
<1>3. CASE pc[r] \in Reached
  <2>1. Reach[branch[plan[r].on]] \cap Mine \subseteq Rescued
    BY <1>3 DEF Safe, Sound, Left
  <2>2. Reach[branch'[plan[r].on]] \cap Mine \subseteq Rescued
    BY <1>2, <2>1, BranchGets, LockedOut
  <2> QED BY <1>0, <1>1, <2>2
<1>4. CASE RecheckHead(r)
  <2>1. branch' = branch /\ branch[plan[r].on] = plan[r].head
    BY <1>4 DEF RecheckHead, End, Goto, refs, HeadCommit, Safe, Sound, TypesOK
  <2>2. Reach[plan[r].head] \cap Mine \subseteq Rescued
    BY <1>4 DEF RecheckHead, At, Safe, Sound, Saved, Switching, Compared
  <2> QED BY <1>0, <1>1, <2>1, <2>2
<1> QED BY <1>1, <1>3, <1>4

\* A report is of a move that is over, and the next commit or switch ends it.
LEMMA UndoStep ==
    ASSUME Safe, [Next]_vars
    PROVE  UndoSafe'
<1> SUFFICES ASSUME undo' # NoUndo
             PROVE  /\ Foreign(undo'.target)
                    /\ undo'.switch => Reach[branch'[undo'.on]] \cap Mine \subseteq Rescued'
  BY DEF UndoSafe, Foreign
<1>0. Rescued \subseteq Rescued'
  BY RescuedGrows DEF Safe, Sound
<1>1. CASE undo' = undo
  <2>1. ~Undo /\ \A c \in Mine : ~Commit(c)
    BY DEF Undo, Commit
  <2>2. undo.on \in Branches
    BY <1>1 DEF Safe, Sound, TypesOK, Undos
  <2> QED BY <1>0, <1>1, <2>1, <2>2, BranchGets DEF Safe, Sound, UndoSafe
<1>2. ASSUME NEW r \in Runs, RenameLock(r) PROVE Foreign(undo'.target) /\ ~undo'.switch
  BY <1>2 DEF RenameLock, At, Moved, Safe, Sound, PlanOK, Idle, Moving
<1>3. ASSUME NEW r \in Runs, RenameDefault(r)
      PROVE  Foreign(undo'.target) /\ Reach[branch'[undo'.on]] \cap Mine \subseteq Rescued
  BY <1>3 DEF RenameDefault, At, Moved, Safe, Sound, PlanOK, Idle, Left, refs
<1>4. undo' = undo \/ \E r \in Runs : RenameLock(r) \/ RenameDefault(r)
  BY DEF MoveHead, RollBack, MoveDefault, RestoreHead, ForwardMain, Undo, Commit,
     Next, User, Others, Step, Realign, SwitchDefault, Start, BlockReason, Judge, CheckRemote,
     Keep, Push, PushFails, LockIndex, TakeLock, CompareDefault, LockDefault, RecheckHead,
     PointHead, ConfigDefault, Kill, Switch, Stage, Unstage, Fetch, RemoveStaleLock,
     Deliver, RemoteAdvance, RemoteRewrite, RemoteDelete, refs, vars
<1> QED BY <1>0, <1>1, <1>2, <1>3, <1>4

\* At first no run has a plan.
LEMMA SoundInit == Init => Sound
<1> SUFFICES ASSUME Init PROVE Sound
  OBVIOUS
<1>1. TypesOK /\ Published
  BY TypesInit, PublishedInit
<1>2. \A r \in Runs : pc[r] = "off"
  BY DEF Init
<1> QED BY <1>1, <1>2 DEF Sound, PlanOK, Held, Idle, Holding

\* The parts together.
LEMMA SoundStep ==
    ASSUME Sound, [Next]_vars
    PROVE  Sound'
<1>1. TypesOK' /\ Published' /\ \A r \in Runs : Held(r)'
  BY TypesStep, PublishedStep, HeldStep DEF Sound
<1>2. ASSUME NEW r \in Runs PROVE PlanOK(r)'
  <2>1. CASE Step(r) \/ Kill(r)
    BY <2>1, PlanStep DEF Sound
  <2>2. CASE ~(Step(r) \/ Kill(r))
    <3>1. pc'[r] = pc[r] /\ plan'[r] = plan[r]
      BY <2>2, OwnStep, PlanStays DEF Sound
    <3> QED BY <3>1 DEF Sound, PlanOK, Foreign
  <2> QED BY <2>1, <2>2
<1> QED BY <1>1, <1>2 DEF Sound

\* At first the user's commits are those of the branches.
LEMMA SafeInit == Init => Safe /\ CommitsKept
<1> SUFFICES ASSUME Init PROVE Safe /\ CommitsKept
  OBVIOUS
<1>1. \A r \in Runs : pc[r] = "off"
  BY DEF Init
<1>2. UndoSafe
  BY DEF Init, UndoSafe
<1>3. CommitsKept
  BY DEF Init, CommitsKept
<1> QED BY <1>1, <1>2, <1>3, SoundInit
     DEF Safe, Saved, Landed, Left, Moving, Switching, Compared

\* The invariant of the user's commits is inductive.
LEMMA SafeStep ==
    ASSUME Safe, CommitsKept, [Next]_vars, "lateCommit" \notin Faults
    PROVE  Safe' /\ CommitsKept'
<1>1. Sound' /\ UndoSafe' /\ CommitsKept'
  BY SoundStep, UndoStep, KeptStep DEF Safe
<1>2. ASSUME NEW r \in Runs PROVE Saved(r)'
  <2>1. CASE Step(r) \/ Kill(r)
    BY <2>1, SavedRun DEF Safe, Sound
  <2>2. CASE ~(Step(r) \/ Kill(r))
    <3>1. pc'[r] = pc[r] /\ plan'[r] = plan[r]
      BY <2>2, OwnStep, PlanStays DEF Safe, Sound
    <3>2. Rescued \subseteq Rescued'
      BY RescuedGrows DEF Safe, Sound
    <3> QED BY <3>1, <3>2 DEF Safe, Saved
  <2> QED BY <2>1, <2>2
<1>3. \A r \in Runs : Landed(r)' /\ Left(r)'
  BY LandedStep, LeftStep
<1> QED BY <1>1, <1>2, <1>3 DEF Safe

\* No commit of the user becomes unreachable, for any history, any number of
\* runs at once, and whatever fails, is killed, is rewritten on the remote or is
\* undone, unless a commit is made while a run holds index.lock: the rescue
\* branch that gitrescue.go keeps before it moves HEAD holds what the move drops.
THEOREM RealignKeepsCommits ==
    ASSUME "lateCommit" \notin Faults
    PROVE  Spec => []CommitsKept
<1>1. Safe /\ CommitsKept /\ [Next]_vars => Safe' /\ CommitsKept'
  BY SafeStep
<1> QED BY <1>1, SafeInit, PTL DEF Spec

-----------------------------------------------------------------------------
(* A run moves the branch that it judged *)

\* One process realigns the repository at a time.  The command takes no lock: with
\* two, what one moves, or its undo command, may move the branch the other judged
\* away and back, and the invariants below do not follow that.
OneRun == \A r, q \in Runs : r = q

\* No commit that the user has yet to make.
Own(c) == c \notin Mine \ made

\* The branches, plans and reports are at commits that exist.
AllOwn ==
    /\ \A on \in Branches : Own(branch[on])
    /\ \A r \in Runs : pc[r] \notin Idle => Own(plan[r].head)
    /\ undo # NoUndo => Own(undo.head)

\* A run has no report before it has moved.
NoUndoMeanwhile(r) == pc[r] \notin {"off", "config"} => undo = NoUndo

\* The places of a run from its judgment to its move.
Deciding == {"check", "keep", "push", "lock", "move"}

\* HEAD names the branch that was judged, or is not at the commit judged.
OnBranch(r) ==
    /\ pc[r] \in Deciding /\ ~plan[r].switch => head = plan[r].on \/ HeadCommit # plan[r].head
    /\ pc[r] = "rename" => head = plan[r].on

\* All of it.
Steady == AllOwn /\ \A r \in Runs : NoUndoMeanwhile(r) /\ OnBranch(r)

\* Only commits change what was made.
LEMMA MadeFrame ==
    ASSUME [Next]_vars
    PROVE  made' = made \/ \E c \in Mine : Commit(c)
BY DEF MoveHead, RollBack, MoveDefault, RestoreHead, ForwardMain, Undo, world, 
     Next, User, Others, Step, Realign, SwitchDefault, Start, BlockReason, Judge, CheckRemote,
     Keep, Push, PushFails, LockIndex, TakeLock, RenameLock, CompareDefault, LockDefault,
     RecheckHead,
     PointHead, RenameDefault, ConfigDefault, Kill, Switch, Stage, Unstage, Fetch, RemoveStaleLock,
     Deliver, RemoteAdvance, RemoteRewrite, RemoteDelete, refs, vars

\* Only the ends of moves make a report.
LEMMA UndoFrame ==
    ASSUME [Next]_vars
    PROVE  undo' \in {undo, NoUndo} \/ \E r \in Runs : RenameLock(r) \/ RenameDefault(r)
BY DEF MoveHead, RollBack, MoveDefault, RestoreHead, ForwardMain, Undo, Commit, 
     Next, User, Others, Step, Realign, SwitchDefault, Start, BlockReason, Judge, CheckRemote,
     Keep, Push, PushFails, LockIndex, TakeLock, CompareDefault, LockDefault, RecheckHead,
     PointHead, ConfigDefault, Kill, Switch, Stage, Unstage, Fetch, RemoveStaleLock,
     Deliver, RemoteAdvance, RemoteRewrite, RemoteDelete, refs, vars

\* A plan's HEAD is from the judgment.
LEMMA PlanHead ==
    ASSUME TypesOK, NEW r \in Runs, PlanOK(r), Step(r) \/ Kill(r), pc'[r] \notin Idle
    PROVE  \/ pc[r] = "judge" /\ plan'[r].head = HeadCommit /\ plan'[r].on = head
           \/ /\ pc[r] \notin Idle
              /\ plan'[r].head = plan[r].head /\ plan'[r].on = plan[r].on
              /\ plan'[r].switch = plan[r].switch /\ plan'[r].target = plan[r].target
<1> USE DEF TypesOK, At, Goto, End, Idle
<1>1. CASE Start(r)
  BY <1>1 DEF Start
<1>2. CASE BlockReason(r)
  BY <1>2 DEF BlockReason
<1>3. CASE Judge(r)
  BY <1>3, MovesFacts, GitRealignAssumption DEF Judge, AfterPlan
<1>4. CASE CheckRemote(r)
  BY <1>4 DEF CheckRemote
<1>5. CASE Keep(r)
  BY <1>5 DEF Keep, AfterKeep
<1>6. CASE Push(r)
  BY <1>6 DEF Push, AfterKeep
<1>7. CASE PushFails(r)
  BY <1>7 DEF PushFails
<1>8. CASE LockIndex(r)
  BY <1>8 DEF LockIndex, TakeLock
<1>9. CASE MoveHead(r)
  BY <1>9 DEF MoveHead
<1>10. CASE RenameLock(r)
  BY <1>10 DEF RenameLock
<1>11. CASE RollBack(r)
  BY <1>11 DEF RollBack
<1>12. CASE CompareDefault(r)
  <2>1. CASE DefaultAhead(plan[r].target)
    BY <1>12, <2>1 DEF CompareDefault
  <2>2. CASE ~DefaultAhead(plan[r].target)
    <3>1. plan[r] \in Plans /\ plan'[r] = [plan[r] EXCEPT !.old = branch["main"]]
      BY <1>12, <2>2 DEF CompareDefault, PlanOK
    <3> QED BY <1>12, <3>1 DEF CompareDefault, Plans
  <2> QED BY <2>1, <2>2
<1>13. CASE LockDefault(r)
  BY <1>13 DEF LockDefault, TakeLock
<1>14. CASE RecheckHead(r)
  BY <1>14 DEF RecheckHead
<1>15. CASE MoveDefault(r)
  BY <1>15 DEF MoveDefault
<1>16. CASE PointHead(r)
  BY <1>16 DEF PointHead
<1>17. CASE RestoreHead(r)
  BY <1>17 DEF RestoreHead
<1>18. CASE RenameDefault(r)
  BY <1>18 DEF RenameDefault
<1>19. CASE ConfigDefault(r)
  BY <1>19 DEF ConfigDefault
<1>20. CASE Kill(r)
  BY <1>20 DEF Kill
<1> QED BY <1>1, <1>2, <1>3, <1>4, <1>5, <1>6, <1>7, <1>8, <1>9, <1>10, <1>11, <1>12, <1>13,
           <1>14, <1>15, <1>16, <1>17, <1>18, <1>19, <1>20 DEF Step, Realign, SwitchDefault

\* No step puts a branch at a commit that does not exist yet.
LEMMA AllOwnStep ==
    ASSUME Sound, AllOwn, [Next]_vars
    PROVE  AllOwn'
<1> USE DEF Sound, TypesOK
<1>1. made \subseteq made'
  BY MadeFrame DEF Commit
<1> DEFINE Owned(c) == c \notin Mine \ made'
<1>2. \A c : Own(c) => Owned(c)
  BY <1>1 DEF Own
<1> HIDE DEF Owned
<1>3. ASSUME NEW on \in Branches PROVE Own(branch[on]) /\ Owned(branch'[on])
  <2>0. Own(branch[on])
    BY DEF AllOwn
  <2>1. ASSUME NEW r \in Runs, MoveHead(r) PROVE branch'[on] = branch[on] \/ Foreign(branch'[on])
    BY <2>1 DEF MoveHead, At, PlanOK, Idle
  <2>2. ASSUME NEW r \in Runs, RollBack(r) PROVE branch'[on] = branch[on] \/ Own(branch'[on])
    BY <2>2 DEF RollBack, At, AllOwn, Idle
  <2>3. ASSUME NEW r \in Runs, MoveDefault(r) PROVE branch'[on] = branch[on] \/ Foreign(branch'[on])
    BY <2>3 DEF MoveDefault, At, PlanOK, Idle
  <2>4. ASSUME NEW r \in Runs, RestoreHead(r) PROVE branch'[on] = branch[on] \/ Foreign(branch'[on])
    BY <2>4 DEF RestoreHead, RestoreDefault, PlanOK, Idle, Compared
  <2>5. ASSUME ForwardMain PROVE branch'[on] = branch[on] \/ Foreign(branch'[on])
    BY <2>5 DEF ForwardMain, Published, Branches
  <2>6. ASSUME Undo PROVE branch'[on] = branch[on] \/ Own(branch'[on])
    BY <2>6 DEF Undo, AllOwn
  <2>7. ASSUME NEW c \in Mine, Commit(c) PROVE branch'[on] = branch[on] \/ Owned(branch'[on])
    BY <2>7 DEF Commit, Owned
  <2>8. branch'[on] = branch[on] \/ Foreign(branch'[on]) \/ Own(branch'[on]) \/ Owned(branch'[on])
    BY <2>1, <2>2, <2>3, <2>4, <2>5, <2>6, <2>7, BranchFrame
  <2>9. ASSUME Foreign(branch'[on]) PROVE Own(branch'[on])
    <3>1. branch'[on] \in Heads
      BY TypesStep DEF TypesOK
    <3> QED BY <3>1, <2>9, ForeignFacts DEF Own
  <2> QED BY <2>0, <2>8, <2>9, <1>2
<1>4. ASSUME NEW r \in Runs, pc'[r] \notin Idle PROVE Owned(plan'[r].head)
  <2>1. Own(plan'[r].head)
    <3>1. CASE Step(r) \/ Kill(r)
      BY <3>1, <1>4, <1>3, PlanHead DEF AllOwn, HeadCommit
    <3>2. CASE ~(Step(r) \/ Kill(r))
      BY <3>2, <1>4, OwnStep, PlanStays DEF AllOwn
    <3> QED BY <3>1, <3>2
  <2> QED BY <2>1, <1>2
<1>5. ASSUME undo' # NoUndo PROVE Owned(undo'.head)
  <2>1. ASSUME NEW r \in Runs, RenameLock(r) \/ RenameDefault(r) PROVE Own(undo'.head)
    BY <2>1 DEF RenameLock, RenameDefault, Moved, At, AllOwn, Idle
  <2>2. Own(undo'.head)
    BY <2>1, <1>5, UndoFrame DEF AllOwn
  <2> QED BY <2>2, <1>2
<1> QED BY <1>3, <1>4, <1>5 DEF AllOwn, Own, Owned

\* A run starts without a report and ends with its own.
LEMMA NoUndoStep ==
    ASSUME Sound, [Next]_vars, OneRun, NEW r \in Runs, NoUndoMeanwhile(r)
    PROVE  NoUndoMeanwhile(r)'
<1> USE DEF Sound, TypesOK
<1> SUFFICES ASSUME pc'[r] \notin {"off", "config"} PROVE undo' = NoUndo
  BY DEF NoUndoMeanwhile
<1>1. ASSUME NEW q \in Runs, RenameLock(q) \/ RenameDefault(q) PROVE FALSE
  BY <1>1 DEF OneRun, RenameLock, RenameDefault, Goto, End
<1>2. undo' \in {undo, NoUndo}
  BY <1>1, UndoFrame
<1>3. CASE pc[r] \notin {"off", "config"}
  BY <1>2, <1>3 DEF NoUndoMeanwhile
<1>4. CASE pc[r] \in {"off", "config"}
  <2>1. Step(r) \/ Kill(r)
    BY <1>4, OwnStep
  <2>2. Start(r)
    BY <2>1, <1>4 DEF BlockReason, Judge, CheckRemote,
       Keep, Push, PushFails, LockIndex, MoveHead, RenameLock, RollBack, MoveDefault, RestoreHead,
       CompareDefault, LockDefault, RecheckHead, PointHead, RenameDefault, ConfigDefault, Kill,
       Step, Realign, SwitchDefault, At, Goto, End
  <2> QED BY <2>2 DEF Start
<1> QED BY <1>3, <1>4

\* While a run decides, the user leaves the commit that it judged, or stays.
LEMMA OnBranchStep ==
    ASSUME Sound, AllOwn, [Next]_vars, OneRun, "lateSwitch" \notin Faults,
           NEW r \in Runs, NoUndoMeanwhile(r), OnBranch(r)
    PROVE  OnBranch(r)'
<1> USE DEF Sound, TypesOK
<1>1. CASE Step(r) \/ Kill(r)
  <2> USE DEF OnBranch, Deciding, At, Goto, End, HeadCommit
  <2>1. CASE Start(r)
    BY <2>1 DEF Start, refs
  <2>2. CASE BlockReason(r)
    BY <2>2 DEF BlockReason, refs
  <2>3. CASE Judge(r)
    <3>1. CASE pc'[r] = "off"
      BY <3>1
    <3>2. ASSUME NEW push \in BOOLEAN, NEW p, p \in Moves(push),
                 pc'[r] = AfterPlan(p), plan'[r] = p
          PROVE  OnBranch(r)'
      BY <2>3, <3>2, MovesFacts DEF Judge, AfterPlan, refs
    <3> QED BY <2>3, <3>1, <3>2, GitRealignAssumption DEF Judge
  <2>4. CASE CheckRemote(r)
    BY <2>4 DEF CheckRemote, refs
  <2>5. CASE Keep(r)
    BY <2>5 DEF Keep, AfterKeep, refs
  <2>6. CASE Push(r)
    BY <2>6 DEF Push, AfterKeep, refs
  <2>7. CASE PushFails(r)
    BY <2>7 DEF PushFails, refs
  <2>8. CASE LockIndex(r)
    BY <2>8 DEF LockIndex, TakeLock, refs
  <2>9. CASE MoveHead(r)
    BY <2>9 DEF MoveHead, PlanOK, Idle, Moving
  <2>10. CASE RenameLock(r)
    BY <2>10 DEF RenameLock
  <2>11. CASE RollBack(r)
    BY <2>11 DEF RollBack
  <2>12. CASE CompareDefault(r)
    BY <2>12 DEF CompareDefault
  <2>13. CASE LockDefault(r)
    BY <2>13 DEF LockDefault, TakeLock, refs
  <2>14. CASE RecheckHead(r)
    BY <2>14 DEF RecheckHead
  <2>15. CASE MoveDefault(r)
    BY <2>15 DEF MoveDefault
  <2>16. CASE PointHead(r)
    BY <2>16 DEF PointHead
  <2>17. CASE RestoreHead(r)
    BY <2>17 DEF RestoreHead
  <2>18. CASE RenameDefault(r)
    BY <2>18 DEF RenameDefault
  <2>19. CASE ConfigDefault(r)
    BY <2>19 DEF ConfigDefault
  <2>20. CASE Kill(r)
    BY <2>20 DEF Kill, refs
  <2> QED BY <1>1, <2>1, <2>2, <2>3, <2>4, <2>5, <2>6, <2>7, <2>8, <2>9, <2>10, <2>11, <2>12,
             <2>13, <2>14, <2>15, <2>16, <2>17, <2>18, <2>19, <2>20
             DEF Step, Realign, SwitchDefault
<1>2. CASE UNCHANGED <<pc, plan>>
  <2>1. CASE UNCHANGED <<head, branch>>
    BY <1>2, <2>1 DEF OnBranch, HeadCommit
  <2>2. ASSUME NEW c \in Mine, Commit(c) PROVE OnBranch(r)'
    <3>1. pc[r] \notin Idle => plan[r].head # c
      BY <2>2 DEF AllOwn, Own, Commit
    <3>2. head' = head /\ branch'[head] = c
      BY <2>2 DEF Commit
    <3> QED BY <1>2, <3>1, <3>2 DEF OnBranch, Deciding, Idle, HeadCommit
  <2>3. ASSUME NEW on \in Branches, Switch(on) PROVE OnBranch(r)'
    <3>1. pc[r] \notin {"rename", "move"}
      BY <2>3, GitRealignAssumption DEF Switch, Held, Holding
    <3>2. pc[r] \in Deciding /\ ~plan[r].switch => branch[on] # plan[r].head
      BY <2>3, <3>1 DEF Switch, Deciding
    <3>3. HeadCommit' = branch[on]
      BY <2>3 DEF Switch, HeadCommit
    <3> QED BY <1>2, <3>1, <3>2, <3>3 DEF OnBranch
  <2>4. CASE ForwardMain
    BY <1>2, <2>4 DEF ForwardMain, OnBranch, HeadCommit
  <2>5. CASE Undo
    BY <1>2, <2>5 DEF Undo, NoUndoMeanwhile, OnBranch, Deciding
  <2>6. \A q \in Runs : ~(Step(q) \/ Kill(q))
    BY <1>2, StepsGoOn
  <2>7. CASE UNCHANGED vars
    BY <2>1, <2>7 DEF vars, refs
  <2> QED BY <2>1, <2>2, <2>3, <2>4, <2>5, <2>6, <2>7
          DEF Next, User, Others, Stage, Unstage, Fetch, RemoveStaleLock, Deliver, RemoteAdvance,
              RemoteRewrite, RemoteDelete, refs
<1> QED BY <1>1, <1>2, RunFrame DEF Next, OneRun

\* At first no run has judged.
LEMMA SteadyInit == Init => Steady
<1> SUFFICES ASSUME Init PROVE Steady
  OBVIOUS
<1>1. \A on \in Branches : Own(branch[on])
  <2>1. ASSUME NEW on \in Branches PROVE Own(branch[on])
    <3>1. branch[on] \in Commits => branch[on] \in Reach[branch[on]]
      BY ReachSelf
    <3>2. Mine \subseteq Commits /\ made = Mine \cap UNION {Reach[branch[b]] : b \in Branches}
      BY GitRealignAssumption DEF Init
    <3> QED BY <3>1, <3>2 DEF Own
  <2> QED BY <2>1
<1> QED BY <1>1 DEF Init, Steady, AllOwn, NoUndoMeanwhile, OnBranch, Deciding, Idle

\* The parts together.
LEMMA SteadyStep ==
    ASSUME Sound, Steady, [Next]_vars, OneRun, "lateSwitch" \notin Faults
    PROVE  Steady'
BY AllOwnStep, NoUndoStep, OnBranchStep DEF Steady

-----------------------------------------------------------------------------
(* NoRepublish *)

\* What a commit rests on is on the remote branch, as it is or rewritten.
Lined(c, on) ==
    remote[on] # NoCommit =>
        \A t \in Reach[c] \cap DOMAIN Twin :
            t \in Reach[remote[on]] \/ Twin[t] \in Reach[remote[on]]

\* Every branch, rescue to come and report is in line with a branch of the
\* remote: a rewrite of it will show there.
AllLined ==
    /\ \A on \in Branches : Lined(branch[on], on) /\ Lined(seen[on], on)
    /\ \A r \in Runs : pc[r] \notin Idle =>
          /\ Lined(plan[r].head, plan[r].on)
          /\ Lined(plan[r].target, IF plan[r].switch THEN "main" ELSE plan[r].on)
          /\ pc[r] \in Compared => Lined(plan[r].old, "main")
    /\ undo # NoUndo => Lined(undo.head, undo.on)

\* A remote branch that exists was fetched.
Gone == \A on \in Branches : seen[on] = NoCommit => remote[on] = NoCommit

\* The rewrite that took a commit out of the remote is still seen there.
Shown ==
    \A t \in taken :
        /\ t \in DOMAIN Twin
        /\ \E d \in Reach[t] \cap DOMAIN Twin, on \in Branches : Twin[d] \in Reach[remote[on]]

\* What a checked rescue is of has no rewrite in what was fetched.
NoTwinSeen(r) ==
    pc[r] = "check" =>
        /\ \A d \in Reach[plan[r].head] \cap DOMAIN Twin, on \in Branches :
              Twin[d] \notin Reach[seen[on]]
        /\ ~plan[r].switch => seen[plan[r].on] # NoCommit

\* And what it is about to push was not taken out of the remote.
Clean(r) ==
    pc[r] \in {"keep", "push"} /\ plan[r].push => Reach[plan[r].head] \cap taken = {}

\* All of it.
Fresh == AllLined /\ Gone /\ Shown /\ NoRepublish /\ \A r \in Runs : NoTwinSeen(r) /\ Clean(r)

\* A rewrite leaves each commit of the branch, or its twin.
LEMMA RewriteKeeps ==
    ASSUME TypesOK, NEW on \in Branches, RemoteRewrite(on), NEW c \in DOMAIN Twin
    PROVE  \A b \in Branches : Twin[c] \in Reach[remote[b]] => Twin[c] \in Reach[remote'[b]]
BY TwinKeeps, TwinTypes DEF RemoteRewrite, TypesOK

\* What was in line with a remote branch stays so.
LEMMA LinedStays ==
    ASSUME TypesOK, [Next]_vars, NEW c \in Heads, NEW on \in Branches, Lined(c, on)
    PROVE  Lined(c, on)'
<1>1. CASE remote' = remote
  BY <1>1 DEF Lined
<1>2. ASSUME NEW b \in Branches, NEW d \in Theirs, RemoteAdvance(b, d) PROVE Lined(c, on)'
  <2>1. d \in Commits /\ Parent[d] = remote[b] /\ remote[b] # NoCommit
    BY <1>2, GitRealignAssumption, HistoryAssumption DEF RemoteAdvance
  <2>2. Reach[remote[b]] \subseteq Reach[d]
    BY <2>1, ReachParent
  <2> QED BY <1>2, <2>1, <2>2 DEF RemoteAdvance, Lined, TypesOK
<1>3. ASSUME NEW b \in Branches, RemoteRewrite(b) PROVE Lined(c, on)'
  <2>1. CASE b # on
    BY <1>3, <2>1 DEF RemoteRewrite, Lined, TypesOK
  <2>2. CASE b = on
    <3>1. remote[on] \in DOMAIN Twin /\ remote'[on] = Twin[remote[on]] /\ remote[on] # NoCommit
      BY <1>3, <2>2, TwinTypes, GitRealignAssumption DEF RemoteRewrite, TypesOK
    <3>2. ASSUME NEW t \in Reach[c] \cap DOMAIN Twin
          PROVE  t \in Reach[remote'[on]] \/ Twin[t] \in Reach[remote'[on]]
      <4>1. CASE t \in Reach[remote[on]]
        BY <4>1, <3>1, TwinKeeps
      <4>2. CASE Twin[t] \in Reach[remote[on]]
        BY <4>2, <3>1, RewriteKeeps, <1>3
      <4> QED BY <3>1, <4>1, <4>2 DEF Lined
    <3> QED BY <3>2 DEF Lined
  <2> QED BY <2>1, <2>2
<1>4. CASE RemoteDelete
  BY <1>4 DEF RemoteDelete, Lined, TypesOK
<1> QED BY <1>1, <1>2, <1>3, <1>4, RemoteFrame

\* What a commit in line rests on is in line.
LEMMA LinedWithin ==
    ASSUME NEW c \in Heads, NEW d \in Reach[c], NEW on, Lined(c, on)
    PROVE  Lined(d, on)
BY ReachTrans DEF Lined

\* A judgment's target is in a history that was fetched of the branch it is for.
LEMMA JudgedLined ==
    ASSUME Sound, AllLined, NEW push \in BOOLEAN, NEW p, p \in Moves(push)
    PROVE  /\ p \in Plans /\ Lined(p.head, p.on)
           /\ Lined(p.target, IF p.switch THEN "main" ELSE p.on)
<1> USE DEF Sound, TypesOK
<1>1. p \in Plans /\ Lined(p.head, p.on)
  BY MovesFacts DEF AllLined, HeadCommit
<1>2. CASE p.switch
  BY <1>1, <1>2, MovesFacts, LinedWithin DEF AllLined, Branches
<1>3. CASE ~p.switch
  <2>1. p.target \in Reach[Upstream(head)] /\ Upstream(head) = seen[head] /\ p.on = head
    BY <1>3, MovesFacts, UpstreamIn, NoHistory
  <2> QED BY <1>1, <1>3, <2>1, LinedWithin DEF AllLined
<1> QED BY <1>1, <1>2, <1>3 DEF Plans

\* So the plans stay in line,
LEMMA PlanLined ==
    ASSUME Sound, AllLined, NEW r \in Runs, Step(r) \/ Kill(r), pc'[r] \notin Idle
    PROVE  /\ plan'[r] \in Plans
           /\ Lined(plan'[r].head, plan'[r].on)
           /\ Lined(plan'[r].target, IF plan'[r].switch THEN "main" ELSE plan'[r].on)
           /\ pc'[r] \in Compared => Lined(plan'[r].old, "main")
<1> USE DEF Sound, TypesOK
<1>1. CASE Judge(r)
  <2>1. ASSUME NEW push \in BOOLEAN, NEW p, p \in Moves(push), pc'[r] = AfterPlan(p)
        PROVE  p \in Plans /\ pc'[r] \notin Compared
    BY <2>1, JudgedLined DEF AfterPlan, Compared
  <2> QED BY <1>1, <2>1, JudgedLined, GitRealignAssumption DEF Judge, Goto, End, Idle
<1>2. CASE CompareDefault(r)
  <2>1. /\ plan[r] \in Plans /\ plan'[r] = [plan[r] EXCEPT !.old = branch["main"]]
        /\ branch["main"] \in Heads
    BY <1>2 DEF CompareDefault, PlanOK, Goto, End, At, Idle, Branches
  <2>2. /\ plan'[r] \in Plans /\ plan'[r].head = plan[r].head /\ plan'[r].on = plan[r].on
        /\ plan'[r].target = plan[r].target /\ plan'[r].switch = plan[r].switch
        /\ plan'[r].old = branch["main"]
    BY <2>1 DEF Plans
  <2> QED BY <1>2, <2>2 DEF AllLined, CompareDefault, At, Idle, Branches
<1>3. CASE ~Judge(r) /\ ~CompareDefault(r)
  <2>1. /\ plan'[r] = plan[r] /\ pc[r] \notin Idle
        /\ pc'[r] \in Compared => pc[r] \in Compared
    BY <1>3
       DEF Start, BlockReason, CheckRemote, Keep, Push, PushFails, LockIndex, TakeLock,
       MoveHead,
       RenameLock, RollBack, LockDefault, RecheckHead, MoveDefault, PointHead, RestoreHead,
       RenameDefault, ConfigDefault, Kill, Step, Realign, SwitchDefault, At, Goto, End,
       AfterKeep, Idle,
       Compared, PlanOK, Switching, Moving
  <2> QED BY <2>1 DEF AllLined, PlanOK, Idle
<1> QED BY <1>1, <1>2, <1>3

\* the branches,
LEMMA BranchLined ==
    ASSUME Sound, Steady, AllLined, [Next]_vars, NEW on \in Branches
    PROVE  Lined(branch'[on], on)
<1> USE DEF Sound, TypesOK
<1>0. Lined(branch[on], on)
  BY DEF AllLined
<1>1. ASSUME NEW r \in Runs, MoveHead(r) PROVE Lined(branch'[on], on)
  <2>1. /\ plan[r] \in Plans /\ ~plan[r].switch /\ pc[r] = "move"
        /\ HeadCommit = plan[r].head => head = plan[r].on
    BY <1>1 DEF MoveHead, At, PlanOK, Idle, Moving, Steady, OnBranch, Deciding
  <2> QED BY <1>0, <1>1, <2>1 DEF MoveHead, AllLined, Idle
<1>2. ASSUME NEW r \in Runs, RollBack(r) PROVE Lined(branch'[on], on)
  BY <1>0, <1>2 DEF RollBack, At, AllLined, Idle, Steady, OnBranch
<1>3. ASSUME NEW r \in Runs, MoveDefault(r) PROVE Lined(branch'[on], on)
  BY <1>0, <1>3 DEF MoveDefault, At, AllLined, Idle, PlanOK, Switching, Compared
<1>4. ASSUME NEW r \in Runs, RestoreHead(r) PROVE Lined(branch'[on], on)
  BY <1>0, <1>4 DEF RestoreHead, RestoreDefault, AllLined, Idle, Compared
<1>5. CASE ForwardMain
  BY <1>0, <1>5 DEF ForwardMain, AllLined
<1>6. CASE Undo
  BY <1>0, <1>6 DEF Undo, AllLined
<1>7. ASSUME NEW c \in Mine, Commit(c) PROVE Lined(branch'[on], on)
  <2>1. c \in Commits /\ c \notin DOMAIN Twin /\ Reach[c] \subseteq {c} \cup Reach[branch[head]]
    BY <1>7, GitRealignAssumption, TwinTypes, ReachParent DEF Commit, HeadCommit
  <2>2. Lined(c, head)
    BY <2>1 DEF AllLined, Lined
  <2> QED BY <1>0, <1>7, <2>2 DEF Commit
<1> QED BY <1>0, <1>1, <1>2, <1>3, <1>4, <1>5, <1>6, <1>7, BranchFrame

\* and all the rest.
LEMMA AllLinedStep ==
    ASSUME Sound, Steady, AllLined, [Next]_vars
    PROVE  AllLined'
<1> USE DEF Sound, TypesOK
<1> DEFINE Next2(c, on) ==
             remote'[on] # NoCommit =>
                 \A t \in Reach[c] \cap DOMAIN Twin :
                     t \in Reach[remote'[on]] \/ Twin[t] \in Reach[remote'[on]]
<1>1. \A c \in Heads, on \in Branches : Lined(c, on) => Next2(c, on)
  BY LinedStays DEF Lined
<1>2. Sound'
  BY SoundStep
<1> HIDE DEF Next2
<1>3. ASSUME NEW on \in Branches PROVE Next2(branch'[on], on) /\ Next2(seen'[on], on)
  <2>1. branch'[on] \in Heads /\ seen'[on] \in Heads
    BY <1>2
  <2>2. Lined(seen'[on], on)
    <3>1. Lined(seen[on], on) /\ Lined(remote[on], on)
      BY DEF AllLined, Lined
    <3>2. seen' = seen \/ Fetch
      BY RemoteFrame
    <3> QED BY <3>1, <3>2 DEF Fetch
  <2> QED BY <1>1, <2>1, <2>2, BranchLined
<1>4. ASSUME NEW r \in Runs, pc'[r] \notin Idle
      PROVE  /\ Next2(plan'[r].head, plan'[r].on)
             /\ Next2(plan'[r].target, IF plan'[r].switch THEN "main" ELSE plan'[r].on)
             /\ pc'[r] \in Compared => Next2(plan'[r].old, "main")
  <2>1. /\ plan'[r] \in Plans
        /\ Lined(plan'[r].head, plan'[r].on)
        /\ Lined(plan'[r].target, IF plan'[r].switch THEN "main" ELSE plan'[r].on)
        /\ pc'[r] \in Compared => Lined(plan'[r].old, "main")
    <3>1. CASE Step(r) \/ Kill(r)
      BY <3>1, <1>4, PlanLined
    <3>2. CASE ~(Step(r) \/ Kill(r))
      BY <3>2, <1>4, OwnStep, PlanStays DEF AllLined, PlanOK
    <3> QED BY <3>1, <3>2
  <2> QED BY <1>1, <2>1 DEF Plans, Branches, Heads
<1>5. ASSUME undo' # NoUndo PROVE Next2(undo'.head, undo'.on)
  <2>1. ASSUME NEW r \in Runs, RenameLock(r) \/ RenameDefault(r) PROVE Lined(undo'.head, undo'.on)
    BY <2>1 DEF RenameLock, RenameDefault, Moved, At, AllLined, Idle
  <2>2. Lined(undo'.head, undo'.on)
    BY <2>1, <1>5, UndoFrame DEF AllLined
  <2> QED BY <2>2, <1>1, <1>2, <1>5 DEF Undos
<1> QED BY <1>3, <1>4, <1>5 DEF AllLined, Lined, Next2

\* A branch that was never fetched does not appear.
LEMMA GoneStep ==
    ASSUME TypesOK, Gone, [Next]_vars
    PROVE  Gone'
<1>1. CASE UNCHANGED <<seen, remote>>
  BY <1>1 DEF Gone
<1>2. CASE Fetch
  BY <1>2 DEF Fetch, Gone, world
<1>3. ASSUME NEW on \in Branches, NEW c \in Theirs, RemoteAdvance(on, c) PROVE Gone'
  BY <1>3, HistoryAssumption DEF RemoteAdvance, Gone, TypesOK
<1>4. ASSUME NEW on \in Branches, RemoteRewrite(on) PROVE Gone'
  BY <1>4, GitRealignAssumption, TwinTypes DEF RemoteRewrite, Gone, TypesOK
<1>5. CASE RemoteDelete
  BY <1>5 DEF RemoteDelete, Gone, TypesOK
<1> QED BY <1>1, <1>2, <1>3, <1>4, <1>5, RemoteFrame

\* A rewrite is seen on the branch, or on the one it was merged to, until the
\* end.
LEMMA ShownStep ==
    ASSUME TypesOK, Shown, [Next]_vars, "goneRewrite" \notin Faults
    PROVE  Shown'
<1>1. CASE UNCHANGED <<remote, taken>>
  BY <1>1 DEF Shown
<1>2. ASSUME NEW b \in Branches, NEW c \in Theirs, RemoteAdvance(b, c), UNCHANGED taken PROVE Shown'
  <2>1. c \in Commits /\ Reach[remote[b]] \subseteq Reach[c]
    BY <1>2, GitRealignAssumption, ReachParent DEF RemoteAdvance
  <2>2. \A on \in Branches : Reach[remote[on]] \subseteq Reach[remote'[on]]
    BY <1>2, <2>1 DEF RemoteAdvance, TypesOK
  <2> QED BY <1>2, <2>2 DEF Shown
<1>3. ASSUME NEW b \in Branches, RemoteRewrite(b) PROVE Shown'
  <2>0. remote[b] \in DOMAIN Twin /\ remote'[b] = Twin[remote[b]]
    BY <1>3 DEF RemoteRewrite, TypesOK
  <2> SUFFICES ASSUME NEW t \in taken'
               PROVE  /\ t \in DOMAIN Twin
                      /\ \E d \in Reach[t] \cap DOMAIN Twin, on \in Branches :
                            Twin[d] \in Reach[remote'[on]]
    BY DEF Shown
  <2>1. CASE t \in taken
    BY <2>1, <1>3, RewriteKeeps DEF Shown
  <2>2. CASE t \notin taken
    <3>1. t \in Reach[remote[b]] /\ t \notin Reach[remote'[b]]
      BY <2>2, <1>3 DEF RemoteRewrite, RemoteReach
    <3>2. t \in DOMAIN Twin /\ Twin[t] \in Reach[remote'[b]]
      BY <3>1, <2>0, TwinKeeps
    <3>3. t \in Reach[t]
      BY <3>2, TwinTypes, ReachSelf
    <3> QED BY <3>2, <3>3
  <2> QED BY <2>1, <2>2
<1>4. ASSUME RemoteDelete, UNCHANGED taken PROVE Shown'
  BY <1>4 DEF RemoteDelete, Shown, TypesOK, Branches
<1> QED BY <1>1, <1>2, <1>3, <1>4, RemoteFrame

\* From the judgment to the check nothing is fetched.
LEMMA NoTwinStep ==
    ASSUME Sound, NEW r \in Runs, NoTwinSeen(r), [Next]_vars, "lateFetch" \notin Faults
    PROVE  NoTwinSeen(r)'
<1> USE DEF Sound, TypesOK
<1> SUFFICES ASSUME pc'[r] = "check" PROVE NoTwinSeen(r)'
  BY DEF NoTwinSeen
<1>1. CASE pc[r] = "check"
  <2>1. UNCHANGED seen
    BY <1>1, RemoteFrame DEF Fetch
  <2>2. plan'[r] = plan[r]
    BY <1>1, PlanStays
  <2> QED BY <1>1, <2>1, <2>2 DEF NoTwinSeen
<1>2. CASE pc[r] # "check"
  <2>1. Judge(r)
    BY <1>2, OwnStep
       DEF Start, BlockReason, CheckRemote, Keep, Push, PushFails, LockIndex, TakeLock,
       MoveHead, RenameLock, RollBack, CompareDefault, LockDefault, RecheckHead, MoveDefault,
       PointHead,
       RestoreHead, RenameDefault, ConfigDefault, Kill, Step, Realign, SwitchDefault, Goto,
       End, AfterKeep
  <2>a. PICK push \in BOOLEAN : \E p \in Moves(push) : pc'[r] = AfterPlan(p) /\ plan'[r] = p
    BY <2>1, GitRealignAssumption DEF Judge, Goto, End
  <2>2. PICK p \in Moves(push) : pc'[r] = AfterPlan(p) /\ plan'[r] = p
    BY <2>a
  <2>3. p.rescue # None /\ push
    BY <2>2, MovesFacts DEF AfterPlan
  <2>4. ~RewriteTwins(HeadCommit) /\ p.head = HeadCommit /\ p.on = head
    BY <2>3, MovesFacts
  <2>5. \A d \in Reach[p.head] \cap DOMAIN Twin, on \in Branches : Twin[d] \notin Reach[seen[on]]
    <3>1. ASSUME NEW d \in Reach[p.head] \cap DOMAIN Twin, NEW on \in Branches,
                 Twin[d] \in Reach[seen[on]]
          PROVE  FALSE
      <4>1. Twin[d] \in RemoteReach(seen) /\ AreTwins(d, Twin[d])
        BY <3>1 DEF RemoteReach, AreTwins
      <4> QED BY <4>1, <2>4 DEF RewriteTwins
    <3> QED BY <3>1
  <2>6. ~p.switch => seen[p.on] # NoCommit
    BY <2>3, <2>4, MovesFacts, UpstreamIn
  <2>7. UNCHANGED seen
    BY <2>1 DEF Judge
  <2> QED BY <2>2, <2>5, <2>6, <2>7 DEF NoTwinSeen
<1> QED BY <1>1, <1>2

\* A remote that did not move shows every rewrite of what is to be pushed.
LEMMA CheckedClean ==
    ASSUME Sound, Fresh, NEW r \in Runs, pc[r] = "check", ~RemoteMoved(plan[r])
    PROVE  Reach[plan[r].head] \cap taken = {}
<1> USE DEF Sound, TypesOK
<1> SUFFICES ASSUME NEW t \in Reach[plan[r].head] \cap taken PROVE FALSE
  OBVIOUS
<1>1. plan[r] \in Plans /\ (plan[r].switch => plan[r].on = "work") /\ Lined(plan[r].head, plan[r].on)
  BY DEF PlanOK, Idle, Fresh, AllLined, Plans, Branches
<1>2. t \in DOMAIN Twin /\ \A on \in Branches : t \notin Reach[remote[on]]
  BY DEF Fresh, Shown, NoRepublish, RemoteReach
<1>3. \A d \in Reach[plan[r].head] \cap DOMAIN Twin, on \in Branches : Twin[d] \notin Reach[seen[on]]
  BY DEF Fresh, NoTwinSeen
<1>4. CASE remote[plan[r].on] = seen[plan[r].on] /\ remote[plan[r].on] # NoCommit
  BY <1>1, <1>2, <1>3, <1>4 DEF Lined, Plans
<1>5. CASE remote[plan[r].on] = NoCommit /\ plan[r].switch
  <2>1. PICK d \in Reach[t] \cap DOMAIN Twin, on \in Branches : Twin[d] \in Reach[remote[on]]
    BY DEF Fresh, Shown
  <2>2. on = "main" /\ remote["main"] = seen["main"]
    BY <1>1, <1>5, <2>1, NoHistory DEF RemoteMoved, Changed, Branches
  <2>3. d \in Reach[plan[r].head]
    BY <1>1, ReachTrans DEF Plans
  <2> QED BY <1>3, <2>1, <2>2, <2>3
<1>6. ~plan[r].switch => remote[plan[r].on] = seen[plan[r].on] /\ seen[plan[r].on] # NoCommit
  BY DEF RemoteMoved, Changed, Fresh, NoTwinSeen
<1>7. plan[r].switch => \/ remote[plan[r].on] = seen[plan[r].on]
                        \/ remote[plan[r].on] = NoCommit
  BY <1>1 DEF RemoteMoved, Changed, Fresh, Gone, Plans
<1> QED BY <1>4, <1>5, <1>6, <1>7

\* From the check to the push the remote is not rewritten.
LEMMA CleanStep ==
    ASSUME Sound, Fresh, NEW r \in Runs, [Next]_vars, Faults \cap {"lateRewrite", "unread"} = {}
    PROVE  Clean(r)'
<1> USE DEF Sound, TypesOK
<1> SUFFICES ASSUME pc'[r] \in {"keep", "push"}, plan'[r].push
             PROVE  Reach[plan'[r].head] \cap taken' = {}
  BY DEF Clean
<1>1. CASE pc'[r] = pc[r]
  <2>1. plan'[r] = plan[r]
    BY <1>1, PlanStays
  <2>2. taken' = taken
    BY <1>1, <2>1, RemoteFrame DEF RemoteRewrite
  <2> QED BY <1>1, <2>1, <2>2 DEF Fresh, Clean
<1>2. CASE pc'[r] # pc[r]
  <2>1. Step(r) \/ Kill(r)
    BY <1>2, OwnStep
  <2>2. CheckRemote(r) \/ Keep(r)
    <3>1. CASE Judge(r)
      BY <3>1, <1>2, MovesFacts, GitRealignAssumption DEF Judge, Goto, End, AfterPlan
    <3> QED BY <2>1, <3>1 DEF Start, BlockReason, Push, PushFails, LockIndex, TakeLock,
         MoveHead, RenameLock, RollBack, CompareDefault, LockDefault, RecheckHead, MoveDefault,
         PointHead,
         RestoreHead, RenameDefault, ConfigDefault, Kill, Step, Realign, SwitchDefault, At,
         Goto, End,
         AfterKeep
  <2>3. plan'[r] = plan[r] /\ taken' = taken
    BY <2>2 DEF CheckRemote, Keep, Goto, End, world
  <2>4. CASE CheckRemote(r)
    <3>1. ~RemoteMoved(plan[r]) /\ pc[r] = "check"
      BY <2>4 DEF CheckRemote, Unread, At, Goto, End
    <3> QED BY <3>1, <2>3, CheckedClean
  <2>5. CASE Keep(r)
    BY <2>3, <2>5 DEF Keep, At, Fresh, Clean
  <2> QED BY <2>2, <2>4, <2>5
<1> QED BY <1>1, <1>2

\* What is pushed was not taken out, and what is taken out was not pushed.
LEMMA RepublishStep ==
    ASSUME Sound, Fresh, [Next]_vars
    PROVE  NoRepublish'
<1> USE DEF Sound, TypesOK
<1> DEFINE Kept(R) == (UNION {Reach[R[b]] : b \in Branches}) \cap taken = {}
<1>0. /\ \A on \in Branches : Reach[remote[on]] \cap taken = {}
      /\ \A c \in pushed : Reach[c] \cap taken = {}
  BY DEF Fresh, NoRepublish, RemoteReach
<1>1. ASSUME NEW r \in Runs, Push(r) PROVE NoRepublish'
  <2>1. Reach[plan[r].head] \cap taken = {}
    BY <1>1 DEF Push, At, Fresh, Clean, PlanOK, Idle
  <2> QED BY <1>0, <1>1, <2>1 DEF Push, NoRepublish, RemoteReach, world
<1>2. pushed' = pushed \/ \E r \in Runs : Push(r)
  BY DEF MoveHead, RollBack, MoveDefault, RestoreHead, ForwardMain, Undo, Commit,
     Next, User, Others, Step, Realign, SwitchDefault, Start, BlockReason, Judge, CheckRemote,
     Keep, world, PushFails, LockIndex, TakeLock, RenameLock, CompareDefault, LockDefault,
     RecheckHead,
     PointHead, RenameDefault, ConfigDefault, Kill, Switch, Stage, Unstage, Fetch, RemoveStaleLock,
     Deliver, RemoteAdvance, RemoteRewrite, RemoteDelete, refs, vars
<1>3. CASE UNCHANGED <<remote, taken, pushed>>
  BY <1>3 DEF Fresh, NoRepublish, RemoteReach
<1>4. ASSUME NEW on \in Branches, NEW c \in Theirs, RemoteAdvance(on, c), UNCHANGED taken
      PROVE  NoRepublish'
  <2>1. c \in Commits /\ c \notin taken /\ Reach[c] \subseteq {c} \cup Reach[remote[on]]
    BY <1>4, GitRealignAssumption, ReachParent DEF RemoteAdvance
  <2>2. Reach[c] \cap taken = {}
    BY <1>0, <2>1
  <2>3. \A b \in Branches : Reach[remote'[b]] \cap taken' = {}
    BY <1>0, <1>4, <2>2 DEF RemoteAdvance
  <2> QED BY <1>0, <1>4, <2>3 DEF RemoteAdvance, NoRepublish, RemoteReach
<1>5. ASSUME NEW on \in Branches, RemoteRewrite(on) PROVE NoRepublish'
  <2>1. taken' \subseteq (taken \cup Reach[remote[on]]) \ RemoteReach(remote)'
    BY <1>5 DEF RemoteRewrite, RemoteReach
  <2> QED BY <2>1 DEF NoRepublish
<1>6. ASSUME RemoteDelete, UNCHANGED taken PROVE NoRepublish'
  <2>1. \A b \in Branches : Reach[remote'[b]] \cap taken' = {}
    BY <1>0, <1>6, NoHistory DEF RemoteDelete
  <2> QED BY <1>0, <1>6, <2>1 DEF RemoteDelete, NoRepublish, RemoteReach
<1> QED BY <1>1, <1>2, <1>3, <1>4, <1>5, <1>6, RemoteFrame

\* At first all branches are in line, and nothing was taken out.
LEMMA FreshInit == Init => Fresh
<1> SUFFICES ASSUME Init PROVE Fresh
  OBVIOUS
<1>1. ASSUME NEW on \in Branches PROVE Lined(branch[on], on) /\ Lined(seen[on], on)
  BY HistoryAssumption DEF Init, Lined
<1>2. AllLined
  BY <1>1 DEF Init, AllLined, Idle
<1>3. NoRepublish
  BY DEF Init, NoRepublish
<1> QED BY <1>2, <1>3 DEF Init, Fresh, Gone, Shown, NoTwinSeen, Clean

\* The parts together.
LEMMA FreshStep ==
    ASSUME Sound, Steady, Fresh, [Next]_vars,
           Faults \cap {"lateFetch", "lateRewrite", "goneRewrite", "unread"} = {}
    PROVE  Fresh'
<1>1. AllLined' /\ Gone' /\ Shown' /\ NoRepublish'
  BY AllLinedStep, GoneStep, ShownStep, RepublishStep DEF Sound, Fresh
<1>2. \A r \in Runs : NoTwinSeen(r)' /\ Clean(r)'
  BY NoTwinStep, CleanStep DEF Fresh
<1> QED BY <1>1, <1>2 DEF Fresh

\* A rescue that is pushed never brings back to the remote a commit that a
\* rewrite took out of it, for any history and any number of rewrites: the
\* refusal of rewritten twins together with the check that the remote has not
\* moved since the fetch (gitrescue.go).  The hypotheses name every gap of the
\* two checks; "unread" and "goneRewrite" are gaps that the code leaves.
THEOREM RealignNeverRepublishes ==
    ASSUME OneRun,
           Faults \cap {"lateSwitch", "lateFetch", "lateRewrite", "goneRewrite", "unread"} = {}
    PROVE  Spec => []NoRepublish
<1> DEFINE Inv == Sound /\ Steady /\ Fresh
<1>1. Init => Inv
  BY SoundInit, SteadyInit, FreshInit
<1>2. Inv /\ [Next]_vars => Inv'
  BY SoundStep, SteadyStep, FreshStep
<1>3. Inv => NoRepublish
  BY DEF Fresh
<1> QED BY <1>1, <1>2, <1>3, PTL DEF Spec

-----------------------------------------------------------------------------
(* MovesWhole *)

\* What the index is from, and where the branches stand, at each point of a run.
Whole(r) ==
    /\ pc[r] \notin {"off", "block", "config"} => ~index.staged
    /\ pc[r] \notin {"off", "block", "config", "rename", "renamedef"} =>
          Tree[index.base] = Tree[HeadCommit]
    /\ pc[r] = "rename" => Tree[index.base] = Tree[plan[r].head] /\ HeadCommit = plan[r].target
    /\ pc[r] \in {"movedef", "point"} => head = plan[r].on
    /\ pc[r] = "renamedef" => head = "main" /\ Tree[index.base] = Tree[branch[plan[r].on]]
    /\ pc[r] = "renamedef" \/ MainUnwatched(r) => branch["main"] = plan[r].target

\* Nothing is staged, committed or moved in the windows of a move.
Timely == Faults \cap {"lateStage", "lateCommit", "lateDefault"} = {}

\* A run's own steps keep it,
LEMMA WholeRun ==
    ASSUME Sound, Steady, OneRun, Timely, NEW r \in Runs, Whole(r), Step(r) \/ Kill(r)
    PROVE  Whole(r)'
<1> USE DEF Sound, TypesOK, Whole, MainUnwatched, At, Goto, End, HeadCommit
<1>1. CASE Start(r)
  BY <1>1 DEF Start, refs
<1>2. CASE BlockReason(r)
  BY <1>2 DEF BlockReason, Staged, refs
<1>3. CASE Judge(r)
  BY <1>3, MovesFacts, GitRealignAssumption DEF Judge, AfterPlan, refs
<1>4. CASE CheckRemote(r)
  BY <1>4 DEF CheckRemote, refs
<1>5. CASE Keep(r)
  BY <1>5 DEF Keep, AfterKeep, PlanOK, Idle
<1>6. CASE Push(r)
  BY <1>6 DEF Push, AfterKeep, refs
<1>7. CASE PushFails(r)
  BY <1>7 DEF PushFails, refs
<1>8. CASE LockIndex(r)
  BY <1>8 DEF LockIndex, TakeLock, refs
<1>9. CASE MoveHead(r)
  BY <1>9 DEF MoveHead
<1>10. CASE RenameLock(r)
  BY <1>10 DEF RenameLock
<1>11. CASE RollBack(r)
  BY <1>11 DEF RollBack
<1>12. CASE CompareDefault(r)
  <2>1. CASE DefaultAhead(plan[r].target)
    BY <1>12, <2>1 DEF CompareDefault
  <2>2. CASE ~DefaultAhead(plan[r].target)
    <3>1. plan[r] \in Plans /\ plan'[r] = [plan[r] EXCEPT !.old = branch["main"]]
      BY <1>12, <2>2 DEF CompareDefault, PlanOK, Idle
    <3> QED BY <1>12, <3>1 DEF CompareDefault, Plans, refs
  <2> QED BY <2>1, <2>2
<1>13. CASE LockDefault(r)
  BY <1>13 DEF LockDefault, TakeLock, refs
<1>14. CASE RecheckHead(r)
  BY <1>14 DEF RecheckHead, refs
<1>15. CASE MoveDefault(r)
  <2>1. plan[r].switch /\ head = plan[r].on /\ head # "main" /\ ~index.staged
    BY <1>15 DEF MoveDefault, PlanOK, Idle, Switching, Compared
  <2>2. ASSUME pc'[r] = "point"
        PROVE  branch'["main"] = plan[r].target /\ branch'[head] = branch[head]
    BY <1>15, <2>1, <2>2 DEF MoveDefault, Branches
  <2> QED BY <1>15, <2>1, <2>2 DEF MoveDefault
<1>16. CASE PointHead(r)
  BY <1>16 DEF PointHead, PlanOK, Idle, Switching, Compared
<1>17. CASE RestoreHead(r)
  BY <1>17 DEF RestoreHead
<1>18. CASE RenameDefault(r)
  BY <1>18 DEF RenameDefault
<1>19. CASE ConfigDefault(r)
  BY <1>19 DEF ConfigDefault, refs
<1>20. CASE Kill(r)
  BY <1>20 DEF Kill, refs
<1> QED BY <1>1, <1>2, <1>3, <1>4, <1>5, <1>6, <1>7, <1>8, <1>9, <1>10, <1>11, <1>12, <1>13,
           <1>14, <1>15, <1>16, <1>17, <1>18, <1>19, <1>20 DEF Step, Realign, SwitchDefault

\* and those of the others, who find index.lock taken.
LEMMA WholeOthers ==
    ASSUME Sound, Steady, OneRun, Timely, NEW r \in Runs, Whole(r), User \/ Others \/ UNCHANGED vars
    PROVE  Whole(r)'
<1> USE DEF Sound, TypesOK
<1>0. pc' = pc /\ plan' = plan
  BY RunFrame
<1>1. pc[r] \in Holding => lock = r /\ lock \in Runs /\ lock # NoLock
  BY GitRealignAssumption DEF Held
<1>2. pc[r] \notin {"off", "config"} => undo = NoUndo
  BY DEF Steady, NoUndoMeanwhile
<1> USE <1>0, <1>1, <1>2 DEF Whole, MainUnwatched, At, HeadCommit, Holding
<1>3. CASE UNCHANGED <<head, branch, index>>
  BY <1>3
<1>4. ASSUME NEW c \in Mine, Commit(c) PROVE Whole(r)'
  <2>1. lock = NoLock /\ (head = "main" => ~MainUnwatched(r))
    BY <1>4 DEF Commit, MayMoveMain, Timely
  <2> QED BY <1>4, <2>1 DEF Commit
<1>5. ASSUME NEW on \in Branches, Switch(on) PROVE Whole(r)'
  BY <1>5 DEF Switch
<1>6. CASE Stage
  BY <1>6 DEF Stage, Timely, refs
<1>7. CASE Unstage
  BY <1>7 DEF Unstage, refs
<1>8. CASE ForwardMain
  <2>1. ~MainUnwatched(r)
    BY <1>8 DEF ForwardMain, MayMoveMain, Timely
  <2> QED BY <1>8, <2>1 DEF ForwardMain
<1>9. CASE Undo
  BY <1>9 DEF Undo
<1> QED BY <1>3, <1>4, <1>5, <1>6, <1>7, <1>8, <1>9
        DEF User, Others, Fetch, RemoveStaleLock, Deliver, RemoteAdvance, RemoteRewrite,
            RemoteDelete,
            refs, vars

\* Both together, for one run at a time.
LEMMA WholeStep ==
    ASSUME Sound, Steady, OneRun, Timely, \A r \in Runs : Whole(r), [Next]_vars
    PROVE  \A r \in Runs : Whole(r)'
BY WholeRun, WholeOthers DEF Next, OneRun

\* What a step of a run does to the branches and, letting index.lock go, leaves.
Shift(r, b) == b = IF plan[r].switch THEN "main" ELSE plan[r].on

\* The index is HEAD's, and what was staged still is.
LetsGo == Tree[index'.base] = Tree[branch'[head']] /\ index'.staged = index.staged

\* A run moves the branch of its plan.
LEMMA ShiftRun ==
    ASSUME Sound, Steady, NEW r \in Runs, Step(r) \/ Kill(r), pc[r] \in Holding,
           NEW b \in Branches, branch'[b] # branch[b]
    PROVE  Shift(r, b)
<1> USE DEF Sound, TypesOK, Shift, PlanOK, Idle, Moving, Switching, Compared, At
<1>1. CASE MoveHead(r)
  BY <1>1 DEF MoveHead, Steady, OnBranch, Deciding
<1>2. CASE RollBack(r)
  BY <1>2 DEF RollBack, Steady, OnBranch
<1>3. CASE MoveDefault(r)
  BY <1>3 DEF MoveDefault
<1>4. CASE RestoreHead(r)
  BY <1>4 DEF RestoreHead, RestoreDefault
<1> QED BY <1>1, <1>2, <1>3, <1>4 DEF Start, BlockReason, Judge, CheckRemote, Keep, Push, PushFails,
     LockIndex, TakeLock, RenameLock, CompareDefault, LockDefault, RecheckHead, PointHead,
     RenameDefault,
     ConfigDefault, Kill, Step, Realign, SwitchDefault, refs

\* A run that lets index.lock go leaves the index HEAD's.
LEMMA LetsGoRun ==
    ASSUME Sound, "headStuck" \notin Faults,
           NEW r \in Runs, Whole(r), Step(r) \/ Kill(r), lock \in Runs, lock' = NoLock
    PROVE  LetsGo
<1> USE DEF Sound, TypesOK, LetsGo, Whole, MainUnwatched, At, HeadCommit
<1> USE GitRealignAssumption
<1>1. CASE MoveHead(r)
  BY <1>1 DEF MoveHead
<1>2. CASE RenameLock(r)
  BY <1>2 DEF RenameLock, Moved, refs
<1>3. CASE RollBack(r)
  BY <1>3 DEF RollBack
<1>4. CASE RecheckHead(r)
  BY <1>4 DEF RecheckHead, refs
<1>5. CASE MoveDefault(r)
  BY <1>5 DEF MoveDefault
<1>6. CASE RestoreHead(r)
  <2>1. plan[r].on # "main" /\ plan[r].on \in Branches
    BY <1>6 DEF RestoreHead, PlanOK, Idle, Switching, Compared, Plans
  <2> QED BY <1>6, <2>1 DEF RestoreHead, RestoreDefault
<1>7. CASE RenameDefault(r)
  BY <1>7 DEF RenameDefault, Moved, refs
<1> QED BY <1>1, <1>2, <1>3, <1>4, <1>5, <1>6, <1>7
           DEF Start, BlockReason, Judge, CheckRemote, Keep,
     Push, PushFails, LockIndex, LockDefault, TakeLock, CompareDefault, PointHead, ConfigDefault,
     Kill, Step, Realign, SwitchDefault

\* Nobody else lets it go.
LEMMA LetsGoOthers ==
    ASSUME TypesOK, User \/ Others \/ UNCHANGED vars, lock \in Runs, lock' = NoLock
    PROVE  FALSE
BY GitRealignAssumption DEF User, Others, Commit, Switch, Stage, Unstage, Fetch, ForwardMain, Undo,
   RemoveStaleLock, Deliver, RemoteAdvance, RemoteRewrite, RemoteDelete, vars

\* A run moves no branch but the one it judged, and whenever it lets go of
\* index.lock (moved, refused or rolled back) the index is HEAD's and what was
\* staged is still staged: the halves of a move in realign and switchBranch are
\* one to the user.  "lateDefault" is the gap the proof found: a default branch
\* that is already at the target is not compared again before HEAD names it.
THEOREM RealignMovesWhole ==
    ASSUME OneRun,
           Faults \cap {"lateStage", "lateCommit", "lateSwitch", "lateDefault", "headStuck"} = {}
    PROVE  Spec => MovesWhole
<1> DEFINE Inv == Sound /\ Steady /\ \A r \in Runs : Whole(r)
           Act == /\ \A r \in Runs, b \in Branches :
                       pc[r] \in Holding /\ pc'[r] # pc[r] /\ branch'[b] # branch[b] =>
                           b = IF plan[r].switch THEN "main" ELSE plan[r].on
                  /\ (lock \in Runs /\ lock' = NoLock) =>
                       /\ Tree[index'.base] = Tree[branch'[head']]
                       /\ index'.staged = index.staged
<1>1. Init => Inv
  BY SoundInit, SteadyInit DEF Init, Whole, MainUnwatched, At
<1>2. Inv /\ [Next]_vars => Inv'
  BY SoundStep, SteadyStep, WholeStep DEF Timely
<1>3. Inv /\ [Next]_vars => Act
  <2> SUFFICES ASSUME Inv, [Next]_vars PROVE Act
    OBVIOUS
  <2>1. ASSUME NEW r \in Runs, NEW b \in Branches,
               pc[r] \in Holding, pc'[r] # pc[r], branch'[b] # branch[b]
        PROVE  b = IF plan[r].switch THEN "main" ELSE plan[r].on
    BY <2>1, OwnStep, ShiftRun DEF Sound, Shift
  <2>2. ASSUME lock \in Runs, lock' = NoLock PROVE LetsGo
    BY <2>2, LetsGoRun, LetsGoOthers DEF Next, Sound
  <2> QED BY <2>1, <2>2 DEF LetsGo
<1>4. Inv /\ [Next]_vars => [Act]_vars
  BY <1>3
<1> QED BY <1>1, <1>2, <1>4, PTL DEF Spec, MovesWhole

=============================================================================
