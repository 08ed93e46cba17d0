----------------------------- MODULE GitRealign -----------------------------
(***************************************************************************)
(* `dot peer git realign --apply --rescue` on one repository               *)
(* (internal/syncer/gitstate.go and gitrescue.go).  Peer sync brings files *)
(* and no .git, so HEAD is behind what the worktree holds: a run moves     *)
(* HEAD and the index to the commit that the files match, forward when it  *)
(* descends from HEAD, otherwise after keeping HEAD's commits on a rescue  *)
(* branch that it pushes.                                                  *)
(*                                                                         *)
(* One git command or system call is one step; the reads that classify a   *)
(* repository are one.  Meanwhile the user commits, stages, switches and   *)
(* fetches, peer sync delivers files, and the other Mac pushes to the      *)
(* remote or rewrites its history.  The repository has a branch "work",    *)
(* the default branch "main" and one remote; submodules, a detached HEAD,  *)
(* linked worktrees and Git LFS are left out.                              *)
(*                                                                         *)
(* A configuration admits or not:                                          *)
(*   "lateStage"    the user stages a change under a run                   *)
(*   "lateCommit"   a commit whose message was being written when a run    *)
(*                  took index.lock is made while it holds it              *)
(*   "lateSwitch"   the user switches to another branch at the same commit *)
(*                  between the judgment and the move                      *)
(*   "lateDefault"  the default branch moves when a switch to it compares  *)
(*                  it with nothing any more                               *)
(*   "lateFetch"    a fetch between the judgment and the remote check      *)
(*   "lateRewrite"  the remote is rewritten between its check and the push *)
(*   "goneRewrite"  a rewritten feature branch is deleted from the remote, *)
(*                  and no other branch shows the rewrite                  *)
(*   "headStuck"    the rename of a switch fails, HEAD cannot be put back  *)
(*                  after it, and index.lock is removed all the same       *)
(*   "unread"       the check cannot read the feature branch of a switch,  *)
(*                  and passes over it                                     *)
(***************************************************************************)
EXTENDS FiniteSets, Naturals

CONSTANTS
    Runs,        \* the realign processes
    Pushes,      \* whether a run pushes the rescue branch, or has --no-push
    Commits,     \* commits that exist or may be made
    NoCommit,    \* a branch that does not exist
    Parent,      \* the commit a commit was made on
    Tree,        \* its content: a version or Absent for each file
    Absent,      \* the file is not there
    Twin,        \* what a rewrite of the remote makes of a commit
    Mine,        \* commits that only the user here makes
    Theirs,      \* commits that only the other Mac makes
    Worktrees,   \* contents that peer sync delivers
    Starts,      \* the branches here and on the remote at the start
    NoLock,      \* index.lock does not exist
    Stale,       \* index.lock is left by a process that is gone
    MaxRescues,  \* bound on the rescue branches
    MaxStops,    \* bound on the kills and failed calls
    Faults       \* the windows that are hit

ASSUME GitRealignAssumption ==
    /\ Pushes \subseteq BOOLEAN
    /\ NoCommit \notin Commits
    /\ Parent \in [Commits -> Commits \cup {NoCommit}]
    /\ DOMAIN Tree = Commits
    /\ Twin \in [DOMAIN Twin -> Commits] /\ DOMAIN Twin \subseteq Commits
    /\ Mine \cup Theirs \subseteq Commits /\ Mine \cap Theirs = {}
    /\ NoLock \notin Runs \cup {Stale} /\ Stale \notin Runs
    /\ MaxRescues \in Nat /\ MaxStops \in Nat
    /\ Faults \subseteq {"lateStage", "lateCommit", "lateSwitch", "lateDefault", "lateFetch",
                         "lateRewrite", "goneRewrite", "headStuck", "unread"}

VARIABLES
    head,     \* the branch HEAD names
    branch,   \* refs/heads
    mainUp,   \* "main" has an upstream configured
    rescues,  \* refs/heads/rescue/<date>-<branch>, in the order of their names
    index,    \* the commit its entries are from, and whether more is staged
    lock,     \* index.lock
    files,    \* the worktree
    seen,     \* refs/remotes/origin, as last fetched
    remote,   \* the branches of the remote
    pushed,   \* the rescue branches of the remote
    taken,    \* commits that a rewrite took out of the remote
    made,     \* commits the user made here
    undo,     \* the undo command of the last move
    pc,       \* where each run stands
    plan,     \* what each run judged
    stops     \* kills and failures so far

world == <<files, remote, taken, made>>
refs == <<head, branch, mainUp, rescues>>
vars == <<refs, index, lock, seen, pushed, undo, pc, plan, stops, world>>

Branches == {"work", "main"}
None == 0
NoPlan == [head |-> NoCommit]
NoUndo == [on |-> "none"]

Pcs == {"off", "block", "judge", "check", "keep", "push", "lock", "move",
        "rename", "compare", "lockdef", "recheck", "movedef", "point",
        "renamedef", "config"}
Holding == {"move", "rename", "recheck", "movedef", "point", "renamedef"}

HeadCommit == branch[head]

-----------------------------------------------------------------------------
(* Commits and files *)

\* The sets of commits that hold every parent of theirs.
Closed == {S \in SUBSET Commits : \A c \in S : Parent[c] \in S \cup {NoCommit}}

\* The history of a commit, itself included: the least such set with it.
Reach ==
    [c \in Commits \cup {NoCommit} |->
        {d \in Commits : c # NoCommit /\ \A S \in Closed : c \in S => d \in S}]

\* A rewrite keeps the shape of a history and makes commits of its own.  The
\* user's commits are those that are not published, and what a clone has of
\* the commits that may be rewritten is on the remote branch of that name.
ASSUME HistoryAssumption ==
    /\ Starts \subseteq [here : [Branches -> Commits \cup {NoCommit}],
                        there : [Branches -> Commits \cup {NoCommit}]]
    /\ \A c \in DOMAIN Twin :
          /\ Twin[c] \notin DOMAIN Twin
          /\ Parent[Twin[c]] =
                IF Parent[c] \in DOMAIN Twin THEN Twin[Parent[c]] ELSE Parent[c]
          /\ {c, Twin[c]} \cap Mine = {}
    /\ \A c \in Theirs : Parent[c] # NoCommit
    /\ \A start \in Starts, on \in Branches :
          /\ Reach[start.there[on]] \cap Mine = {}
          /\ start.there[on] = NoCommit
                \/ Reach[start.here[on]] \cap DOMAIN Twin \subseteq Reach[start.there[on]]

StrictDescendant(old, new) == new # old /\ old \in Reach[new]

\* Files the commit tracks and the worktree holds otherwise, or not.
ContentDiffs(c) ==
    Cardinality({f \in DOMAIN files : Tree[c][f] \notin {Absent, files[f]}})

\* A file that HEAD tracks and the commit does not would become untracked.
RescueDiffs(h, c) ==
    ContentDiffs(c)
    + Cardinality({f \in DOMAIN files :
        Tree[h][f] # Absent /\ Tree[c][f] = Absent /\ files[f] # Absent})

\* The newest of commits on one chain.
Newest(cs) == {c \in cs : cs \subseteq Reach[c]}

\* What the branches of the remote reach, or its tracking refs.
RemoteReach(rm) ==
    (UNION {Reach[rm[b]] : b \in Branches}) \cup (UNION {Reach[c] : c \in pushed})

\* Commits of one author, date and subject.
AreTwins(c, d) ==
    \/ c \in DOMAIN Twin /\ Twin[c] = d
    \/ d \in DOMAIN Twin /\ Twin[d] = c

\* Against a HEAD that names no commit, everything is staged.
Staged ==
    \/ index.staged
    \/ HeadCommit = NoCommit
    \/ Tree[index.base] # Tree[HeadCommit]

-----------------------------------------------------------------------------
(* Classification *)

Upstream(b) == IF b = "main" /\ ~mainUp THEN NoCommit ELSE seen[b]

Candidates(h) == {c \in Reach[Upstream(head)] : StrictDescendant(h, c)}

\* The candidates that match the files best; a tie of edited files with HEAD
\* leaves those of HEAD's own content.
Tied(h) ==
    {c \in Candidates(h) :
        /\ \A d \in Candidates(h) : ContentDiffs(c) <= ContentDiffs(d)
        /\ \/ ContentDiffs(c) < ContentDiffs(h)
           \/ ContentDiffs(c) = ContentDiffs(h) /\ ContentDiffs(h) = 0
           \/ ContentDiffs(c) = ContentDiffs(h) /\ Tree[c] = Tree[h]}

\* The best of the commits on tip's chain, off HEAD's history, that beat HEAD.
BestOnChain(h, tip) ==
    {c \in Reach[tip] \ Reach[h] :
        /\ RescueDiffs(h, c) < ContentDiffs(h)
        /\ \A d \in Reach[tip] \ Reach[h] : RescueDiffs(h, c) <= RescueDiffs(h, d)}

\* A match with n differences beats what the branch's own upstream offers.
BeatsUpstream(h, n) ==
    LET up == Upstream(head)
        cs == BestOnChain(h, up)
    IN IF cs # {} THEN \A d \in cs : n < RescueDiffs(h, d)
       ELSE up \in Reach[h] => n < RescueDiffs(h, up)

\* Commits of the default branch that the files of a feature branch are at.
Mismatch(h) ==
    {c \in BestOnChain(h, seen["main"]) :
        head # "main" /\ BeatsUpstream(h, RescueDiffs(h, c))}

Diverged(h) ==
    LET up == Upstream(head)
    IN IF Reach[h] \subseteq Reach[up] \/ Reach[up] \subseteq Reach[h] THEN {}
       ELSE BestOnChain(h, up)

\* A commit of HEAD's history whose rewritten version, or the one it is the
\* rewrite of, is in a history that was fetched.
RewriteTwins(h) ==
    \E c \in Reach[h], d \in RemoteReach(seen) : AreTwins(c, d)

FreeNames == {n \in 1..MaxRescues : rescues[n] = NoCommit}

FirstFree == {n \in FreeNames : \A k \in FreeNames : n <= k}

\* The default branch has commits that the target lacks.
DefaultAhead(c) ==
    branch["main"] \notin {NoCommit, c} /\ ~StrictDescendant(branch["main"], c)

\* HEAD as judged, the target, the rescue branch or none, and for a switch to
\* the default branch, where that stood when it was compared.
Plan(target, rescue, push, switch) ==
    [head |-> HeadCommit, on |-> head, target |-> target, rescue |-> rescue,
     push |-> push, switch |-> switch, old |-> NoCommit]

\* A rescue takes the first free name; a pushed one is refused when a rewritten
\* commit would come with it.
Rescues(cs, push, switch) ==
    {Plan(c, n, push, switch) :
        c \in Newest(cs),
        n \in IF push /\ RewriteTwins(HeadCommit) THEN {} ELSE FirstFree}

\* What a run does: nothing, move forward, or rescue.
Moves(push) ==
    LET h == HeadCommit
    IN IF Tied(h) # {} THEN {Plan(c, None, push, FALSE) : c \in Newest(Tied(h))}
       ELSE IF ContentDiffs(h) = 0 THEN {}
       ELSE IF Mismatch(h) = {} THEN Rescues(Diverged(h), push, FALSE)
       ELSE {p \in Rescues(Mismatch(h), push, TRUE) : ~DefaultAhead(p.target)}

\* The remote branches that a rescue rests on moved since the last fetch.  A
\* feature branch that is gone from the remote, or not tracked, is no move.
Changed(b) == remote[b] # seen[b]

\* Mutant: only the branch the rescue moves to is looked at.
RemoteMovedTarget(p) == Changed(IF p.switch THEN "main" ELSE p.on)

RemoteMoved(p) ==
    IF p.switch
    THEN Changed("main") \/ (Changed(p.on) /\ NoCommit \notin {remote[p.on], seen[p.on]})
    ELSE Changed(p.on)

\* The feature branch is passed over when it cannot be read.
Unread(p) == "unread" \in Faults /\ p.switch /\ ~Changed("main")

-----------------------------------------------------------------------------
(* The run *)

Init ==
    /\ \E s \in Starts : branch = s.here /\ remote = s.there
    /\ head = "work"
    /\ files \in Worktrees
    /\ made = Mine \cap UNION {Reach[branch[b]] : b \in Branches}
    /\ mainUp = (branch["main"] # NoCommit)
    /\ rescues = [n \in 1..MaxRescues |-> NoCommit]
    /\ index = [base |-> branch[head], staged |-> FALSE]
    /\ lock = NoLock
    /\ seen = remote
    /\ pushed = {}
    /\ taken = {}
    /\ undo = NoUndo
    /\ pc = [r \in Runs |-> "off"]
    /\ plan = [r \in Runs |-> NoPlan]
    /\ stops = 0

Goto(r, l) == pc' = [pc EXCEPT ![r] = l]
At(r, l) == pc[r] = l
End(r) == Goto(r, "off") /\ plan' = [plan EXCEPT ![r] = NoPlan]
Unlock == lock' = NoLock
Fails == stops < MaxStops /\ stops' = stops + 1

Start(r) ==
    /\ At(r, "off")
    /\ Goto(r, "block")
    /\ undo' = NoUndo
    /\ UNCHANGED <<refs, index, lock, seen, pushed, plan, stops, world>>

\* Mutant: staged changes are not looked for.
BlockReasonLock(r) ==
    /\ At(r, "block")
    /\ IF lock # NoLock THEN End(r) ELSE Goto(r, "judge") /\ UNCHANGED plan
    /\ UNCHANGED <<refs, index, lock, seen, pushed, undo, stops, world>>

\* An index.lock or a staged change makes the run leave the repository alone.
BlockReason(r) ==
    /\ At(r, "block")
    /\ IF lock # NoLock \/ Staged THEN End(r) ELSE Goto(r, "judge") /\ UNCHANGED plan
    /\ UNCHANGED <<refs, index, lock, seen, pushed, undo, stops, world>>

AfterPlan(p) ==
    IF p.rescue = None THEN "lock" ELSE IF p.push THEN "check" ELSE "keep"

Judge(r) ==
    /\ At(r, "judge")
    /\ \E push \in Pushes :
         IF Moves(push) = {} THEN End(r)
         ELSE \E p \in Moves(push) :
                Goto(r, AfterPlan(p)) /\ plan' = [plan EXCEPT ![r] = p]
    /\ UNCHANGED <<refs, index, lock, seen, pushed, undo, stops, world>>

\* A check that cannot read the branch the rescue moves to refuses as well.
CheckRemote(r) ==
    /\ At(r, "check")
    /\ \/ RemoteMoved(plan[r]) /\ End(r) /\ UNCHANGED stops
       \/ Fails /\ End(r)
       \/ (~RemoteMoved(plan[r]) \/ Unread(plan[r])) /\ Goto(r, "keep")
          /\ UNCHANGED <<plan, stops>>
    /\ UNCHANGED <<refs, index, lock, seen, pushed, undo, world>>

AfterKeep(r) ==
    IF At(r, "keep") /\ plan[r].push THEN "push"
    ELSE IF plan[r].switch THEN "compare" ELSE "lock"

\* The rescue branch is only ever created.
Keep(r) ==
    /\ At(r, "keep")
    /\ IF rescues[plan[r].rescue] = NoCommit
       THEN /\ rescues' = [rescues EXCEPT ![plan[r].rescue] = plan[r].head]
            /\ Goto(r, AfterKeep(r))
            /\ UNCHANGED plan
       ELSE End(r) /\ UNCHANGED rescues
    /\ UNCHANGED <<head, branch, mainUp, index, lock, seen, pushed, undo, stops, world>>

\* A push that fails leaves HEAD where it is.
Push(r) ==
    /\ At(r, "push")
    /\ pushed' = pushed \cup {plan[r].head}
    /\ Goto(r, AfterKeep(r))
    /\ UNCHANGED <<refs, index, lock, seen, undo, plan, stops, world>>

PushFails(r) ==
    /\ At(r, "push")
    /\ Fails
    /\ End(r)
    /\ UNCHANGED <<refs, index, lock, seen, pushed, undo, world>>

\* index.lock is created exclusively, with the index of the target in it.
TakeLock(r, l) ==
    /\ IF lock = NoLock
       THEN lock' = r /\ Goto(r, l) /\ UNCHANGED plan
       ELSE End(r) /\ UNCHANGED lock
    /\ UNCHANGED <<refs, index, seen, pushed, undo, stops, world>>

LockIndex(r) == At(r, "lock") /\ TakeLock(r, "move")

\* A compare-and-swap of whatever branch HEAD names.
MoveHead(r) ==
    /\ At(r, "move")
    /\ IF HeadCommit = plan[r].head
       THEN /\ branch' = [branch EXCEPT ![head] = plan[r].target]
            /\ Goto(r, "rename")
            /\ UNCHANGED <<plan, lock>>
       ELSE Unlock /\ End(r) /\ UNCHANGED branch
    /\ UNCHANGED <<head, mainUp, rescues, index, seen, pushed, undo, stops, world>>

Moved(r) ==
    /\ index' = [base |-> plan[r].target, staged |-> FALSE]
    /\ undo' = [on |-> plan[r].on, head |-> plan[r].head, target |-> plan[r].target,
                switch |-> plan[r].switch]
    /\ Unlock

RenameLock(r) ==
    /\ At(r, "rename")
    /\ Moved(r)
    /\ End(r)
    /\ UNCHANGED <<refs, seen, pushed, stops, world>>

\* The rename fails: HEAD is put back, or, when that fails as well, the lock
\* stays and the report says how to recover.
RollBack(r) ==
    /\ At(r, "rename")
    /\ Fails
    /\ \/ branch' = [branch EXCEPT ![head] = plan[r].head] /\ Unlock
       \/ lock' = Stale /\ UNCHANGED branch
    /\ End(r)
    /\ UNCHANGED <<head, mainUp, rescues, index, seen, pushed, undo, world>>

-----------------------------------------------------------------------------
(* The switch to the default branch *)

CompareDefault(r) ==
    /\ At(r, "compare")
    /\ IF DefaultAhead(plan[r].target) THEN End(r)
       ELSE Goto(r, "lockdef") /\ plan' = [plan EXCEPT ![r].old = branch["main"]]
    /\ UNCHANGED <<refs, index, lock, seen, pushed, undo, stops, world>>

LockDefault(r) == At(r, "lockdef") /\ TakeLock(r, "recheck")

\* Mutant: HEAD is not read again under the lock.
RecheckHeadNot(r) ==
    /\ At(r, "recheck")
    /\ Goto(r, "movedef")
    /\ UNCHANGED <<refs, index, lock, seen, pushed, undo, plan, stops, world>>

\* A commit made during the push would be on no rescue branch.
RecheckHead(r) ==
    /\ At(r, "recheck")
    /\ IF head = plan[r].on /\ HeadCommit = plan[r].head
       THEN Goto(r, "movedef") /\ UNCHANGED <<plan, lock>>
       ELSE Unlock /\ End(r)
    /\ UNCHANGED <<refs, index, seen, pushed, undo, stops, world>>

MoveDefault(r) ==
    /\ At(r, "movedef")
    /\ IF plan[r].old = plan[r].target \/ branch["main"] = plan[r].old
       THEN /\ branch' = [branch EXCEPT !["main"] =
                            IF plan[r].old = plan[r].target THEN @ ELSE plan[r].target]
            /\ Goto(r, "point")
            /\ UNCHANGED <<plan, lock>>
       ELSE Unlock /\ End(r) /\ UNCHANGED branch
    /\ UNCHANGED <<head, mainUp, rescues, index, seen, pushed, undo, stops, world>>

PointHead(r) ==
    /\ At(r, "point")
    /\ head' = "main"
    /\ Goto(r, "renamedef")
    /\ UNCHANGED <<branch, mainUp, rescues, index, lock, seen, pushed, undo, plan, stops, world>>

\* The default branch goes back if it is still where the run put it.
RestoreDefault(r) ==
    branch' = [branch EXCEPT !["main"] = IF @ = plan[r].target THEN plan[r].old ELSE @]

\* HEAD cannot be pointed, or the rename fails after it was.  Putting back the
\* default branch can fail as well, and so can HEAD, with index.lock removed.
RestoreHead(r) ==
    /\ pc[r] \in {"point", "renamedef"}
    /\ Fails
    /\ RestoreDefault(r) \/ UNCHANGED branch
    /\ \/ head' = IF At(r, "renamedef") THEN plan[r].on ELSE head
       \/ "headStuck" \in Faults /\ UNCHANGED head
    /\ Unlock
    /\ End(r)
    /\ UNCHANGED <<mainUp, rescues, index, seen, pushed, undo, world>>

RenameDefault(r) ==
    /\ At(r, "renamedef")
    /\ Moved(r)
    /\ IF plan[r].old = NoCommit THEN Goto(r, "config") /\ UNCHANGED plan ELSE End(r)
    /\ UNCHANGED <<refs, seen, pushed, stops, world>>

\* A branch created here tracks origin's.
ConfigDefault(r) ==
    /\ At(r, "config")
    /\ mainUp' = TRUE
    /\ End(r)
    /\ UNCHANGED <<head, branch, rescues, index, lock, seen, pushed, undo, stops, world>>

Kill(r) ==
    /\ ~At(r, "off")
    /\ Fails
    /\ lock' = IF lock = r THEN Stale ELSE lock
    /\ End(r)
    /\ UNCHANGED <<refs, index, seen, pushed, undo, world>>

-----------------------------------------------------------------------------
(* The user, peer sync and the other Mac *)

runState == <<pc, plan, stops>>

\* A switch on its way that compares the default branch with nothing any more:
\* it moved it already, or found it at the target.
MainUnwatched(r) ==
    \/ At(r, "point")
    \/ pc[r] \in {"lockdef", "recheck", "movedef"} /\ plan[r].old = plan[r].target

MayMoveMain == (\A r \in Runs : ~MainUnwatched(r)) \/ "lateDefault" \in Faults

\* A commit is made with index.lock free, except one begun before.
Commit(c) ==
    /\ lock = NoLock \/ (lock \in Runs /\ "lateCommit" \in Faults)
    /\ head = "main" => MayMoveMain
    /\ c \in Mine \ made
    /\ Parent[c] = HeadCommit
    /\ branch' = [branch EXCEPT ![head] = c]
    /\ made' = made \cup {c}
    /\ index' = [base |-> c, staged |-> FALSE]
    /\ undo' = NoUndo
    /\ UNCHANGED <<head, mainUp, rescues, lock, files, seen, remote, pushed, taken, runState>>

Stage ==
    /\ lock = NoLock
    /\ (\A r \in Runs : At(r, "off")) \/ "lateStage" \in Faults
    /\ index' = [index EXCEPT !.staged = TRUE]
    /\ UNCHANGED <<refs, lock, seen, pushed, undo, runState, world>>

\* git reset.
Unstage ==
    /\ lock = NoLock
    /\ HeadCommit # NoCommit
    /\ Staged
    /\ index' = [base |-> HeadCommit, staged |-> FALSE]
    /\ UNCHANGED <<refs, lock, seen, pushed, undo, runState, world>>

\* git switch carries the edited files along, if the branches agree on them.
Switch(b) ==
    /\ lock = NoLock
    /\ ~Staged
    /\ b # head /\ branch[b] # NoCommit
    /\ \/ \A r \in Runs : ~(pc[r] \in {"check", "keep", "push", "lock"} /\ ~plan[r].switch
                            /\ branch[b] = plan[r].head)
       \/ "lateSwitch" \in Faults
    /\ \A f \in DOMAIN files : files[f] # Tree[HeadCommit][f] =>
            Tree[branch[b]][f] = Tree[HeadCommit][f]
    /\ files' = [f \in DOMAIN files |-> IF files[f] = Tree[HeadCommit][f]
                                        THEN Tree[branch[b]][f] ELSE files[f]]
    /\ head' = b
    /\ index' = [base |-> branch[b], staged |-> FALSE]
    /\ undo' = NoUndo
    /\ UNCHANGED <<branch, mainUp, rescues, lock, seen, remote, pushed, taken, made, runState>>

\* git fetch, with or without --prune.
Fetch ==
    /\ (\A r \in Runs : pc[r] # "check") \/ "lateFetch" \in Faults
    /\ \E gone \in SUBSET {b \in Branches : remote[b] = NoCommit} :
         seen' = [b \in Branches |-> IF remote[b] = NoCommit /\ b \notin gone
                                     THEN seen[b] ELSE remote[b]]
    /\ UNCHANGED <<refs, index, lock, pushed, undo, runState, world>>

\* git fetch origin main:main.
ForwardMain ==
    /\ head = "work"
    /\ MayMoveMain
    /\ StrictDescendant(branch["main"], seen["main"])
    /\ branch' = [branch EXCEPT !["main"] = seen["main"]]
    /\ UNCHANGED <<head, mainUp, rescues, index, lock, seen, pushed, undo, runState, world>>

\* The undo command of a report, while nothing has happened since.
Undo ==
    /\ undo # NoUndo
    /\ lock = NoLock
    /\ ~Staged
    /\ HeadCommit = undo.target
    /\ head = IF undo.switch THEN "main" ELSE undo.on
    /\ head' = undo.on
    /\ branch' = [branch EXCEPT ![undo.on] = undo.head]
    /\ index' = [base |-> undo.head, staged |-> FALSE]
    /\ undo' = NoUndo
    /\ UNCHANGED <<mainUp, rescues, lock, seen, pushed, runState, world>>

\* rm index.lock after a run was killed.  Killed between the two halves of a
\* move it leaves an index that reads as a staged return to the old commit.
RemoveStaleLock ==
    /\ lock = Stale
    /\ Unlock
    /\ UNCHANGED <<refs, index, seen, pushed, undo, runState, world>>

\* Only a judgment reads the files, so that they change between runs is
\* enough.
Deliver(w) ==
    /\ \A r \in Runs : At(r, "off")
    /\ files' = w
    /\ UNCHANGED <<refs, index, lock, seen, remote, pushed, taken, made, undo, runState>>

RemoteAdvance(b, c) ==
    /\ c \in Theirs \ (taken \cup RemoteReach(remote))
    /\ Parent[c] = remote[b]
    /\ remote' = [remote EXCEPT ![b] = c]
    /\ UNCHANGED <<refs, index, lock, files, seen, pushed, taken, made, undo, runState>>

\* The feature branch is deleted after it was merged.
RemoteDelete ==
    /\ remote["work"] # NoCommit
    /\ (\A c \in taken : \E d \in Reach[c] :
          d \in DOMAIN Twin /\ Twin[d] \in Reach[remote["main"]]) \/ "goneRewrite" \in Faults
    /\ remote' = [remote EXCEPT !["work"] = NoCommit]
    /\ UNCHANGED <<refs, index, lock, files, seen, pushed, taken, made, undo, runState>>

\* A branch of the remote is rewritten and force-pushed.
RemoteRewrite(b) ==
    /\ (\A r \in Runs : pc[r] \in {"keep", "push"} => ~plan[r].push) \/ "lateRewrite" \in Faults
    /\ remote[b] \in DOMAIN Twin
    /\ remote' = [remote EXCEPT ![b] = Twin[remote[b]]]
    /\ taken' = (taken \cup Reach[remote[b]]) \ RemoteReach(remote')
    /\ UNCHANGED <<refs, index, lock, files, seen, pushed, made, undo, runState>>

-----------------------------------------------------------------------------
(* The specification *)

Realign(r) == LockIndex(r) \/ MoveHead(r) \/ RenameLock(r) \/ RollBack(r)
SwitchDefault(r) ==
    \/ CompareDefault(r) \/ LockDefault(r) \/ RecheckHead(r) \/ MoveDefault(r)
    \/ PointHead(r) \/ RestoreHead(r) \/ RenameDefault(r) \/ ConfigDefault(r)
Step(r) ==
    \/ Start(r) \/ BlockReason(r) \/ Judge(r) \/ CheckRemote(r) \/ Keep(r)
    \/ Push(r) \/ PushFails(r) \/ Realign(r) \/ SwitchDefault(r)

User ==
    \/ \E c \in Mine : Commit(c)
    \/ \E b \in Branches : Switch(b)
    \/ Stage \/ Unstage \/ Fetch \/ ForwardMain \/ Undo \/ RemoveStaleLock
Others ==
    \/ \E w \in Worktrees : Deliver(w)
    \/ \E b \in Branches, c \in Theirs : RemoteAdvance(b, c)
    \/ \E b \in Branches : RemoteRewrite(b)
    \/ RemoteDelete

Next == User \/ Others \/ \E r \in Runs : Step(r) \/ Kill(r)

Spec == Init /\ [][Next]_vars

-----------------------------------------------------------------------------
(* Properties *)

\* No commit of the user becomes unreachable, whatever the runs, their
\* failures and the undo commands they print do to the branches.
CommitsKept ==
    made \subseteq (UNION {Reach[branch[b]] : b \in Branches})
                     \cup (UNION {Reach[rescues[n]] : n \in 1..MaxRescues})

\* A pushed rescue never brings back to the remote what a rewrite took out.
NoRepublish == RemoteReach(remote) \cap taken = {}

\* A run moves no branch but the one it judged, and when it lets go of
\* index.lock, moved, refused or rolled back, the index is HEAD's and what
\* the user staged is still staged.
MovesWhole ==
    [][/\ \A r \in Runs, b \in Branches :
            pc[r] \in Holding /\ pc'[r] # pc[r] /\ branch'[b] # branch[b] =>
                b = IF plan[r].switch THEN "main" ELSE plan[r].on
       /\ (lock \in Runs /\ lock' = NoLock) =>
            /\ Tree[index'.base] = Tree[branch'[head']]
            /\ index'.staged = index.staged]_vars
=============================================================================
