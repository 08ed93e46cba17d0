--------------------------- MODULE AdmissionSlots ---------------------------
(***************************************************************************)
(* One (scope, class) slot of the admission controller of `dot admit`:     *)
(* internal/admission/slots.go (Acquire, reclaimAndAcquire, Heartbeat,     *)
(* UpdateIdentity, Release) driven by internal/cli/admit_cmd.go (runAdmit) *)
(* and internal/cli/admit_run.go (runAdmittedChild).                       *)
(*                                                                         *)
(* Slots of different (scope, class) pairs are different directories and   *)
(* share nothing, so one slot and all its contenders is the whole story.   *)
(* Each element of Procs is one invocation of the wrapper.  A step is one  *)
(* system call on the shared directory (mkdir, read, rename, remove):      *)
(* everything between two such calls is local.  The read of a lease and    *)
(* the `ps` probe of the incarnation it names are one step: an incarnation *)
(* (pid plus start time) that is gone stays gone.                          *)
(*                                                                         *)
(* Time is abstracted to the two comparisons the code makes with it: Age   *)
(* marks a slot `quiet` once its stale bound has passed, AgeReclaimLock    *)
(* marks a reclaim lock "aged" once its minute has.  Faults names the      *)
(* environment behaviours beyond an ordinary crash that a run admits:      *)
(*   "suspend"      a live wrapper stops for longer than the stale bound   *)
(*                  (the laptop sleeps), so its lease expires under it     *)
(*   "lateBeat"     a heartbeat overlaps the wrapper's own Release         *)
(*   "reclaimCrash" a wrapper dies between taking and dropping the reclaim *)
(*                  lock                                                   *)
(*   "orphan"       a wrapper dies between child.Start and UpdateIdentity  *)
(*   "emptyDir"     a wrapper dies between mkdir and the lease's rename    *)
(*   "readError"    a waiter that judges the slot cannot read its lease    *)
(*   "unreadable"   nor can the reclaimer, under the reclaim lock          *)
(***************************************************************************)
EXTENDS Naturals, FiniteSets

CONSTANTS
    Procs,     \* the wrapper invocations
    MaxBeats,  \* bound on the heartbeats of one wrapper
    Faults,    \* the environment faults a run admits
    Absent,    \* no slot directory
    Empty,     \* a slot directory without a lease.json
    Nobody     \* no wrapper

FaultKinds == {"suspend", "lateBeat", "reclaimCrash", "orphan", "emptyDir", "readError",
               "unreadable"}

\* Identity of an incarnation: the wrapper that acquired, or its child.
Lease == [owner : Procs, who : {"wrapper", "child"}, beat : 0..MaxBeats]

ASSUME SlotsAssumption ==
    /\ MaxBeats \in Nat
    /\ Faults \subseteq FaultKinds
    /\ Absent \notin Lease
    /\ Empty \notin Lease
    /\ Absent # Empty
    /\ Nobody \notin Procs

VARIABLES
    slot,     \* Absent, Empty or the Lease inside the slot directory
    quiet,    \* the stale bound has passed since the slot was last written
    rlock,    \* the ".reclaim" directory: "free", "held" or "aged"
    pc,       \* where each wrapper stands; "gone" once its process has ended
    child,    \* each wrapper's workload: "none", "running" or "exited"
    judged,   \* the lease a waiter judged stale (Empty: none was readable)
    attempt,  \* attempts of a waiter on the reclaim lock
    mine,     \* Slot.lease: the lease a wrapper believes it holds
    beating   \* a heartbeat has passed its check and not written yet

disk == <<slot, quiet, rlock>>
waiting == <<judged, attempt>>
vars == <<slot, quiet, rlock, pc, child, judged, attempt, mine, beating>>

ReclaimPcs == {"verify", "unlock", "remove", "remkdir", "rewrite", "unlockheld"}
Pcs == {"mkdir", "write", "judge", "wait", "rlock", "rmlock"} \cup ReclaimPcs
         \cup {"held", "bind", "bindwrite", "run", "release", "rm", "exit", "gone"}

HasLease == slot \notin {Absent, Empty}
SameLease(a, b) == a.owner = b.owner /\ a.who = b.who
OwnSlot(p) == HasLease /\ mine[p] # Empty /\ SameLease(slot, mine[p])
FirstLease(p) == [owner |-> p, who |-> "wrapper", beat |-> 0]
AsChild(l) == [owner |-> l.owner, who |-> "child", beat |-> l.beat]
Beaten(l) == [owner |-> l.owner, who |-> l.who, beat |-> l.beat + 1]

\* Mutant: the liveness probe looks at the wrapper, never at its child.
IncarnationLiveWrapperOnly(l) == pc[l.owner] # "gone"

\* ProcessStartMatches for the incarnation a lease names.
IncarnationLive(l) ==
    IF l.who = "child" THEN child[l.owner] = "running" ELSE pc[l.owner] # "gone"

Goto(p, l) == pc' = [pc EXCEPT ![p] = l]

Init ==
    /\ slot = Absent
    /\ quiet = FALSE
    /\ rlock = "free"
    /\ pc = [p \in Procs |-> "mkdir"]
    /\ child = [p \in Procs |-> "none"]
    /\ judged = [p \in Procs |-> Empty]
    /\ attempt = [p \in Procs |-> 0]
    /\ mine = [p \in Procs |-> Empty]
    /\ beating = [p \in Procs |-> FALSE]

-----------------------------------------------------------------------------
(* Acquire *)

\* os.Mkdir(dir): the atomic gate.
Mkdir(p) ==
    /\ pc[p] = "mkdir"
    /\ \/ /\ slot = Absent
          /\ slot' = Empty
          /\ quiet' = FALSE
          /\ Goto(p, "write")
       \/ /\ slot # Absent
          /\ Goto(p, "judge")
          /\ UNCHANGED <<slot, quiet>>
    /\ UNCHANGED <<rlock, child, waiting, mine, beating>>

\* writeLease after a won mkdir: temp file plus rename at the slot's path.  It
\* fails without a directory, or on any I/O error; the slot is then removed.
WriteLease(p) ==
    /\ pc[p] = "write"
    /\ \/ /\ slot # Absent
          /\ slot' = FirstLease(p)
          /\ quiet' = FALSE
          /\ mine' = [mine EXCEPT ![p] = FirstLease(p)]
          /\ Goto(p, "held")
       \/ /\ Goto(p, "rm")
          /\ UNCHANGED <<slot, quiet, mine>>
    /\ UNCHANGED <<rlock, child, waiting, beating>>

\* slotHolder says stale: the judged lease is remembered, none if it could not
\* be read and the directory is old.
JudgeStale(p) ==
    /\ pc[p] = "judge"
    /\ \/ /\ slot = Absent \/ (quiet /\ (slot = Empty \/ "readError" \in Faults))
          /\ judged' = [judged EXCEPT ![p] = Empty]
       \/ /\ HasLease
          /\ quiet
          /\ ~IncarnationLive(slot)
          /\ judged' = [judged EXCEPT ![p] = slot]
    /\ attempt' = [attempt EXCEPT ![p] = 0]
    /\ Goto(p, "rlock")
    /\ UNCHANGED <<disk, child, mine, beating>>

\* slotHolder says busy: fresh, alive, or a ps probe that failed.
JudgeBusy(p) ==
    /\ pc[p] = "judge"
    /\ slot # Absent
    /\ slot = Empty => ~quiet
    /\ Goto(p, "wait")
    /\ UNCHANGED <<disk, child, waiting, mine, beating>>

\* runAdmit's wait loop: sleep and try again, or defer at the deadline.  An
\* I/O error of a waiter, which holds nothing, ends it as a deferral does.
Retry(p) ==
    /\ pc[p] = "wait"
    /\ Goto(p, "mkdir")
    /\ UNCHANGED <<disk, child, waiting, mine, beating>>

GiveUp(p) ==
    /\ pc[p] = "wait"
    /\ Goto(p, "gone")
    /\ UNCHANGED <<disk, child, waiting, mine, beating>>

-----------------------------------------------------------------------------
(* reclaimAndAcquire *)

\* Mutant: a reclaim lock left behind is honoured for ever.
TakeReclaimLockNoBound(p) ==
    /\ pc[p] = "rlock"
    /\ rlock' = "held"
    /\ Goto(p, IF rlock = "free" THEN "verify" ELSE "wait")
    /\ UNCHANGED <<slot, quiet, child, waiting, mine, beating>>

\* os.Mkdir(lockPath), and the age of an existing lock.
TakeReclaimLock(p) ==
    /\ pc[p] = "rlock"
    /\ \/ /\ rlock = "free"
          /\ rlock' = "held"
          /\ Goto(p, "verify")
       \/ /\ rlock = "held"
          /\ Goto(p, "wait")
          /\ UNCHANGED rlock
       \/ /\ rlock = "aged"
          /\ Goto(p, "rmlock")
          /\ UNCHANGED rlock
    /\ UNCHANGED <<slot, quiet, child, waiting, mine, beating>>

\* os.Remove of a lock judged abandoned: whatever lock is there now goes.
RemoveStaleLock(p) ==
    /\ pc[p] = "rmlock"
    /\ rlock' = "free"
    /\ attempt' = [attempt EXCEPT ![p] = 1]
    /\ Goto(p, IF attempt[p] = 0 THEN "rlock" ELSE "wait")
    /\ UNCHANGED <<slot, quiet, child, judged, mine, beating>>

\* Mutant: the judgment is not repeated under the reclaim lock.
StillStaleNoRecheck(p) == HasLease

\* reverifyStale: the very lease that was judged, still expired, still dead; or
\* a lease that still cannot be read, in a directory still as old.
StillStale(p) ==
    /\ HasLease
    /\ quiet
    /\ \/ judged[p] = slot /\ ~IncarnationLive(slot)
       \/ judged[p] = Empty /\ "unreadable" \in Faults

\* A failed probe aborts the reclaim as any change does.
Verify(p) ==
    /\ pc[p] = "verify"
    /\ \/ StillStale(p) /\ Goto(p, "remove")
       \/ Goto(p, "unlock")
    /\ UNCHANGED <<disk, child, waiting, mine, beating>>

\* os.RemoveAll(dir): whatever slot is there now goes.
RemoveSlot(p) ==
    /\ pc[p] = "remove"
    /\ slot' = Absent
    /\ quiet' = FALSE
    /\ Goto(p, "remkdir")
    /\ UNCHANGED <<rlock, child, waiting, mine, beating>>

\* os.Mkdir(dir) again: a newcomer's plain mkdir can win here.
Remkdir(p) ==
    /\ pc[p] = "remkdir"
    /\ \/ /\ slot = Absent
          /\ slot' = Empty
          /\ quiet' = FALSE
          /\ Goto(p, "rewrite")
       \/ /\ slot # Absent
          /\ Goto(p, "unlock")
          /\ UNCHANGED <<slot, quiet>>
    /\ UNCHANGED <<rlock, child, waiting, mine, beating>>

\* writeLease under the reclaim lock; on failure the lock goes, then the slot.
Rewrite(p) ==
    /\ pc[p] = "rewrite"
    /\ \/ /\ slot # Absent
          /\ slot' = FirstLease(p)
          /\ quiet' = FALSE
          /\ mine' = [mine EXCEPT ![p] = FirstLease(p)]
          /\ Goto(p, "unlockheld")
          /\ UNCHANGED rlock
       \/ /\ rlock' = "free"
          /\ Goto(p, "rm")
          /\ UNCHANGED <<slot, quiet, mine>>
    /\ UNCHANGED <<child, waiting, beating>>

\* release(): the reclaim lock is dropped, on the way out or into the slot.
DropReclaimLock(p) ==
    /\ pc[p] \in {"unlock", "unlockheld"}
    /\ rlock' = "free"
    /\ Goto(p, IF pc[p] = "unlock" THEN "wait" ELSE "held")
    /\ UNCHANGED <<slot, quiet, child, waiting, mine, beating>>

-----------------------------------------------------------------------------
(* The held slot: re-gate, workload, heartbeat, release *)

\* The second gate, the uncovered-work scan or child.Start says no.
DeferHeld(p) ==
    /\ pc[p] = "held"
    /\ Goto(p, "release")
    /\ UNCHANGED <<disk, child, waiting, mine, beating>>

\* child.Start: the workload runs in its own process group.
StartChild(p) ==
    /\ pc[p] = "held"
    /\ child' = [child EXCEPT ![p] = "running"]
    /\ Goto(p, "bind")
    /\ UNCHANGED <<disk, waiting, mine, beating>>

KillChild(p) ==
    /\ child' = [child EXCEPT ![p] = "exited"]
    /\ Goto(p, "release")

\* UpdateIdentity reads and compares; a lost slot or a failed ps kills the child.
BindCheck(p) ==
    /\ pc[p] = "bind"
    /\ \/ OwnSlot(p) /\ Goto(p, "bindwrite") /\ UNCHANGED child
       \/ KillChild(p)
    /\ UNCHANGED <<disk, waiting, mine, beating>>

\* Mutant: the identity update stays in memory and is never written.
BindWriteMemoryOnly(p) ==
    /\ pc[p] = "bindwrite"
    /\ mine' = [mine EXCEPT ![p] = AsChild(@)]
    /\ Goto(p, "run")
    /\ UNCHANGED <<disk, child, waiting, beating>>

\* UpdateIdentity writes the lease in the child's name.  A failed write kills
\* the child, but the in-memory lease has already taken the child's identity.
BindWrite(p) ==
    /\ pc[p] = "bindwrite"
    /\ mine' = [mine EXCEPT ![p] = AsChild(@)]
    /\ \/ /\ slot # Absent
          /\ slot' = AsChild(mine[p])
          /\ quiet' = FALSE
          /\ Goto(p, "run")
          /\ UNCHANGED child
       \/ /\ KillChild(p)
          /\ UNCHANGED <<slot, quiet>>
    /\ UNCHANGED <<rlock, waiting, beating>>

\* The heartbeat goroutine: Heartbeat reads and compares.
BeatPcs == IF "lateBeat" \in Faults THEN {"run", "release", "rm"} ELSE {"run"}

BeatCheck(p) ==
    /\ pc[p] \in BeatPcs
    /\ ~beating[p]
    /\ mine[p] # Empty
    /\ mine[p].who = "child" /\ mine[p].beat < MaxBeats
    /\ OwnSlot(p)
    /\ beating' = [beating EXCEPT ![p] = TRUE]
    /\ UNCHANGED <<disk, pc, child, waiting, mine>>

\* Heartbeat writes; its error (no directory, I/O) is dropped by the caller.
BeatWrite(p) ==
    /\ pc[p] # "gone"
    /\ beating[p]
    /\ beating' = [beating EXCEPT ![p] = FALSE]
    /\ mine' = [mine EXCEPT ![p] = Beaten(@)]
    /\ \/ UNCHANGED <<slot, quiet>>
       \/ slot # Absent /\ slot' = Beaten(mine[p]) /\ quiet' = FALSE
    /\ UNCHANGED <<rlock, pc, child, waiting>>

\* The workload ends by itself, whether or not its wrapper is still there.
ChildExit(p) ==
    /\ child[p] = "running"
    /\ child' = [child EXCEPT ![p] = "exited"]
    /\ UNCHANGED <<disk, pc, waiting, mine, beating>>

\* child.Wait returns; closing stopHB does not wait for a heartbeat under way.
WaitChild(p) ==
    /\ pc[p] = "run"
    /\ child[p] = "exited"
    /\ "lateBeat" \in Faults \/ ~beating[p]
    /\ Goto(p, "release")
    /\ UNCHANGED <<disk, child, waiting, mine, beating>>

\* Release reads and compares: a lease that is there and not ours is left, but
\* one that cannot be read is removed.
ReleaseCheck(p) ==
    /\ pc[p] = "release"
    /\ \/ Goto(p, IF OwnSlot(p) THEN "rm" ELSE "gone")
       \/ HasLease /\ Goto(p, "rm")
    /\ UNCHANGED <<disk, child, waiting, mine, beating>>

\* os.RemoveAll(sl.dir); the process, heartbeat goroutine included, ends after.
ReleaseRemove(p) ==
    /\ pc[p] = "rm"
    /\ slot' = Absent
    /\ quiet' = FALSE
    /\ Goto(p, "exit")
    /\ UNCHANGED <<rlock, child, waiting, mine, beating>>

Exit(p) ==
    /\ pc[p] = "exit"
    /\ Goto(p, "gone")
    /\ UNCHANGED <<disk, child, waiting, mine, beating>>

-----------------------------------------------------------------------------
(* The environment: crashes and the clock *)

CrashAllowed(p) ==
    /\ pc[p] \in ReclaimPcs => "reclaimCrash" \in Faults
    /\ pc[p] \in {"bind", "bindwrite"} => "orphan" \in Faults
    /\ pc[p] \in {"write", "rewrite"} => "emptyDir" \in Faults

\* SIGKILL of a wrapper: its workload keeps running.
Crash(p) ==
    /\ pc[p] # "gone"
    /\ CrashAllowed(p)
    /\ Goto(p, "gone")
    /\ UNCHANGED <<disk, child, waiting, mine, beating>>

\* A wrapper with a bound workload refreshes its lease before it expires.
KeptFresh ==
    /\ HasLease
    /\ slot.who = "child"
    /\ pc[slot.owner] # "gone"

Age ==
    /\ slot # Absent
    /\ ~quiet
    /\ KeptFresh => "suspend" \in Faults
    /\ quiet' = TRUE
    /\ UNCHANGED <<slot, rlock, pc, child, waiting, mine, beating>>

\* A minute after the mkdir of a lock whose reclaimer is gone, or suspended.
AgeReclaimLock ==
    /\ rlock = "held"
    /\ \/ \A p \in Procs : pc[p] \notin ReclaimPcs
       \/ "suspend" \in Faults
    /\ rlock' = "aged"
    /\ UNCHANGED <<slot, quiet, pc, child, waiting, mine, beating>>

Reclaim(p) ==
    \/ TakeReclaimLock(p) \/ RemoveStaleLock(p) \/ Verify(p) \/ RemoveSlot(p)
    \/ Remkdir(p) \/ Rewrite(p) \/ DropReclaimLock(p)

Hold(p) ==
    \/ DeferHeld(p) \/ StartChild(p) \/ BindCheck(p) \/ BindWrite(p)
    \/ BeatCheck(p) \/ BeatWrite(p) \/ WaitChild(p)
    \/ ReleaseCheck(p) \/ ReleaseRemove(p) \/ Exit(p)

Acquire(p) ==
    \/ Mkdir(p) \/ WriteLease(p) \/ JudgeStale(p) \/ JudgeBusy(p)
    \/ Retry(p) \/ GiveUp(p)

Next ==
    \/ \E p \in Procs : Acquire(p) \/ Reclaim(p) \/ Hold(p) \/ ChildExit(p) \/ Crash(p)
    \/ Age
    \/ AgeReclaimLock

Spec == Init /\ [][Next]_vars

\* Live wrappers are scheduled, workloads end, time passes, a ps probe does
\* not fail for ever.
Fairness ==
    /\ \A p \in Procs :
         /\ WF_vars(Acquire(p) \/ Reclaim(p) \/ Hold(p))
         /\ WF_vars(ChildExit(p))
         /\ SF_vars(JudgeStale(p))
         /\ SF_vars(Verify(p) /\ pc'[p] = "remove")
    /\ WF_vars(Age)
    /\ WF_vars(AgeReclaimLock)

FairSpec == Spec /\ Fairness

-----------------------------------------------------------------------------
(* Properties *)

\* Every variable keeps the values the code can give it.
TypeOK ==
    /\ slot \in Lease \cup {Absent, Empty}
    /\ quiet \in BOOLEAN
    /\ rlock \in {"free", "held", "aged"}
    /\ pc \in [Procs -> Pcs]
    /\ child \in [Procs -> {"none", "running", "exited"}]
    /\ judged \in [Procs -> Lease \cup {Empty}]
    /\ attempt \in [Procs -> {0, 1}]
    /\ mine \in [Procs -> Lease \cup {Empty}]
    /\ beating \in [Procs -> BOOLEAN]

\* The wrapper stands between winning a mkdir and giving the slot back.
HolderPcs == {"write", "rewrite", "unlockheld", "held", "bind", "bindwrite",
              "run", "release", "rm"}

Bound(p) == child[p] = "running" /\ mine[p] # Empty /\ mine[p].who = "child"

\* A live wrapper, or the workload its lease was bound to, is inside the slot.
InSlot(p) == pc[p] \in HolderPcs \/ Bound(p)

\* As InSlot, counting every workload still running.
Admitted(p) == InSlot(p) \/ child[p] = "running"

\* Two wrappers are never inside the slot together: neither two waiters that
\* judged the same lease stale, nor a reclaimer and the owner it judged dead
\* (slots.go, Acquire and reclaimAndAcquire).
SlotExclusive == \A p, q \in Procs : InSlot(p) /\ InSlot(q) => p = q

\* "One heavy slot per repo": at most one admission is in progress, workloads
\* that outlived a killed wrapper included (admit_run.go, runAdmittedChild).
WorkExclusive == \A p, q \in Procs : Admitted(p) /\ Admitted(q) => p = q

\* A workload bound to the slot stays visible: while it runs, wrapper alive or
\* killed, the lease on disk names it, so a waiter's ps probe can find it.
WorkloadLeased ==
    \A p \in Procs : Bound(p) => HasLease /\ slot.owner = p /\ slot.who = "child"

\* While its wrapper lives, nobody but its owner removes or overwrites a lease:
\* no reclaim, no late heartbeat and no late release of somebody else does.
LeaseKept ==
    [][\A p \in Procs :
         HasLease /\ slot.owner = p /\ pc'[p] \in HolderPcs =>
             HasLease' /\ slot'.owner = p]_vars

Abandoned == HasLease /\ ~Admitted(slot.owner)

\* A slot left behind by a crashed wrapper whose workload has ended is freed,
\* as long as somebody keeps asking for it (slots.go, slotHolder).
AbandonedFreed == Abandoned ~> (~Abandoned \/ \A q \in Procs : pc[q] = "gone")

\* A slot directory without a readable lease "is reclaimable [...] after the
\* slot directory itself has gone quiet past the stale bound" (slots.go:316).
\* It is not: with "emptyDir" this fails, since reverifyStale refuses the
\* reclaim of a slot without lease.json (slots.go:277).
EmptyFreed ==
    (slot = Empty /\ quiet) ~> (slot # Empty \/ \A q \in Procs : pc[q] = "gone")

\* The abstract holder is the one wrapper inside the slot, if any.
Holder == IF \E p \in Procs : Admitted(p) THEN CHOOSE p \in Procs : Admitted(p)
                                        ELSE Nobody

Abstract == INSTANCE SlotLock WITH holder <- Holder

\* Every step of the slot protocol is an Enter, a Leave or a stutter of the
\* abstract lock: a slot changes hands only through free (slots.go, Acquire).
RefinesLock == Abstract!Spec
=============================================================================
