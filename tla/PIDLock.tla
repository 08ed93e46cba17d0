------------------------------ MODULE PIDLock ------------------------------
(***************************************************************************)
(* AcquirePIDLock and its release (internal/fileutil/lock.go): a directory *)
(* with a lock.pid file that keeps the processes of one user apart, and    *)
(* the way an abandoned one is reclaimed.  Every writer of the Claude      *)
(* settings, of the AI preferences, of a component and of a sync profile   *)
(* takes one.                                                              *)
(*                                                                         *)
(* A process is its pid: one that ended may start again, which is also how *)
(* the pid comes back.  One system call is one step, and a process may be  *)
(* killed between any two.                                                 *)
(*                                                                         *)
(* A configuration admits or not:                                          *)
(*   "lateRename"  the lock moved aside is not the one that was inspected  *)
(*   "emptyPid"    lock.pid is read between its creation and its content   *)
(*   "slowStamp"   a live process takes longer than StaleAfter to write it *)
(***************************************************************************)
EXTENDS Naturals

CONSTANTS
    Pids,       \* the processes, by pid
    NoPid,      \* lock.pid is missing
    Blank,      \* lock.pid has no content yet
    Nobody,     \* no process
    Scheduled,  \* the processes that keep coming
    MaxKills,   \* bound on the processes that are killed
    Faults      \* the windows that are hit

ASSUME PIDLockAssumption ==
    /\ NoPid \notin Pids
    /\ Blank \notin Pids \cup {NoPid}
    /\ Nobody \notin Pids
    /\ Scheduled \subseteq Pids
    /\ MaxKills \in Nat
    /\ Faults \subseteq {"lateRename", "emptyPid", "slowStamp"}

VARIABLES
    lock,   \* the lock directory: {} or {lock}, with the process that made it,
            \* its lock.pid, and whether it is older than StaleAfter
    aside,  \* pids whose directory <lock>.stale.<pid> exists
    pc,     \* where each process stands; "off" when it does not run
    kills   \* processes killed so far

vars == <<lock, aside, pc, kills>>

Locks == [maker : Pids, pid : Pids \cup {NoPid, Blank}, old : BOOLEAN]
Pcs == {"off", "mkdir", "inspect", "clear", "rename", "discard", "recreate",
        "create", "stamp", "undo", "in", "unstamp", "rmdir"}

\* Between Mkdir and the end of the release the process owns what it made.
Owning == {"create", "stamp", "undo", "in", "unstamp", "rmdir"}

\* No lock, one that an earlier run left, or a bare directory of old releases.
Init ==
    /\ lock \in {{}} \cup {{[maker |-> p, pid |-> i, old |-> FALSE]} :
                             p \in Pids, i \in Pids \cup {NoPid}}
    /\ \A l \in lock : l.pid \in {l.maker, NoPid}
    /\ aside = {}
    /\ pc = [p \in Pids |-> "off"]
    /\ kills = 0

Go(p, from, to) == pc[p] = from /\ pc' = [pc EXCEPT ![p] = to]

-----------------------------------------------------------------------------
(* AcquirePIDLock *)

Start(p) ==
    /\ Go(p, "off", "mkdir")
    /\ UNCHANGED <<lock, aside, kills>>

Fresh(p) == {[maker |-> p, pid |-> NoPid, old |-> FALSE]}

Mkdir(p) ==
    /\ \/ lock = {} /\ Go(p, "mkdir", "create") /\ lock' = Fresh(p)
       \/ lock # {} /\ Go(p, "mkdir", "inspect") /\ UNCHANGED lock
    /\ UNCHANGED <<aside, kills>>

Alive(q) == pc[q] # "off"

\* Mutant: a lock without a pid is stale whatever its age.
StaleAtOnce(l) == l.pid \in Pids => ~Alive(l.pid)

\* pidLockIsStale.  An empty lock.pid is malformed; where the window is not
\* hit, a process that is writing it is found when it has, or has failed.
Stale(l) ==
    \/ l.pid = NoPid /\ l.old
    \/ l.pid = Blank /\ (pc[l.maker] \notin Owning \/ "emptyPid" \in Faults)
    \/ l.pid \in Pids /\ ~Alive(l.pid)

\* A directory that is gone by now counts as older.
Inspect(p) ==
    /\ \/ /\ \A l \in lock : Stale(l)
          /\ Go(p, "inspect", "clear")
       \/ /\ \E l \in lock : ~Stale(l)
          /\ Go(p, "inspect", "off")
    /\ UNCHANGED <<lock, aside, kills>>

\* Mutant: what an earlier process with this pid left aside stays.
ClearNothing(p) ==
    /\ Go(p, "clear", "rename")
    /\ UNCHANGED <<lock, aside, kills>>

Clear(p) ==
    /\ Go(p, "clear", "rename")
    /\ aside' = aside \ {p}
    /\ UNCHANGED <<lock, kills>>

\* rename(2) moves whatever is there now, and onto nothing but an absent
\* directory, which Clear has seen to.
Rename(p) ==
    \/ /\ lock = {}
       /\ Go(p, "rename", "recreate")
       /\ UNCHANGED <<lock, aside, kills>>
    \/ /\ lock # {}
       /\ p \notin aside
       /\ "lateRename" \in Faults \/ \A l \in lock : Stale(l)
       /\ Go(p, "rename", "discard")
       /\ lock' = {}
       /\ aside' = aside \cup {p}
       /\ UNCHANGED kills

Discard(p) ==
    /\ Go(p, "discard", "recreate")
    /\ aside' = aside \ {p}
    /\ UNCHANGED <<lock, kills>>

\* Mutant: the contender that lost clears the directory away.
RecreateUndo(p) ==
    /\ \/ lock = {} /\ Go(p, "recreate", "create") /\ lock' = Fresh(p)
       \/ lock # {} /\ Go(p, "recreate", "undo") /\ UNCHANGED lock
    /\ UNCHANGED <<aside, kills>>

Recreate(p) ==
    /\ \/ lock = {} /\ Go(p, "recreate", "create") /\ lock' = Fresh(p)
       \/ lock # {} /\ Go(p, "recreate", "off") /\ UNCHANGED lock
    /\ UNCHANGED <<aside, kills>>

\* writeLockPID writes into the directory of that name, whoever made it.
Create(p) ==
    /\ lock # {}
    /\ \/ /\ Go(p, "create", "stamp")
          /\ lock' = {[l EXCEPT !.pid = Blank] : l \in lock}
       \/ /\ Go(p, "create", "undo")
          /\ UNCHANGED lock
    /\ UNCHANGED <<aside, kills>>

Stamp(p) ==
    /\ lock # {}
    /\ Go(p, "stamp", "in")
    /\ lock' = {[l EXCEPT !.pid = p] : l \in lock}
    /\ UNCHANGED <<aside, kills>>

\* The directory was taken away, or the disk is full.
StampFails(p) ==
    /\ \/ lock = {} /\ Go(p, "create", "undo")
       \/ Go(p, "stamp", "undo")
    /\ UNCHANGED <<lock, aside, kills>>

-----------------------------------------------------------------------------
(* RemoveAll(lockDir), by the release and after a failed stamp: first
   lock.pid, then the directory.  It does not look at whose they are. *)

Release(p) ==
    /\ Go(p, "in", "unstamp")
    /\ UNCHANGED <<lock, aside, kills>>

Unstamp(p) ==
    /\ \/ Go(p, "unstamp", "rmdir")
       \/ Go(p, "undo", "rmdir")
    /\ lock' = {[l EXCEPT !.pid = NoPid, !.old = FALSE] : l \in lock}
    /\ UNCHANGED <<aside, kills>>

Rmdir(p) ==
    /\ Go(p, "rmdir", "off")
    /\ lock' = {}
    /\ UNCHANGED <<aside, kills>>

-----------------------------------------------------------------------------
Kill(p) ==
    /\ Alive(p)
    /\ kills < MaxKills
    /\ kills' = kills + 1
    /\ pc' = [pc EXCEPT ![p] = "off"]
    /\ UNCHANGED <<lock, aside>>

\* A lock without a pid outlives StaleAfter once its maker is gone.
Age ==
    /\ \E l \in lock :
          /\ l.pid = NoPid
          /\ ~l.old
          /\ pc[l.maker] \notin Owning \/ "slowStamp" \in Faults
          /\ lock' = {[l EXCEPT !.old = TRUE]}
    /\ UNCHANGED <<aside, pc, kills>>

Step(p) ==
    \/ Mkdir(p) \/ Inspect(p) \/ Clear(p) \/ Rename(p) \/ Discard(p) \/ Recreate(p)
    \/ Create(p) \/ Stamp(p) \/ StampFails(p)
    \/ Release(p) \/ Unstamp(p) \/ Rmdir(p)

Next == (\E p \in Pids : Start(p) \/ Step(p) \/ Kill(p)) \/ Age

Spec == Init /\ [][Next]_vars

\* A process that runs goes on, directories age, and launchd starts the
\* scheduled runs again and again.
Fairness ==
    /\ \A p \in Pids : WF_vars(Step(p))
    /\ \A p \in Scheduled : WF_vars(Start(p))
    /\ WF_vars(Age)

FairSpec == Spec /\ Fairness

-----------------------------------------------------------------------------
(* Properties *)

\* The variables have their types, and there is one lock directory at most:
\* Mkdir never succeeds beside another one.
TypeOK ==
    /\ lock \in {{}} \cup {{l} : l \in Locks}
    /\ aside \subseteq Pids
    /\ pc \in [Pids -> Pcs]
    /\ kills \in 0..MaxKills

\* Two processes are never inside the lock at once, whoever was killed where
\* and whatever a dead one left.
Exclusive == \A p, q \in Pids : pc[p] = "in" /\ pc[q] = "in" => p = q

\* The lock of a process that died is taken over, or gone, unless its pid
\* lives again; a leftover of an earlier reclaim does not stop it.
Abandoned(p) == pc[p] = "off" /\ \E l \in lock : l.maker = p
AbandonedReclaimed == \A p \in Pids : Abandoned(p) ~> ~Abandoned(p)

holder == IF \E p \in Pids : pc[p] = "in" THEN CHOOSE p \in Pids : pc[p] = "in"
          ELSE Nobody

Slot == INSTANCE SlotLock WITH Procs <- Pids

\* The directory protocol implements a plain lock.
RefinesLock == Slot!Spec
=============================================================================
