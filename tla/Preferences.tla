---------------------------- MODULE Preferences ----------------------------
(***************************************************************************)
(* The preference overlays of the AI policy                                *)
(* (internal/aipolicy/preferences.go): one generated file per target, in a *)
(* place where the user or the runtime may write as well, and a receipt    *)
(* that proves by content hash which files dot may replace or remove.      *)
(* Apply journals what it is about to publish, publishes, and settles the  *)
(* journal; Rollback removes what the receipt owns.                        *)
(*                                                                         *)
(* A run can stop anywhere: killed, or by a write that fails.  Only the    *)
(* lock (PIDLock; here the steps of SlotLock) keeps two runs apart, and    *)
(* nothing keeps the editor out.                                           *)
(*                                                                         *)
(* A hash stands for the content it is the hash of.                        *)
(*                                                                         *)
(* A configuration admits or not:                                          *)
(*   "latePublish"  an edit falls between the last check of a file and the *)
(*                  rename over it                                         *)
(*   "lateEdit"     an edit falls between Rollback's check and its         *)
(*                  removals                                               *)
(***************************************************************************)
EXTENDS FiniteSets

CONSTANTS
    Targets,   \* targets of the policy that have an overlay
    Contents,  \* what dot may generate for one
    Foreign,   \* what someone else writes there
    Absent,    \* no file
    None,      \* no previous hash; a target that the policy leaves alone
    NoEntry,   \* not in the receipt
    Procs,     \* runs of dot ai policy apply and rollback
    NoRun,     \* no process
    Allowed    \* what may happen of the above

ASSUME PreferencesAssumption ==
    /\ NoRun \notin Procs
    /\ {Foreign, Absent, None} \cap Contents = {}
    /\ Foreign # Absent /\ Foreign # None /\ Absent # None
    /\ NoEntry \notin [hash : Contents, prev : Contents \cup {Foreign, None}]
    /\ Allowed \subseteq {"latePublish", "lateEdit"}

VARIABLES
    file,     \* the overlay of each target
    receipt,  \* receipt.json
    phase,    \* where a run stands
    want,     \* the content its policy gives each target
    todo,     \* targets it is still to publish or remove
    checked,  \* the target checked for the last time and not yet replaced
    runner,   \* the run that holds the lock
    dropped   \* history: targets whose file was recognised by the previous
              \* hash alone when a run that does not write them dropped it

overlayVars == <<file, receipt, phase, want, todo, checked, runner, dropped>>

RunLock == INSTANCE SlotLock WITH Nobody <- NoRun, holder <- runner

Wants == [Targets -> Contents \cup {None}]
Entries == [hash : Contents, prev : Contents \cup {Foreign, None}]
Phases == {"idle", "acquire", "plan", "journal", "publish",
           "acquireRollback", "check", "remove", "leave"}

Idle == [t \in Targets |-> None]

OverlayInit ==
    /\ file = [t \in Targets |-> Absent]
    /\ receipt = [t \in Targets |-> NoEntry]
    /\ phase = [p \in Procs |-> "idle"]
    /\ want = [p \in Procs |-> Idle]
    /\ todo = [p \in Procs |-> {}]
    /\ checked = {}
    /\ runner = NoRun
    /\ dropped = {}

-----------------------------------------------------------------------------
(* Ownership *)

\* The receipt has the hash of what the file holds.
Recognised(t) ==
    receipt[t] # NoEntry /\ file[t] \in {receipt[t].hash, receipt[t].prev}

\* The status "conflict" of a target that the policy wants.
Conflict(t) == file[t] # Absent /\ ~Recognised(t)

Wanted(w) == {t \in Targets : w[t] # None}

\* The statuses "create" and "update".
Due(w) == {t \in Wanted(w) : file[t] # w[t]}

Conflicts(w) == {t \in Wanted(w) : Conflict(t)}

Entry(t, w, prev) == [hash |-> w[t], prev |-> prev]

\* Mutant: the replaced entry does not remember what the file holds.
JournalledForgetful(w, ts) ==
    [t \in Targets |-> IF t \in ts THEN Entry(t, w, None) ELSE receipt[t]]

\* The receipt with the targets ts about to be published.
Journalled(w, ts) ==
    [t \in Targets |->
        IF t \notin ts THEN receipt[t]
        ELSE Entry(t, w, IF receipt[t] = NoEntry \/ file[t] = Absent
                         THEN None ELSE file[t])]

Settled ==
    [t \in Targets |-> IF receipt[t] = NoEntry THEN NoEntry
                       ELSE [receipt[t] EXCEPT !.prev = None]]

-----------------------------------------------------------------------------
Proceed(p, from, to) == phase[p] = from /\ phase' = [phase EXCEPT ![p] = to]

\* A run forgets what it was about when it ends.
End(p) ==
    /\ want' = [want EXCEPT ![p] = Idle]
    /\ todo' = [todo EXCEPT ![p] = {}]

(* Apply *)

\* The plan outside the lock: it refuses, finds nothing to do, or goes on.
Apply(p, w) ==
    /\ Due(w) # {}
    /\ Conflicts(w) = {}
    /\ Proceed(p, "idle", "acquire")
    /\ want' = [want EXCEPT ![p] = w]
    /\ todo' = [todo EXCEPT ![p] = Due(w)]
    /\ UNCHANGED <<file, receipt, checked, runner, dropped>>

\* AcquirePIDLock does not wait.
AcquireFor(p, from, to) ==
    \/ RunLock!Enter(p) /\ Proceed(p, from, to) /\ UNCHANGED <<want, todo>>
    \/ runner # NoRun /\ Proceed(p, from, "idle") /\ End(p) /\ UNCHANGED runner

Acquire(p) ==
    /\ AcquireFor(p, "acquire", "plan") \/ AcquireFor(p, "acquireRollback", "check")
    /\ UNCHANGED <<file, receipt, checked, dropped>>

\* Mutant: the plan made outside the lock is the one that is carried out.
PlanOnce(p) ==
    /\ Proceed(p, "plan", "journal")
    /\ UNCHANGED <<file, receipt, want, todo, checked, runner, dropped>>

\* The plan is made again under the lock.
Plan(p) ==
    /\ IF Conflicts(want[p]) = {}
       THEN /\ Proceed(p, "plan", "journal")
            /\ todo' = [todo EXCEPT ![p] = Due(want[p])]
       ELSE Proceed(p, "plan", "leave") /\ UNCHANGED todo
    /\ UNCHANGED <<file, receipt, want, checked, runner, dropped>>

\* Mutant: the content that is there is taken for dot's own.
JournalUnchecked(p) ==
    /\ Proceed(p, "journal", "publish")
    /\ receipt' = Journalled(want[p], todo[p])
    /\ UNCHANGED <<file, want, todo, checked, runner, dropped>>

\* A file that has an entry is checked again; the receipt goes out first.
Journal(p) ==
    /\ IF \E t \in todo[p] : receipt[t] # NoEntry /\ Conflict(t)
       THEN Proceed(p, "journal", "leave") /\ UNCHANGED receipt
       ELSE Proceed(p, "journal", "publish") /\ receipt' = Journalled(want[p], todo[p])
    /\ UNCHANGED <<file, want, todo, checked, runner, dropped>>

\* Each file is checked once more.
PublishCheck(p, t) ==
    /\ phase[p] = "publish"
    /\ checked = {}
    /\ t \in todo[p]
    /\ IF Conflict(t)
       THEN Proceed(p, "publish", "leave") /\ UNCHANGED checked
       ELSE checked' = {t} /\ UNCHANGED phase
    /\ UNCHANGED <<file, receipt, want, todo, runner, dropped>>

\* It is replaced by a rename.
Publish(p, t) ==
    /\ phase[p] = "publish"
    /\ t \in checked
    /\ file' = [file EXCEPT ![t] = want[p][t]]
    /\ todo' = [todo EXCEPT ![p] = @ \ {t}]
    /\ checked' = {}
    /\ dropped' = dropped \ {t}
    /\ UNCHANGED <<receipt, phase, want, runner>>

\* Files that are recognised by the previous hash alone, of targets that the
\* run wrote no entry for: an earlier run did not finish them, and the policy
\* of this one has their old content, or not the target.
SetAside(p) ==
    {t \in Targets : /\ Recognised(t)
                     /\ file[t] # receipt[t].hash
                     /\ receipt[t].hash # want[p][t]}

\* Every file is out: the previous hashes are dropped, those of all entries.
Settle(p) ==
    /\ todo[p] = {}
    /\ Proceed(p, "publish", "leave")
    /\ receipt' = Settled
    /\ dropped' = dropped \cup SetAside(p)
    /\ UNCHANGED <<file, want, todo, checked, runner>>

-----------------------------------------------------------------------------
(* Rollback *)

Owned == {t \in Targets : receipt[t] # NoEntry}

Rollback(p) ==
    /\ Owned # {}
    /\ Proceed(p, "idle", "acquireRollback")
    /\ UNCHANGED <<file, receipt, want, todo, checked, runner, dropped>>

\* One foreign file stops the removal of all.
Check(p) ==
    /\ IF \E t \in Owned : Conflict(t)
       THEN Proceed(p, "check", "leave") /\ UNCHANGED todo
       ELSE Proceed(p, "check", "remove") /\ todo' = [todo EXCEPT ![p] = Owned]
    /\ UNCHANGED <<file, receipt, want, checked, runner, dropped>>

Remove(p, t) ==
    /\ phase[p] = "remove"
    /\ t \in todo[p]
    /\ file' = [file EXCEPT ![t] = Absent]
    /\ todo' = [todo EXCEPT ![p] = @ \ {t}]
    /\ dropped' = dropped \ {t}
    /\ UNCHANGED <<receipt, phase, want, checked, runner>>

Forget(p) ==
    /\ todo[p] = {}
    /\ Proceed(p, "remove", "leave")
    /\ receipt' = [t \in Targets |-> NoEntry]
    /\ UNCHANGED <<file, want, todo, checked, runner, dropped>>

-----------------------------------------------------------------------------
\* The deferred release.
Leave(p) ==
    /\ Proceed(p, "leave", "idle")
    /\ RunLock!Leave(p)
    /\ End(p)
    /\ UNCHANGED <<file, receipt, checked, dropped>>

\* A write fails, or the process is killed and its lock reclaimed.
Stop(p) ==
    /\ runner = p
    /\ phase' = [phase EXCEPT ![p] = "idle"]
    /\ RunLock!Leave(p)
    /\ End(p)
    /\ checked' = {}
    /\ UNCHANGED <<file, receipt, dropped>>

(* The editor *)

Removing(t) == \E p \in Procs : phase[p] = "remove" /\ t \in todo[p]

Edit(t) ==
    /\ "latePublish" \in Allowed \/ t \notin checked
    /\ "lateEdit" \in Allowed \/ ~Removing(t)
    /\ file' = [file EXCEPT ![t] = Foreign]
    /\ dropped' = dropped \ {t}
    /\ UNCHANGED <<receipt, phase, want, todo, checked, runner>>

Delete(t) ==
    /\ file' = [file EXCEPT ![t] = Absent]
    /\ dropped' = dropped \ {t}
    /\ UNCHANGED <<receipt, phase, want, todo, checked, runner>>

Run(p) ==
    \/ \E w \in Wants : Apply(p, w)
    \/ Acquire(p) \/ Plan(p) \/ Journal(p) \/ Settle(p)
    \/ Rollback(p) \/ Check(p) \/ Forget(p)
    \/ \E t \in Targets : PublishCheck(p, t) \/ Publish(p, t) \/ Remove(p, t)
    \/ Leave(p) \/ Stop(p)

OverlayNext ==
    \/ \E p \in Procs : Run(p)
    \/ \E t \in Targets : Edit(t) \/ Delete(t)

OverlaySpec == OverlayInit /\ [][OverlayNext]_overlayVars

-----------------------------------------------------------------------------
(* Properties *)

\* The variables have their types; the receipt never takes foreign content
\* for a previous version of dot's.
OverlayTypeOK ==
    /\ file \in [Targets -> Contents \cup {Foreign, Absent}]
    /\ receipt \in [Targets -> [hash : Contents, prev : Contents \cup {None}]
                               \cup {NoEntry}]
    /\ phase \in [Procs -> Phases]
    /\ want \in [Procs -> Wants]
    /\ todo \in [Procs -> SUBSET Targets]
    /\ checked \subseteq Targets
    /\ runner \in Procs \cup {NoRun}
    /\ dropped \subseteq Targets

\* What someone else wrote over an overlay stays until they remove it: no run,
\* nor a later one after a crash, replaces or deletes it.
ForeignKept ==
    [][\A t \in Targets :
         file[t] = Foreign /\ file'[t] # Foreign => Delete(t)]_overlayVars

\* A file that dot generated is one that dot recognises, wherever a run
\* stopped: it is never refused as a foreign edit, so the run can be retried
\* or rolled back.  Excepted are the files whose only hash a run for other
\* targets has dropped.
NoFalseConflict ==
    \A t \in Targets : file[t] \in Contents /\ t \notin dropped => Recognised(t)

\* The comment of Apply: a failed or interrupted write can be safely retried or
\* rolled back using either hash.  Every file that dot generated is recognised.
\* False, for the files that NoFalseConflict excepts.
EitherHash == \A t \in Targets : file[t] \in Contents => Recognised(t)

\* A run that finished its work has published its own policy, whatever another
\* run did before it had the lock: what differs was edited by someone else.
AppliedWhole ==
    \A p \in Procs : phase[p] = "publish" /\ todo[p] = {} =>
        \A t \in Wanted(want[p]) : file[t] \in {want[p][t], Foreign, Absent}
=============================================================================
