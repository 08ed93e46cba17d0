# TLA+ models of `dot`

`dot` (this repository) sets up and maintains a developer's Macs. Most of its
code is sequential and idempotent: it renders dotfiles, merges settings files
and installs tools. A smaller part coordinates processes and machines that work
at the same time on the same files, and that part is what this directory
models: the admission slots that let one heavy job run per repository and the
pressure gate before them, the peer sync that exchanges a workspace and host
files between two machines, the coordinator role that decides which of the two
may run it, the mirror that a cloud client changes on its own, the PID lock that
every writer takes, the files that dot writes next to programs that know
nothing of that lock, and the Git repositories whose HEAD it moves after the
files that peer sync brought.

The modules are checked with TLC on small instances; the properties that matter
most are proved with TLAPS for every value of the constants.

## 1. Inventory

State, operations and hard behaviour of each component. `PROJECT.json` lists
every component with its files, its status and the hazards with their lines.

| Component (package) | State it keeps | Operations | What is hard |
| --- | --- | --- | --- |
| admission slots (`admission/slots.go`) | one directory per (class, scope) with `lease.json`; a `.reclaim` lock directory beside it | Acquire, reclaim, Heartbeat, UpdateIdentity, Release | many processes, no daemon; crashes anywhere; check-then-act on the file system; leases that expire under a live owner |
| `dot admit` (`cli/admit_cmd.go`, `admit_run.go`) | the child and the heartbeat goroutine | gate, wait, re-gate, run, release | a killed wrapper leaves its child running; a heartbeat overlaps the release |
| admission gate (`admission/pressure.go`, `slots.go`, `prebuilt.go`) | `history.json`, `history.lock`, notify marks | sample, decide, recover, claim a notification | hysteresis over several invocations; a lock with an age bound; O_EXCL claims and their sweep |
| peer sync (`syncer/peer_reconcile.go`, `peer_commands.go`, `tombstone.go`) | two trees, `.sync-conflicts`, `baseline.manifest`, its target marker, `state.yaml` | tombstones, inventories, three-way plan, pull, delete passes, revalidation, push, commit | users edit both trees meanwhile; a run can stop between any two files; one-way runs; deletions against a baseline |
| peer coordinator (`syncer/peer_handover.go`, `owner.go`) | owner, epoch, fence flag, scheduler, replica with a generation, on both machines | fence, recheck, adopt, demote, handover, takeover, replica push | two machines that both believe to be coordinator; half-done switches; stale replicas |
| peer home paths (`syncer/peer_home_tracked.go`, `peer_host_merge.go`) | a second baseline, the operator's list; settings files of apps on both machines | tracked pass, additive pass, merge, create-only pass | the same engine with other checks; a list that changes under a run; apps that save a whole file from memory |
| workspace mirror (`syncer/sync.go`, `pull.go`, `push_plan.go`, `intake.go`, `unsupported_names.go`) | local tree, cloud mirror, baseline, import manifest, conflict copies, last push | push, pull, intake, fetch, conflict resolution | a target that a cloud client changes and evicts on its own; rsync exits that mean different things; a baseline rebuilt from a walk |
| watchdog (`watchdog/*`) | process samples, pass lock, alert state | sample, judge, reap, alert | PID reuse between judging and killing |
| PID lock and atomic writes (`fileutil/*`) | a lock directory with `lock.pid`, temp files | acquire, reclaim, release, write and rename | several processes take over one stale lock; pids that come back |
| Claude settings (`claudecfg`) | `settings.json`, its lock | `Mutate` | Claude Code and editors write it without the lock |
| AI preferences (`aipolicy/preferences.go`) | overlay files, a receipt of content hashes | plan, apply, rollback | crashes between files; files that somebody else edited |
| Git realign (`syncer/gitstate.go`, `gitrescue.go`) | HEAD, branches, the index with `index.lock`, tracking refs; the remote | judge, move, rescue branch, push, switch, rollback | git of the user, peer sync and another Mac act under it; a rewritten remote; two or three refs that move together |
| AI schedule, sessions, handoff; settings of other tools; secrets and snapshots; tunnel; guard; modules; config; templates; ui; remaining cli | files of one user | one-shot commands | little concurrency; mostly formats of third-party files |

How they interact. `dot admit` calls the gate, then the slots; the slots ask the
watchdog's `ProcessStartMatches` whether the process a lease names still lives.
`dot peer sync` takes the run lock (a PID lock), asks the peer for its status
over ssh (fence), runs the workspace transaction, the host-path passes, commits
the baseline and pushes a replica; a handover runs a peer sync and moves the
ownership. The mirror and the peer share the sync store, filters and manifests.
The sync runs, `claudecfg`, the preferences and the component activation each
take a PID lock of their own; it binds dot, never an editor or an app. Peer sync
carries no `.git`: `dot peer git realign` follows it, with git's `index.lock`.

What makes each correct, in one line each:

- slots: never two workloads in one slot, no lease of a live owner touched, an
  abandoned slot is freed;
- gate: one evaluation at a time, no admission before the recovery time, one
  notification per episode;
- peer sync: no edit lost, deletions travel and stick, nothing is deleted that
  nobody deleted, the trees converge;
- coordinator: at most one machine transfers at a time, a stale replica is never
  installed, a half-done switch can be completed;
- host files: the same for the tracked paths, whoever lists and unlists them; an
  entry of a merged file is never dropped;
- mirror: no content is destroyed, the baseline proves the workspace's own files
  and nothing else, `last_push` is honest;
- locks: one holder, an abandoned one is taken over; settings and preferences: no
  edit lost, a foreign file never touched;
- Git realign: no commit lost, nothing that a rewrite took out published again,
  HEAD and the index moved together;
- watchdog: only the judged process is killed.

## 2. Plan

| Order | Module | Models | Composes with | State |
| --- | --- | --- | --- | --- |
| 1 | `SlotLock`, `AdmissionSlots`, `MCAdmissionSlots`, `AdmissionSlotsProofs` | the slot protocol, its abstract lock, proofs | | done |
| 2 | `PeerReconcile`, `PeerSync`, `MCPeerSync`, `PeerSyncProofs` | the three-way plan and the workspace transaction | | done |
| 3 | `PeerOwner`, `MCPeerOwner`, `PeerOwnerProofs` | owner, epochs, fence, recheck, adopt, demotion, takeover, handover, replica | with `PeerSync`'s run as one abstract transfer | done |
| 4 | `AdmissionGate`, `MCAdmissionGate`, `AdmissionGateProofs` | history lock, hysteresis, notify claims | in front of `AdmissionSlots` | done |
| 5 | `PIDLock`, `LockedFilesProofs` | stale-lock takeover by renaming aside | implements `SlotLock`, on which the next two rest | done |
| 6 | `ClaudeSettings`, `Preferences`, `MCLockedFiles`, `LockedFilesProofs` | read-modify-write beside foreign writers; journalled writes | `SlotLock` for their locks | done |
| 7 | `MirrorPlan`, `MirrorSync`, `MCMirrorSync`, `MirrorSyncProofs` | push, pull, intake and fetch against a cloud target | | done |
| 8 | `PeerHome`, `HostMerge`, their MC modules, `HostPathsProofs` | the host paths | `PeerReconcile` for the tracked pass | done |
| 9 | `GitRealign`, `MCGitRealign`, `GitRealignProofs` | judgment, move, rescue and switch of one repository | | done; submodules planned |
| 10 | claude-mem sync, snapshot rotation, activation, the watchdog pass | | | planned |

Abstract specifications: `SlotLock`, a lock entered only when free, which
`AdmissionSlots` and `PIDLock` implement and `ClaudeSettings` and `Preferences`
use; `PeerReconcile` and `MirrorPlan`, the decisions as pure operators.
Still worth stating: a role with one writer and a rising term for `PeerOwner`.

Five statements of the repository's documentation or comments are stated as
properties that the code does not keep: `PeerCreationsKept`, which the run
`peer_recreated` finds violated, and `OneAlert`, `BootstrapAdditive`,
`EditsBackedUp` and `EitherHash`, which no run checks. The sections below say how
each fails and which configuration shows the trace.

Every safety property that a run finds to hold has a theorem. Worth proving next:
that `PeerOwner` implements that abstract role, and the theorems of `GitRealign`
with several runs at once where one run is assumed now. A liveness property worth
adding: the scheduled run of a superseded coordinator demotes it in the end.

`LockedFilesProofs` and `HostPathsProofs` each prove about state machines that
share nothing but the subject; that is why definitions of `ClaudeSettings`,
`Preferences` and `HostMerge` carry names of their own (`MutateInit`,
`OverlayNext`, `mergeVars`).

## 3. Admission slots

### What is modelled

One (scope, class) slot and any number of wrapper processes `Procs`. Slots of
different pairs are different directories and share nothing.

| TLA+ | Code |
| --- | --- |
| `slot` (`Absent`, `Empty` or a lease) | the slot directory and its `lease.json` |
| `rlock` | the `.reclaim` directory (`free`, `held`, `aged`: past its minute) |
| `quiet` | the lease's deadline, or the directory's stale bound, has passed |
| `pc[p]`, `child[p]` | where the wrapper stands; its workload |
| `judged[p]`, `attempt[p]` | `reclaimAndAcquire`'s `judged` and loop counter |
| `mine[p]`, `beating[p]` | `Slot.lease`; a heartbeat between its read and its write |
| `Mkdir`, `WriteLease`, `JudgeStale`, `JudgeBusy`, `Retry`, `GiveUp` | `Acquire`, `slotHolder`, the wait loop of `runAdmit` |
| `TakeReclaimLock` ... `DropReclaimLock` | `reclaimAndAcquire` and `reverifyStale`, one system call per step |
| `StartChild`, `BindCheck`, `BindWrite`, `BeatCheck`, `BeatWrite`, `WaitChild`, `ReleaseCheck`, `ReleaseRemove` | `runAdmittedChild`, `UpdateIdentity`, `Heartbeat`, `Release` |
| `Crash`, `ChildExit`, `Age`, `AgeReclaimLock` | the environment |

A step is one system call on the shared directory. Two things are one step: the
read of a lease with the `ps` probe of the process it names (an incarnation, a
pid with its start time, that is gone stays gone), and a temp file with its
rename. I/O errors are a nondeterministic branch of the step that can fail:
`ReleaseCheck` goes on to the removal when it cannot read the lease
(`slots.go:394-397`), as the code does. A lease that cannot be read where it is
judged is a fault, since the code then goes by the age of the directory.

The lease's identity is its wrapper and whether it names the wrapper or the
child; `beat` distinguishes refreshed leases up to `MaxBeats`. Time is the two
comparisons the code makes. A wrapper that runs its heartbeat does not let its
lease expire (interval 30 s, bound 60 s) unless the machine is suspended, and a
reclaim takes less than its minute unless the machine is suspended.

`Faults` names the environment behaviours beyond an ordinary crash. With none,
wrappers may still be killed at every other point.

| Fault | Without it | What it breaks when admitted |
| --- | --- | --- |
| `suspend` | a live wrapper keeps its lease fresh | `Release` that was suspended between its check and its `RemoveAll` removes the next owner's slot (`slots.go:389-397`), so `LeaseKept` and `SlotExclusive` |
| `lateBeat` | a heartbeat never overlaps the release | the heartbeat writes over the next owner's lease (`slots.go:356-361`; closing `stopHB` does not wait), so `LeaseKept` |
| `reclaimCrash` | no reclaimer dies with the reclaim lock | with four wrappers, `SlotExclusive`: two waiters that both found the abandoned reclaim lock old; the slower one removes the faster one's new lock (`slots.go:228`), and both reclaim, although `slots.go:202-204` says a second reclaimer can never interleave |
| `orphan` | no wrapper dies between `child.Start` and `UpdateIdentity` | a workload no lease names: `WorkExclusive` |
| `emptyDir` | no wrapper dies between `mkdir` and the lease's rename | the liveness property `EmptyFreed`: a directory without `lease.json` is never reclaimed, because `slotHolder` judges it stale and `reverifyStale` refuses it when the lease does not exist (`slots.go:277`), although `slots.go:316` says it is reclaimable once it has gone quiet; the safety properties hold with it (`slots_safety`) |
| `readError` | a lease can be read where a waiter judges it | nothing: once the directory is past its bound the slot is judged as one without a lease (`slots.go:315-328`), and the recheck, which can read it, refuses (`slots.go:292-294`); admitted in `slots_safety` |
| `unreadable` | a lease can be read under the reclaim lock | with `readError`, all five of `slots_safety`: the recheck upholds a judgment without a lease while the lease stays unreadable and the directory quiet (`slots.go:280-290`), although the owner's workload may still run |

### What is checked

- `SlotExclusive`: two wrappers are never inside the slot together, counting a
  workload its lease was bound to. The hazard is two waiters that judged the
  same lease stale, and a reclaimer racing a newcomer's plain `mkdir`.
- `WorkExclusive`: the same for every workload, also one that outlived a wrapper
  killed before the binding; holds without `orphan`.
- `WorkloadLeased`: a bound workload is named by the lease on disk as long as it
  runs.
- `LeaseKept`: no step removes or overwrites the lease of another live wrapper.
- `RefinesLock`: every step is `Enter`, `Leave` or a stutter of `SlotLock`, with
  `holder` the admitted wrapper: the slot changes hands only through free.
- `AbandonedFreed`: a lease whose wrapper and workload are gone disappears, as
  long as somebody keeps asking.

| Run | Instance | Shows |
| --- | --- | --- |
| `slots_safety` | 3 wrappers, `emptyDir` and `readError` | the four safety properties and the refinement |
| `slots_liveness` | 3 wrappers, `reclaimCrash` and `orphan`, no heartbeats | `AbandonedFreed` |

Bounds: three wrappers are an owner and two competing waiters, which is what a
reclaim race needs, or a dead owner, a dead reclaimer and the waiter that has to
clear up after both (`slots_liveness`); two reclaimers after a dead one would be
four. One heartbeat is enough to make a judged lease differ
from the current one.

Fairness (`slots_liveness`): a live wrapper is scheduled
(weak fairness of its steps), workloads end, the clock passes (`Age`,
`AgeReclaimLock`), and a `ps` probe does not fail every time (strong fairness of
the stale verdicts). A wrapper that gives up is a legal end, so the properties
say "or everybody is gone". `CHECK_DEADLOCK FALSE`: every wrapper ends.

### What is proved

`AdmissionSlotsProofs`, for every `Procs`, `MaxBeats` and `Faults`:

- `TypeCorrect`: `Spec => []TypeOK`, no further assumption.
- `SlotMutex`, `WorkloadVisible`, `LeaseSafe`: `SlotExclusive`,
  `WorkloadLeased` and `LeaseKept` under `Disciplined`, the absence of `suspend`,
  `lateBeat`, `reclaimCrash` and `unreadable`; `orphan`, `emptyDir` and `readError`
  are allowed.
- `WorkMutex`: `WorkExclusive` if besides no wrapper is killed unbound.

The properties are not inductive. The strengthening says who may be where: at
most one process is past the reclaim lock and the lock is held exactly then; a
process inside the slot owns the lease on disk, or the directory is the empty
one it made; a process about to remove a slot after the recheck has in front of
it a lease whose owner is dead or the slot of nobody, also when it was judged by
the age of the directory alone; a lease in a child's name
stays while the child runs. The recheck under the reclaim lock is what makes
the step from `verify` to `remove` preserve it, and the identity check is what
makes `Release` preserve it.

`Refines`: under the hypotheses of `WorkMutex`, `Spec => RefinesLock`. The
mapping (`Holder`, in `AdmissionSlots`) is the one wrapper that is admitted, in
the slot or with a bound workload running, and `Nobody` without one. The step
simulation needs both sides of a step to satisfy `WorkExclusive`: then a wrapper
that becomes admitted won a `mkdir` on an absent directory, when nobody else was
admitted, which is `Enter`; one that stops being admitted was the only one,
which is `Leave`.

Only model-checked: `AbandonedFreed` (liveness).

## 4. Peer sync

### What is modelled

The workspace pass of `PeerSync`, from the tombstones to the stamp of the run.
The run lock admits one run, so the concurrency is between the run, which can
stop anywhere, and the users of the two machines.

| TLA+ | Code |
| --- | --- |
| `local`, `remote` | the two trees: path to version, 0 is absent |
| `quarantine` | payloads under `.sync-conflicts` of either machine |
| `baseline`, `ready` | `baseline.manifest`; the target marker matches (`PeerBaselineReady`) |
| `held` | `LastHeld` of `state.yaml` |
| `run` | mode (`--push-only`, `--pull-only`, both) and `propagation.delete` |
| `tombstones`, `lsnap`, `rsnap` | `cfg.Tombstones`, the plan's `LocalBefore`, `RemoteBefore` |
| `todo`, `partial`, `complete` | files left in the pass; rsync exit 23/24; the run's `complete` |
| operators of `PeerReconcile` | `PlanPeerReconcile`, `ValidatePeerPlanSafety` |
| `ComputeTombstones`, `InventoryLocal`, `InventoryRemote` | the calls of those names |
| `PullFile`, `DeleteLocalFile`, `DeleteRemoteFile`, `PushFile` | `PullPeerPlan`, `DeletePeerLocal`, `PropagateDeletes`, `PushPeerPlan`, one file per step |
| `Revalidate`, `RefuseStale` | `ValidatePeerPushRemoteStable` on a second inventory |
| `Commit`, `Mark`, `Stamp` | the two files of `CommitPeerBaseline`; `recordPeerRun` |
| `Fail`, `StopOnPartial`, `RefusePlan` | the early exits |

What each abstraction rests on: a version is a fingerprint (two payloads that
the code compares equal are one version); a listing is one step, because a file
that changes during the walk is seen either before or after; rsync moves files
one at a time and in any order; every transfer excludes the tombstoned paths
(`excludes.go:393`), rsync reports a listed source that vanished as partial and
an excluded one not at all. Filters choose which paths exist for the engine and
do not appear; a path is always observed by both inventories or by none.

`newest`, `live`, `dead`, `deletions` and `grounds` are history variables: what
users wrote and did not themselves replace or delete, what they deleted while the
verified baseline recorded it, and which deletions stand. A deletion stands until
its user writes the path again; one of the peer that a run carried out here stands
as the run's own until a baseline is committed. `grounds` are those that stood when
the run took its tombstones and inventories. No guard of a run's action reads them.

`Faults` names the windows in which the code acts on a look it took earlier. They
are narrow but real; with the set empty users still act at every other moment.

| Fault | The window | When admitted |
| --- | --- | --- |
| `planGap` | a local file is deleted or written again between the tombstones and the local inventory | `DeletionSticks` fails (4 paths) and `NoEditLost` fails (2 paths), see below |
| `pullGap` | a local file is written between the local inventory and its pull | the pull has no `--update` and no backup (`peer_reconcile.go:605-624`): `NoEditLost` fails |
| `pushGap` | a peer file is written between the revalidation and its push | `peer_commands.go:755-765`: `NoEditLost` fails |
| `markCrash` | a run stops between the baseline and its marker | `Converges` fails (2 paths), see below |

### What is checked

- `NoEditLost`: every version a user wrote, and no user has replaced or deleted
  since, is in a tree or in a quarantine.
- `DeletionSticks`: a version the verified baseline recorded, once deleted by a
  user of either machine, is never put back into a tree by a run.
- `DeletionsAreUsers`: a run removes a file of the coordinator only if the peer's
  user had deleted that path when the run looked, and a file of the peer only if
  the coordinator's user had, or if an earlier run had carried out such a deletion
  of the peer and none had committed a baseline since. Who writes a path again no
  longer deletes it.
- `PeerCreationsKept`, in a run of its own that violates it: the same without the
  second ground, which is what `docs/commands/dot_peer_sync.md:11-13` says.
- `Converges`: once users are quiet, the trees, and the baseline with them,
  become and stay equal with nothing held, unless a safety cap refuses.

| Run | Instance | Shows |
| --- | --- | --- |
| `peer_modes` | 2 paths, two writes, every mode and policy, an established profile, one run that stops anywhere | `NoEditLost`, `DeletionSticks`, `DeletionsAreUsers`, for runs of every kind in any order |
| `peer_stops` | the same with two-way runs and deletes propagated | `Converges`, for the runs that the schedule starts |
| `peer_recreated` | every mode, one write | `PeerCreationsKept` is violated: the peer deletes a file, a pull-only run removes it here and commits nothing, the peer creates it again, and the next two-way run takes its absence here for a deletion (`tombstone.go:120`) |

What the windows do, each found by TLC with the named fault, profile
`established` and two-way runs:

- `planGap`, `DeletionSticks`: a file deleted between `ComputeTombstones` and the
  local inventory is in `DeleteRemote` but not in the tombstones. When another
  deletion has evidence, the delete set is not empty, the run stays complete, and
  the committed baseline drops the path although the peer still has it
  (`peer_commands.go:729`); the next run pulls it back.
- `planGap`, `NoEditLost`: a file deleted before the tombstones and written again
  before the inventory is planned as a push, but every transfer excludes the
  tombstoned paths (`excludes.go:393`); rsync exits 0 without moving it, the
  baseline records it as transferred, and the next run pulls the peer's old copy
  over the edit.
- `markCrash`, `Converges`: a run that stops between the two files of
  `CommitPeerBaseline` (`peer_reconcile.go:503`) leaves a baseline without
  provenance. Once a deletion is pending every later run holds it, cannot commit
  and so never writes the marker.

Bounds. Two paths are needed: with one path every deletion empties the tree and the
reset caps refuse it; two deletions that do not look like a reset take four.
`MaxVersion` counts the users' writes after the initial contents: both runs have
two, of either user and either path, so the same file is changed on both machines,
conflicts and is quarantined, and a file is written again after its deletion. Every
combination of unchanged, changed on one side and changed on both is reached, again
and again, since a later run starts from the trees the earlier one left. `MaxFails`
1 interrupts one run anywhere; what a second interruption adds is again an arbitrary
intermediate tree with the old baseline. The number of runs is not bounded. Liveness
is checked on the two-way runs alone, because with all modes it takes too long. A
fresh profile over two arbitrary trees is checked with the same engine in
`peer_home`, and for `NoEditLost` the theorem below covers it here. `max_delete` is
off: with two paths it refuses nothing that the reset caps allow.

Fairness (`peer_stops`): a started run goes on (weak
fairness), and a full two-way run is started again and again (strong fairness of
its start: the schedule runs `dot peer sync`, and a start is only delayed by
another run). User actions and failures have no fairness; their bounds make them
stop. Deadlock is checked.

### What is proved

`PeerSyncProofs`, for every finite `Paths` and every bound:

- `TypeCorrect`: `Spec => []TypeOK`, whatever the faults.
- `EditsSurvive`: `Spec => []NoEditLost` under `Attentive`, the absence of
  `planGap`, `pullGap` and `pushGap`.

The inductive invariant relates, per path, the live versions to what the run
knows of them. A version is `Kept` if it is in a tree or a quarantine; the
invariant adds why no later step of the run can destroy it: while a path waits
for its pull, the local version is the one the plan saw, hence the baseline's,
and the baseline's version of a path changed only there is not a live edit that
exists here alone (`BaselineKept`); while it waits for its push, either the pass
backs up what it overwrites or the peer still holds what the plan saw; a
tombstoned path is absent here until the inventory; what is going to be
committed describes trees that were really exchanged (`Pulled`, `Pushed`), so a
baseline entry never stands for a version only one machine has without that
version being found changed by the next plan.

- `DeletionsHold`, `DeletionsByUsers`: `DeletionSticks` and `DeletionsAreUsers`
  under `Punctual`, the absence of `planGap` alone.

Their invariant (`DInv`) is the mirror image: not that a version is somewhere, but
that it is nowhere a run could take it from. A version a user deleted is in a tree
only as the version the baseline records (`DeadKept`), which the plan treats as
unchanged and never sends. What a look found different from the baseline does not
become it again (`Away`), and a missing recorded file has its tombstone (`Derived`),
so no pass of this run brings a deletion back (`PulledAway`, `PushedAway`); and what
was accepted as a deletion was really moved away before the new baseline is
committed (`DeletedLocal`, `DeletedRemote`). For the origin of deletions: a recorded
file is missing at the coordinator because its user deleted it or a run carried out
a deletion of the peer, and at the peer because its user did (`Missing`); a run's
deletion stands only until a baseline without the path is committed (`RunGone`); and
what the looks of the run found missing is among its grounds (`Looked`). `planGap`
must be excluded: a file deleted between the tombstones and the inventory is missing
without one.

Only model-checked: `Converges` (liveness).

## 5. Peer coordinator

### What is modelled

Two Macs and every writer of the role between them. A step is one contact with
the other Mac or one write of a store. A process keeps the config it read when
it started; the stores change under it, because runs, a handover, a takeover
that waits for its confirmation and `dot sync owner` share no lock but the run
lock of each Mac.

| TLA+ | Code |
| --- | --- |
| `conf` | owner, `owner_epoch` and `fence_pending` of the peer profile's `config.yaml` |
| `sched` | the launchd job `com.dotfiles.peer` is installed |
| `base` | the exchange recorded by the baseline files, 0 without them |
| `gen`, `replica` | the replica-generation counter; the replica directory: `meta.yaml` (`by`, `gen`, `epoch`, `of`) and the baselines beside it |
| `pc`, `cfg`, `winner`, `job` | the run: where it stands, its config, the record it lost to, started by launchd or not |
| `hand`, `ask` | the steps of `PeerHandover`; a takeover at its confirmation |
| `exchange`, `pushed`, `leftOld` | history: complete exchanges, the last whose replica arrived, and the Macs that a handover left with the baselines of an earlier term |
| `CanPush`, `OwnersMatch`, `Demotes`, `Proceeds` | `CheckOwner`, `ownerMatchError`, `fenceDecision` |
| `SyncStart` ... `ClearPending`, `SyncStops` | `PeerSync`: guard, `peerFence`, `demotePeer`, recheck, commit, `PushPeerReplica`, `clearPeerFencePending`; an end at any point |
| `HandoverStart` ... `HandoverSetup`, `HandoverStops` | the numbered steps of `PeerHandover` |
| `Usable`, `TakeoverEpoch`, `TakeoverAsk`, `TakeoverInstall`, `TakeoverAdopt`, `TakeoverEnds` | `loadPeerReplica`, `PeerTakeover`: the prompt, the baselines, then the record; an end before either |
| `SetOwner`, `Setup`, `SetupOff` | `SetOwner` with `runSyncOwner`, `PeerSchedule` |

What is exchanged is section 4's; here it is one number, the exchange a baseline
records. A replica push arrives whole, or in part (new baselines without the
`meta.yaml` that lists them), or not at all, and its counter may stay behind. A
replica is staged in the pusher's own replica directory, which is also where the
other Mac's replicas arrive; `SamePath` says whether the check of the target's
path can tell the two apart. The model is checked with paths that are equal,
where it cannot. `PeerAdopt` writes the record and then the generation, and the
second may fail (`peer_handover.go:350-357`); a handover may fail or be killed after
any of its steps. Left out: owner aliases and renames, peers without epochs, the
filter files and the effects of role hooks.

`Faults` names the orders in which the code's promises are not kept. Each is
real; with the set empty, runs still stop anywhere and every command still runs
at every other moment.

| Fault | The order | What it breaks |
| --- | --- | --- |
| `window` | the role moves while a run is past its recheck (`peer_commands.go:721-861`) | `OneWriter`, `BaselineCurrent`, `EpochNeverBack` |
| `underRun` | a record is rewritten while another process is about to act on a copy of it: a demotion in its hooks, a handover in its sync, a takeover at its prompt (`peer_handover.go:385,580,698`) | `SomeCoordinator`, `EpochNeverBack` |
| `setSwitch` | `dot sync owner` moves the role on one Mac instead of confirming the present coordinator | `SomeCoordinator` |
| `takeoverGap` | the peer's run sends its replica between the two halves of a takeover, its baselines and its record (`peer_handover.go:561-580`) | `BaselineCurrent` |

### What is checked

- `OneWriter`: the two Macs are never both between their recheck and their last
  write to the other, although both can pass their own guard and both can run.
- `SomeCoordinator`: whatever stops, some Mac passes its owner guard.
- `BaselineCurrent`: a run that writes to the peer works from no baseline or from
  one as recent as the last exchange the other Mac was told of, unless the last
  handover to its Mac ended between the peer's adopt and the move of its baselines.
- `BootstrapAdditive`, which is false and no property of the run: the same without
  the exception. The help of the command says that the old baselines are set aside
  and how to finish a handover that stopped (`peer_handover_cmd.go:26-35`), but when
  the local write, the removal of the scheduler or the ssh to the peer fails
  (`peer_handover.go:722-732,743-746`), neither the error return nor that repair
  sets them aside, and the first sync of the new coordinator plans deletions from
  the baseline of its earlier term. To see the trace, add it to `owner_switches.cfg`
  as an invariant.
- `EpochNeverBack`: no store's epoch falls, although demotion, handover and
  takeover write values they read earlier.

| Run | Instance | Shows |
| --- | --- | --- |
| `owner_switches` | epochs to 2, two exchanges, no fault order | the four properties, for every order of the commands on both Macs |

Bounds. Epochs 0 to 2 are a first coordinator, a switch and a switch back, which is
what it takes for a Mac to hold records, baselines and replicas of an earlier term.
Two exchanges tell a current baseline from an old one. The numbers of runs, stops
and commands are not bounded. The Macs are interchangeable, hence symmetry. No
liveness is checked here yet, so no fairness is assumed; deadlock is checked.

### What is proved

`PeerOwnerProofs`, for every `MaxEpoch` and `MaxExchange`, hence any number of
switches:

- `SingleWriter`, `RoleNeverLost`, `EpochsRise`: `OneWriter`, `SomeCoordinator`
  and `EpochNeverBack` under `Ordered`: of the four faults only `takeoverGap` may
  occur.
- `BaselinesCurrent`: `BaselineCurrent` under `Strict`, without any.
- `TypeCorrect`: `TypeOK` under `Ordered`. Its bounds are part of the statement: no
  epoch rises but by a switch, no generation counter passes the exchanges.

A process acts on the copy of the record it read when it started, so the
invariant relates each copy to the two records (`Copied`) and compares epochs. A
Mac past its recheck names itself and has the larger epoch, or the same one with
its peer's word that it is not the coordinator (`Leading`); two Macs cannot both.
What a demotion will adopt is newer than its own record and not newer than its
author's (`Judged`); a handover gives the role up only after the peer has it at a
larger epoch (`Handing`); a Mac that lost the role during its pull will be
refused (`Pulling`); what a takeover will adopt is newer than what is there
(`Asking`). So no step leaves both Macs naming the other, and none takes an epoch
back. For the baselines, `Recent` says that a replica that may be taken over, and
the baseline of a Mac that claims the role, are as recent as what the peer was
told, except while a handover is about to set that baseline aside, and on a Mac
that a handover left with its old one (`leftOld`). This invariant too was checked
with TLC before it was proved, on the run's instance.

## 6. Admission gate

### What is modelled

The pass that decides whether a heavy command may ask for a slot at all:
`GateWithPolicy` in any number of invocations, the file history they share, and
the one alert a deferred episode sends.

| TLA+ | Code |
| --- | --- |
| `now` | the wall clock; it can be set back while no invocation runs |
| `hist`, `lock` | `history.json`; `history.lock` with its mtime |
| `pc`, `mem`, `sample`, `episode` | one invocation: where it stands, the history it loaded, what it sampled, the episode that deferred it |
| `marks` | the `notify` directory, one mark per episode |
| `Prepare`, `OverSince`, `Reason`, `Recovering`, `Evaluate` | `PrepareHistorySample`, `EvaluatePressure` |
| `Enter`, `Judge`, `RemoveStale`, `Retry` | `acquireHistoryLock`: `mkdir`, the age check, the removal, the second and last attempt |
| `Probe`, `Save`, `Release`, `Fail` | the rest of `GateWithPolicy` |
| `Claim`, `Sweep`, `Send`, `SendFails` | `ClaimNotify` and `notifyDefer` |
| `Kill` | a process killed between any two of these |

`log`, `alerts` and `whole` are history variables: the samples that were saved, how
many alerts of the current episode some channel has delivered (0, 1 or more), and
whether one of them reached every channel. `Notify` tries all channels and joins
their errors (`watchdog/notify.go:37-55`), so after `SendFails` either nothing was
delivered or some channels have it. Left out: the prebuilt variant of a decision and
the probes' own parsing; a sample is one of five verdicts.

| Fault | The order | What it breaks |
| --- | --- | --- |
| `slowPass` | an evaluation outlives `historyLockStaleAfter` | `OneEvaluation` |
| `lateRemove` | two invocations judge one lock abandoned; the slower removes the lock the faster one has made | `OneEvaluation` |
| `slowClaim` | an episode ends while an invocation that it deferred has not finished its alert; the sweep of that alert removes the marks of the next episode | `WholeAlertIsLast` |

### What is checked

- `OneEvaluation`: no two invocations load, judge and save the history at once.
- `RecoveryEarned`: an episode ends only after the whole recovery window of good
  samples of all invocations, with no gap between them that could hide another.
- `ExcursionSustained`: a CPU spike alone opens no episode before the defer
  window confirms it.
- `WholeAlertIsLast`: after an alert that reached every channel nobody sends
  another in its episode, whoever is deferred or killed and whatever failed before.
- `OneAlert`, which is false and no property of the run: `admit_run.go:170` says
  that an episode sends at most one alert. One channel delivers and another fails,
  the claim is given up, and the next deferral alerts over the first one again. To
  see the trace, add it to `admission_gate.cfg` as an invariant.

Run `admission_gate`: 2 invocations, a gap of 1, windows of 2 and 3, a stale bound
of 1 and a clock of 3, with good, over and hard samples. A window of 3
is more than one gap and more than the other window, so every streak can be
interrupted by a gap, by a sample of the other invocation or by the clock. The
clock can be set back and so repeat every reading; the number of invocations and
episodes is not bounded. No fairness.

### What is proved

`AdmissionGateProofs`, for any number of invocations, any windows and any clock:

- `TypeCorrect`: `Spec => []TypeOK`, whatever the faults.
- `Evaluations`, `Alerts`: `OneEvaluation` and `WholeAlertIsLast` under
  `InGoodTime`, which is `Faults = {}`.
- `Recoveries`, `Excursions`: `RecoveryEarned` and `ExcursionSustained` if besides
  `QuickToDefer`: `DeferSustain <= RecoverSustain`. The code's windows are one
  minute and five (`pressure.go:29-30`). The history variable `log` keeps the
  samples of one recovery window and a gap, so it could not show a longer
  excursion whole.

The lock: who evaluates or releases has a lock that is not old enough to count
as abandoned (`LockYoung`), so who judges one abandoned is alone (`Alone`), and
what an invocation loaded is still what the file says (`Loaded`). The alert: an
invocation was deferred by the present episode (`Current`), and that episode's
mark tells whether its alert is being sent or has been (`Marked`). The
hysteresis: the saved samples since `recoverSince`, and since `overSince`, form a
run with no gap (`Run`, `Runs`) shorter than the window; a sample that goes on
with a run makes it longer, and every other sample resets the history as it
breaks the run, so a window that is reached is a streak of the saved samples.

## 7. PID lock

### What is modelled

`AcquirePIDLock` and its release, one system call per step, for any set of
processes. A process is its pid; one that ended may start again, which is also
how a dead holder's pid comes back to life.

| TLA+ | Code |
| --- | --- |
| `lock` | the lock directory and `lock.pid` in it; `old` when it is past the age bound of a lock without pid |
| `aside` | directories `<lock>.stale.<pid>` |
| `Mkdir`, `Create`, `Stamp`, `StampFails` | `os.Mkdir` and the creation and content of `lock.pid` |
| `Stale`, `Inspect` | `pidLockIsStale` |
| `Clear`, `Rename`, `Discard`, `Recreate` | the takeover: clear the own leftover, rename aside, remove, make anew |
| `Release`, `Unstamp`, `Rmdir` | `os.RemoveAll` of the release and of the failed stamp |

| Fault | The window | What it breaks |
| --- | --- | --- |
| `lateRename` | the lock that is moved aside is not the one that was inspected (`lock.go:99`) | `Exclusive` |
| `emptyPid` | `lock.pid` is read between its creation and its content and counts as malformed (`lock.go:153`) | `Exclusive` |
| `slowStamp` | a live process takes longer than the age bound to write its pid | `Exclusive` |

### What is checked

- `Exclusive`: two processes are never inside, whatever a killed one left behind.
- `RefinesLock`: the protocol implements `SlotLock`, a plain lock; that is the lock
  the models of the Claude settings and of the preferences use.
- `AbandonedReclaimed`: the lock of a dead process is taken over in the end unless
  its pid lives again, also when an earlier takeover died half-way.

Run `locked_files` checks this module and those of sections 8 and 9. They share no
state, so its module `MCLockedFiles` lets one of the three take steps and leaves
the other two at their initial state. For the lock: 3 pids, of which one is a
scheduled run, and 2 kills. Three are a dead holder and two that compete for its
lock; two kills are a holder and a reclaimer after it. Fairness: a process that
runs goes on, launchd starts the scheduled one again and again, and directories
age. The pids are not exchanged by the symmetry of the run, which is that of the
preferences alone and so does not touch the liveness property.

### What is proved

The first part of `LockedFilesProofs`, for any pids and any number of kills:
`LockTypes` whatever the faults; `LockExcludes` (`Exclusive`) and `LockRefines`
(`RefinesLock`) under `Attentive`, which is `Faults = {}`. The invariant is `Owns`:
a process between its `mkdir` and the end of its release sees the one lock directory
as its own, young, with its own pid or none yet. A second owner is then impossible
(`OneOwner`), and no takeover judges that lock stale, which is what the step that
moves a lock aside needs; the directories aside, whose numbers and contents are
arbitrary, play no part. Only model-checked: `AbandonedReclaimed` (liveness).

## 8. Claude settings

`Mutate` of `claudecfg`: the document is read and edited without the lock, read
again under the lock, and written when it is still what was read; one retry. The
lock binds dot; Claude Code and editors write the file whenever they like.

| TLA+ | Code |
| --- | --- |
| `doc` | `settings.json`, as the set of edits it contains, and whether it parses |
| `raw`, `tries` | the bytes `Mutate` read; the attempts |
| `place`, `writer` | where `Mutate` stands in a process; who holds the lock |
| `Mutate`, `Read`, `AcquireLock`, `Compare`, `Write`, `ReleaseLock` | the steps of `Mutate` |
| `Other`, `Retract`, `Typo` | writers that know nothing of the lock |

- `NoEditLost`: the file holds exactly the edits that were made and not taken
  back: a write of dot loses none and brings none back.

With `lateWrite` in `Windows`, an external write between the comparison and the
rename (`claudecfg.go:190`), `NoEditLost` fails: the lock cannot keep a foreign
writer out of that moment.

In the run `locked_files`: two dot processes and one other edit, made and taken
back any number of times. Two dot processes suffice for the race of one that waits
with an old document while the other writes. No fairness.

Proved in `LockedFilesProofs`, for any number of processes and edits: `MutateTypes`
whatever the windows, with the bound on the attempts (`TryLeft`); and
`MutateKeepsEdits`, `NoEditLost` under `InTime`, which is `Windows = {}`: what a
process is about to write was read from the document as it is now (`UpToDate`),
because only the holder of the lock is past the comparison (`UnderLock`).

## 9. Preferences

`dot ai policy apply` and `rollback`: generated overlays, one per target, and a
receipt that tells by content hash which of them dot may replace or remove.

| TLA+ | Code |
| --- | --- |
| `file`, `receipt` | the overlays; `receipt.json` with hash and previous hash |
| `phase`, `runner`, `checked` | where each run stands; the run that holds the lock; the file it has checked for the last time and not yet replaced |
| `Apply`, `Acquire`, `Plan`, `Journal`, `PublishCheck`, `Publish`, `Settle` | the plan outside the lock, the lock, the plan again, the receipt first, then each file checked and renamed into place, then the receipt without previous hashes |
| `Rollback`, `Check`, `Remove`, `Forget` | the removal of everything the receipt owns |
| `Stop` | a crash or a failing write, between any two |
| `Edit`, `Delete` | somebody else at the file |

- `NoFalseConflict`: what dot generated is recognised as its own wherever a run
  stopped, so that run can be retried or rolled back, unless a run for other
  targets has dropped the hash (`dropped`, a history variable).
- `EitherHash`, which is false and no property of the run: the same without the
  exception, which is what the comment of `Apply` says (`preferences.go:478-479`).
  A run stops between its journal and a file; the next one does not write that
  target, because its policy leaves the target alone or wants what the file already
  holds, but settling clears the previous hash of every entry
  (`preferences.go:577`), and the file is from then on refused as a foreign edit. To
  see the trace, add it to `locked_files.cfg` as an invariant.
- `AppliedWhole`: a run that finished has published its own policy, whatever
  another run did before it had the lock.
- `ForeignKept`: what somebody else wrote over an overlay stays until they
  remove it.

| Fault | The order | What it breaks |
| --- | --- | --- |
| `latePublish` | an edit falls between the last check of a file (`preferences.go:563-571`) and the rename over it (`preferences.go:463,572`) | `ForeignKept` |
| `lateEdit` | an edit falls between the check of a rollback and its removals (`preferences.go:620-650`) | `ForeignKept` |

In the run `locked_files`: two targets, two generated contents, two runs. A journal
that covers one target and not another takes two targets; replacing a content takes
two. The numbers of runs, stops and edits are not bounded; symmetry is sound, the
sets are interchangeable. No fairness.

Proved in `LockedFilesProofs`, for any targets, contents and number of runs, each
theorem with no more than the faults that falsify it:

- `OverlayTypes`, `OverlaysApplied` (`AppliedWhole`) and `OverlaysRecognised`
  (`NoFalseConflict`), whatever the faults;
- `OverlaysSpareForeign` (`ForeignKept`) under `NoLateEdit`, the absence of both.

The lock gives a run the receipt to itself between its second plan and its end
(`Locked`), but not the files. So the invariant says, for each place a run can
stop at, how the files it moved and those it has still to move agree with the
receipt: `Working` for what it publishes, `Aiming` for
the file it has checked, `Sparing` for what a rollback may still
remove, and `Settling` for what the receipt has to recognise, which is the
strengthening `NoFalseConflict` needs: a published target is already covered by
the hash and one still to publish by the previous hash.

## 10. Workspace mirror

### What is modelled

`dot sync push`, `pull`, `intake` and `fetch` between a workspace and a folder
that a cloud client keeps in step with other machines. `MirrorPlan` has the
decisions as operators on baseline, workspace, mirror and the evicted files;
`MirrorSync` the commands, the user and the cloud client.

| TLA+ | Code |
| --- | --- |
| `local`, `mirror`, `evicted`, `kept` | the two trees; placeholders of the provider; the `.sync-conflicts` of both |
| `baseline`, `imports`, `stamped` | `baseline.manifest`, `imports.manifest`, `last_push` |
| operators of `MirrorPlan` | `PlanPush`, `RefreshBaseline`, the classification of `PullTracked`, `Intake` |
| `Plan`, `List`, `Send`, `SendEnds`, `DeletePass` | the plan, then rsync: its file list, one file per step, its end, `--delete-after` with `--max-delete` |
| `Refresh`, `CheckPasses`, `PushFails`, `Move`, `MoveFails`, `PushDone` | the finalization of a push: baseline, exit status, `MoveMirrorLeftovers`, stamp |
| `PullPlan`, `PullCompare`, `PullBackup`, `PullCopy`, `PullHash`, `PullTorn`, `PullSave` | `PullTracked`, file by file: both fingerprints, the backup of a forced pull, the copy, the hash of the mirror for the next baseline; a copy interrupted after the truncation |
| `IntakePlan`, `IntakeSave`, `IntakeFails`, `Fetch` | `Intake`, `Fetch` |
| `User`, `UserAccept`, `Cloud`, `Download`, `Kill` | the user, the cloud client, a killed command |

rsync's exit is 0, 23, 24, 25 or one number for the others, because the code
treats exactly these differently. A content stands for the fingerprint by which
the code compares two files. The manual mode is a clean or a forced run, after its
prompt. `live`, `proof`, `touched` and `busy` are history variables: what a writer
wrote and did not itself replace, what the workspace is known to have held, which
mirror paths the cloud changed, which paths changed during the command. Left
out: targets over ssh, the list and resolution of conflicts, bootstrap.

### What is checked

- `NoContentLost`: no run of any command destroys content; it is in a tree or in a
  conflict directory.
- `BaselineProven`: what the baseline records was once in the workspace, or the
  plan had reason to accept it; deletions of a clean push rest on this.
- `CleanPushProven`: a clean push replaces or removes only mirror files whose
  content came from here, arrived during the run, or was evicted.
- `NoSelfConflict`: no run that ends, however it failed, makes the workspace's own
  files conflict with themselves later.
- `IntakeNotOwn`: intake never stages a file this workspace pushed.
- `StampHonest`: `last_push` is stamped only when the mirror has what the policy
  sends and not what the plan proved deleted.
- `EditsBackedUp`, which is false and no property of the run: no pull destroys what
  the workspace held, which `docs/commands/dot_sync_pull.md:14-16` says of every
  mode. The pull compares the local file (`pull.go:163-179`) and truncates it later
  (`pull.go:191`, `intake.go:333`); what the user saves in between is kept nowhere.
  To see the trace, add it to `mirror_sync.cfg` and `pullSave` to its `Faults`.

| Fault | The window | What it breaks |
| --- | --- | --- |
| `pullSave` | the user saves a file after the pull has compared it, or has backed it up, and before the copy truncates it (`pull.go:163-191,219-222`) | `NoContentLost`, `EditsBackedUp` |
| `pullWrite` | the cloud writes a file between the pull's copy of it and the hash of it that the baseline records (`pull.go:141-150,191-198`), or between a fingerprint taken before the copy and the copy | `BaselineProven`, `CleanPushProven`: the baseline proves a content this side never had, and the next clean push overwrites it |
| `evictedPull` | a pull, a fetch or an intake meets an evicted file | `BaselineProven`, `CleanPushProven`, `StampHonest`, see below |

Run `mirror_sync`: one plain name and one that the provider cannot store, two
changes by the user or the cloud, `max_delete` 1, clean and forced runs, the full
policy, every command. The two names take the two different ways through every
command; two changes are one on each side or one after another on either, on top
of initial trees that already differ or agree. Commands and kills are not
bounded. No fairness: a mirror that nobody syncs stays as it is.

The fault `evictedPull` lets a pull, a fetch or an intake meet an evicted file.
`PullTracked` does not look for the provider's marker, so it reads the stub as an
empty file and writes it over the workspace's: `EvictionIsNoEdit` fails, although
`docs/releases/v2.70.8.md:4` says that placeholders are treated as
evictions. Without the fault, evictions happen at every other moment.

`DeletesProven` says that a clean push deletes only content the workspace had put
on the mirror, as the comments at `push_plan.go:170` and `intake.go:455` do. It
fails where `propagation.update` is off. The plan then skips a path whose two files
differ, but the refresh after that push asks only whether the path has a file
here (`intake.go:451`) and records the mirror's fingerprint (`intake.go:486`). When
the user then deletes the local file, the entry counts as proof and the next clean
push deletes a file that only the cloud ever had; a copy stays in the mirror's
`.sync-conflicts`. To see the trace, give `mirror_sync.cfg` the two plain paths
(`Odd = {}`), `Policies <- NoUpdates`, clean pushes only and the invariant
`DeletesProven`: one path makes the first push transfer anything, the other
differs, and one change is enough. With updates on, the plan reports such a path
as a conflict and nothing is recorded: the property then holds, with two
changes as well.

### What is proved

`MirrorSyncProofs`, for every `Paths`, `Odd`, `MaxDelete`, `MaxEdits`, `Modes`,
`Commands` and `Faults`:

| Theorem | States | Under |
| --- | --- | --- |
| `TypeCorrect` | `TypeOK` | |
| `ContentSurvives` | `NoContentLost` | `Unsaved`: no `pullSave` |
| `BaselineProves` | `BaselineProven` | `Updating`: every policy propagates updates; `Rehydrated`: no `evictedPull`; `Unwritten`: no `pullWrite` |
| `CleanPushes` | `CleanPushProven` | `Full`: and deletions; `Rehydrated`; `Unwritten` |
| `ConflictsForeign` | `NoSelfConflict` | |
| `IntakeForeign` | `IntakeNotOwn` | |
| `StampsTrue` | `StampHonest` | `Rehydrated` |

Without `Updating`, the trace of `DeletesProven` breaks `BaselineProven`. Without
deletions (the default policy) a plan does not judge files that only the mirror has,
so a file the user creates during a push under a name the cloud already uses
overwrites the cloud's; it is kept in `.sync-conflicts`, so `NoContentLost` stands
and only `CleanPushProven` fails. Without `Rehydrated`, a pull that meets an evicted
file copies and records an empty one, and if the content is back by the time it is
hashed, records a content the workspace never had (`BaselineProven`); after a write
and an eviction by the cloud client and a deletion by the user, three changes, a
clean push takes the stub for what the baseline has and deletes the cloud's content.
`StampHonest` fails with the bounds of the run already.

Each invariant speaks of one path, at every place a command can be killed at:

- `Kept`, `RecordKept`: what somebody wrote is in a tree or a conflict directory,
  and if the baseline records it, on the mirror or in a conflict directory. The
  second is what lets a pull overwrite a local file that equals the baseline without
  a copy, and it must hold of the next baseline too while a pull or the moves still
  work from it. Between the comparison and the copy it must hold of the local file
  itself (`Replaceable`), which a backup gives and a save in between takes.
- `RecordProven`, `Copied`, `TwinProven`, `LeftoverProven`: a recorded content was
  in the workspace; so was each one the refresh is about to record, because the plan
  refused or waived every difference it did not send, and so is the file a pull is
  about to record by the time it has copied and hashed it.
- `CleanProven`: what a clean push may still touch is proven, arrived during
  the run, or was evicted.
- `Ours`, `Staging`: a mirror file that nobody else touched is as the baseline has
  it, or one this push sent and will record whatever ends it, which is why the
  refresh also runs after a failed transfer.
- `Sent`: a file that nobody touched was listed, and is done once the pass is
  past it, unless the exit status says otherwise.

TLC checked each of them before its proof, under the full, the default, a no-update
and a no-create policy. Nothing of `mirror_sync` is only model-checked.

## 11. Host paths

### Tracked and additive paths (`PeerHome`)

Paths below the home directory that are listed in `home-paths-tracked.txt` go
through a three-way pass of their own, with its own baseline; the others on the
additive list through a newest-wins pass afterwards. The classification is
`PeerReconcile`'s; what differs from the workspace pass are the checks before each
action, an rsync that passes over sources that are gone, and a list that the
operator may edit between and under runs.

| TLA+ | Code |
| --- | --- |
| `list`, `listed` | the list on disk; as the run last read it |
| `PlanLocal`, `PlanRemote`, `RefusePlan` | `planPeerHomeTracked` |
| `LocalStable`, `CheckPull`, `PullFile` | `validatePeerHomeLocalStable` and the pull |
| `DeleteLocalFile`, `SkipLocalFile`, `RefuseDelete` | `deletePeerHomeLocal`, file by file |
| `Tombstones`, `DeleteRemoteFile` | `computeHomeTombstones`, `propagatePeerHomeDeletes` |
| `Revalidate`, `PushFile`, `Commit`, `Mark` | the second inventory, the push passes, `commitPeerHomeBaseline` |
| `ReadLists`, `AddFile` | `peerHomeSync`: the list read again, rsync `--update` both ways |
| `EditList` | the operator |

Assumptions: every path is on the additive list too; a version stands for its
mtime; of an unlisted path the older version is meant to go. Left out: the checks
of ancestors and topology, and what a symlink points to.

| Fault | The window | What it breaks |
| --- | --- | --- |
| `pullGap` | a local file is written between its check and its pull | `NoEditLost` |
| `pushGap` | a peer file is written between the second inventory and its push | `NoEditLost` |
| `vanish` | the peer deletes a file that is about to be pulled; `--ignore-missing-args` (`peer_home_tracked.go:571`) passes over it and the baseline records it as exchanged | `RecordedSticks` |
| `listRace` | a path is listed after the additive pass read the list | `NoEditLost` |
| `markCrash` | a run stops between the baseline and its marker | nothing checked here; a deletion pending then is held by every later run |

- `NoEditLost`: every version of a path that no user has replaced or deleted is on
  a Mac or in a quarantine, also when the path joins the list under a run.
- `RecordedSticks`: a version the verified baseline had when a user replaced or
  deleted it is never put back by either pass.
- `DeletionsAreUsers`: a run removes a file only if it was listed when the run
  planned and a user deleted it: a path the operator unlisted is not read as
  deleted.

Run `peer_home`: two paths, of which users edit and list the first, no deletion
cap, three versions, one interrupted run, one edit of the list, every mode, fresh
and established profiles. The second path keeps a plan from looking like a reset.
Larger instances passed while the module was developed: four versions for
`NoEditLost` (17.8 million states), and both paths edited with two list edits (2.1
million). The number of runs is not bounded. No fairness.

Proved in `HostPathsProofs`, for any paths, bounds, modes, policies and profiles:

- `HomeTypes`, whatever the faults;
- `HomeEditsSurvive` (`NoEditLost`) under `Attentive`: `pullGap`, `pushGap` and
  `listRace` are not in `Faults`. The invariant is `IInv`: what the baseline records
  is on both Macs or nobody's any more (`BaselineKept`), so a difference from it is
  a user's change; what an inventory saw is still there or nobody's any more
  (`LocalLook`, `RemoteLook`), so what a pull, a deletion or a push overwrites is
  kept elsewhere or nobody's; and at the commit every transfer has arrived
  (`Pulled`, `Pushed`), which gives `BaselineKept` of the new baseline;
- `HomeSticks` (`RecordedSticks`) and `HomeDeletionsByUsers` (`DeletionsAreUsers`)
  under `Punctual`: `vanish` and `listRace` are not in `Faults`, while edits in the
  other windows are allowed. The invariant is `DInv`: a version of the past is on no
  Mac unless the baseline still records it (`PastKept`), a recorded file that a Mac
  lacks was deleted by a user (`Missing`), and so was one that an inventory lacks
  (`Looked`); a conjunct per pass carries both over the commit.

No conjunct of either speaks of two paths, so a step is proved for one path at a
time and the caps, the order of the files in a pass and what a stopped run leaves
undone need no argument. In the additive pass the version that rsync `--update`
overwrites goes (`Outdo`), unless it equals the newer one or the operator listed
the path meanwhile, which is the window `listRace`.

### Merged host files (`HostMerge`)

A file that an app on each Mac saves whole from memory (`~/.claude.json`) is
merged entry by entry. A step is one look at a copy or one copy written.

| TLA+ | Code |
| --- | --- |
| `file`, `mem` | the copy of each Mac; what its app holds in memory |
| `stage`, `mode`, `mergeRun` | where the run stands; its direction; all it knows |
| `StartMerge`, `Look`, `Decide`, `Decline` | `planHostMerges` before the passes, `mergePeerHostFiles` after them |
| `CheckHere`, `CheckPeer`, `Write`, `PushMerged`, `Again` | `writeHostMerges`, `pushMergedCopy`, three attempts |
| `PullOnly`, `PushOnly` | the create-only halves of `peerHomeSync` |
| `Load`, `Save`, `ReplaceFile` | the apps, and people who remove, link or break the file |

Either copy may count as the newer one, because the peer's mtime is read to the
second and by its own clock. A copy that turns into a symlink between the `Lstat`
and the read counts as refused. `race` in `Races` admits a save in the windows that
no check closes: here between the last look and the rename, on the peer between
the second read and the push (`peer_host_merge.go:620-625`). It breaks
`EntriesKept`. `docs/CEILINGS.md:163-165` says that on this Mac only the local
write itself is left; the code reads the peer's copy over ssh between its last
look here and that write, so a save during that read is lost as well.

- `EntriesKept`: no step of a run takes an entry off either Mac, and a one-way run
  leaves a copy that exists alone.
- `MergedOnBoth`: after the push every entry of the merge is on both Macs unless
  somebody saved that copy since; no later pass undoes it.
- `Converges`: once the apps leave the file alone, the copies become equal, unless
  one is not mergeable.

Run `host_merge`: two entries, two values for the rest, one interrupted run. Two
entries are one of each Mac; saves are not bounded, and an app may save from a
memory as old as it likes. Fairness: a run goes on (weak), and the schedule starts
two-way runs again and again (strong).

Proved in `HostPathsProofs`, for any entries, other values and number of stopped
runs, without `race`: `MergeLands` (`MergedOnBoth`) and `MergeDropsNothing`
(`EntriesKept`). The invariant is `MergeInv`: the result is a merge of the copies as
they are (`KnownHere`), which holds only while `touched` is false, so that the
checks are what carries it to the write; from there a copy that is not yet written
has no entry that the result lacks (`Checked`), and one that is written is the
result or somebody saved it since (`Spread`). Only model-checked: `Converges`
(liveness).

## 12. Git realign

### What is modelled

`dot peer git realign --apply --rescue` on one repository. Peer sync brings files
and no `.git`, so HEAD is behind what the worktree holds. A run moves HEAD and the
index to the commit that the files match: forward when it descends from HEAD,
otherwise after keeping HEAD's commits on a rescue branch that it pushes, unless
`--no-push`. A diverged branch moves to its own upstream; a feature branch whose
files match the default branch better is left for that one.

| TLA+ | Code |
| --- | --- |
| `head`, `branch`, `rescues`, `mainUp` | HEAD, `refs/heads`, the rescue branches, the upstream of a default branch created here |
| `index`, `lock` | the index: the commit it is of, and whether more is staged; `index.lock` |
| `seen`, `remote`, `pushed` | the tracking refs; the branches of the remote; its rescue branches |
| `files` | the worktree, one content per file |
| `plan`, `undo` | what a run judged; the undo command it printed |
| `BlockReason`, `Judge` | `blockReason`, then `classify` and `classifyNoMatch` with `Candidates`, `Tied`, `Mismatch`, `Diverged`, `BeatsUpstream`, `RewriteTwins`, `FirstFree` |
| `CheckRemote`, `Keep`, `Push`, `PushFails` | `remoteMoved` and the rest of `rescue` |
| `LockIndex`, `MoveHead`, `RenameLock`, `RollBack` | `realign`: the exclusive `index.lock`, the compare-and-swap of HEAD, the rename |
| `CompareDefault` ... `ConfigDefault` | `switchBranch`, with `RestoreDefault` and `RestoreHead` on a failure |
| `Commit`, `Stage`, `Unstage`, `Switch`, `Fetch`, `ForwardMain`, `Undo`, `RemoveStaleLock` | the user |
| `Deliver`, `RemoteAdvance`, `RemoteDelete`, `RemoteRewrite` | peer sync and the other Mac |

One git command or system call is a step; the reads that classify a repository are
one, because only the files, HEAD and the tracking refs enter them and each is
read again or compared before it is relied on, in the ways the table of windows
lists. A commit has a parent, a content per file and, if the remote is rewritten,
a twin with its metadata. The history of a commit is the least set of commits that
holds it and the parents of its members (`Closed`, `Reach`): defined so, without
recursion, it can be reasoned about for every history. `HistoryAssumption` says
what a rewrite is: commits of its own, in the same shape, and none of the user's,
whose commits are those that are not published when the run begins. `taken` and
`made` are history variables: what a rewrite took out of the remote, and what the
user committed here. Left out: submodules and what their state says about a tie,
`.gitmodules`, a detached HEAD, linked worktrees, `--candidate-refs`, Git LFS, a
remote that refuses a name (a push that fails).

| Fault | The window | What it breaks |
| --- | --- | --- |
| `lateStage` | the user stages a change after `blockReason` (`gitstate.go:1133`); the rename replaces the index | `MovesWhole` |
| `lateSwitch` | the user switches, between the judgment and the move, to another branch at the same commit: the compare-and-swap (`gitstate.go:1375`) is of whatever HEAD names, and that branch moves; a switch to the default branch does look again | `MovesWhole` |
| `lateDefault` | the default branch is at the target already when a switch compares it, or the switch has moved it there; nothing reads it again before HEAD is pointed at it (`gitrescue.go:860-866`), and a commit or `git fetch origin main:main` moves it on. HEAD is then ahead of the index, which shows the new commits as staged for removal | `MovesWhole` |
| `headStuck` | the rename of a switch fails, HEAD cannot be put back after it, and the lock is removed all the same (`gitrescue.go:875-886`): HEAD is on the default branch with the other one's index. That the default branch cannot be put back is a branch of `RestoreHead` and no fault | `MovesWhole` |
| `lateCommit` | a commit begun before the lock lands between `RecheckHead` and the move of HEAD, on the feature branch; the printed undo resets that branch to where it was judged | `CommitsKept` |
| `lateFetch` | a fetch between the twin check of the judgment and the remote check, which then compares with what was just fetched | `NoRepublish` |
| `lateRewrite` | the remote is rewritten between the check and the push | `NoRepublish` |
| `goneRewrite`, `unread` | the rewritten feature branch of a switch is deleted from the remote, or cannot be read; `docs/BOUNDARIES.md:315-316` accepts both | `NoRepublish` |

One more limit is an assumption and not a fault: the check covers the branch's
upstream and the target (`gitrescue.go:341-350`). When local commits also rest on
another remote branch, a rewrite of that one alone is not seen before it was
fetched. `HistoryAssumption` rules that out: what a clone has, at the start, of the
commits that may be rewritten is on the remote branch of the same name.

### What is checked

- `CommitsKept`: every commit the user made here stays reachable from a branch or a
  rescue branch, whatever fails, is killed, or is undone with the printed command.
- `NoRepublish`: nothing that a rewrite took out of the remote is reachable there
  again because a rescue was pushed.
- `MovesWhole`: a run moves only the branch it judged, and when it lets go of
  `index.lock` the index is HEAD's and what the user staged is still staged.

Run `git_realign`: a feature branch and the default branch that fork at one
commit; a commit of the other Mac on each and a second on the default branch's; a
rewrite of the fork and of the first two; two commits of the user, one on the
other; with the default branch here or not; pushed and local rescues; one kill or
failed call; two rescue branches. Each class of move occurs: a forward move, a
diverged branch, a rescue of a branch whose work is on the default branch. Two
rescues are what makes the second name and a rescue after an undo happen. One
process runs at a time in this run; with two the state space is too large to
exhaust, and random simulation of two processes found no violation. Runs, fetches,
deliveries and undos are not bounded. No fairness.

### What is proved

`GitRealignProofs`, for any history, branches at the start, contents, rescue names
and number of failures:

- `RealignKeepsCommits` (`CommitsKept`) without `lateCommit`, for any number of runs
  at once. The invariant is `Safe`. What the remote has was published, so neither a
  target nor the default branch as it was compared holds a commit that is only here
  (`Published`, `PlanOK`). What a move takes off a branch is HEAD as judged, whose
  commits a rescue branch has by then (`Saved`) or the target descends from; that
  the branch is still there is the compare-and-swap of a move, and in a switch the
  second look at HEAD under `index.lock` (`Left`), which only holds because no
  commit is made under that lock. An undo takes off a target again (`UndoSafe`).
- `RealignNeverRepublishes` (`NoRepublish`) for one run at a time, without
  `lateSwitch`, `lateFetch`, `lateRewrite`, `goneRewrite` and `unread`. The
  invariant is `Fresh`: of every rewritable commit below a branch, a plan or an
  undo, the remote branch of that name has it or its twin (`Lined`), and a rewrite
  that took something out is still seen on the remote (`Shown`). So a remote that
  has not moved since the fetch shows the twin in what was fetched, where the
  judgment would have refused it (`NoTwinSeen`), and what passes the check is not
  taken out (`Clean`).
- `RealignMovesWhole` (`MovesWhole`) for one run at a time, without `lateStage`,
  `lateCommit`, `lateSwitch`, `lateDefault` and `headStuck`. The invariant is
  `Whole`, the relation of index, HEAD and branches at each point of a run. The
  window `lateDefault` was found here: `Whole` needs that the default branch is at
  the target where HEAD is pointed at it, and no check of the code gives that when
  no swap was needed.

The last two assume `OneRun`. The command takes no lock of its own, `index.lock`
covers only its last steps, and with two runs the move of one, or its undo command,
may take the branch that the other judged away and back. Random simulation of two
runs found no violation by that; the invariants do not cover it.

## 13. Reach of the tools

Out of the prover's reach and left to TLC: liveness under fairness and `ENABLED`;
induction over data structures; anything about a `RECURSIVE` operator, of which
these modules use none. The proofs assume only the named `ASSUME`s of their modules,
which TLC evaluates in the runs, and the hypotheses about `Faults` and policies that
the theorems state; each hypothesis excludes what the sections above show to break
the property, and two theorems of `GitRealign` assume one run at a time. Proved is
every safety property, action property and refinement that a run of `expect` "pass"
checks. Only model-checked, on the instances
above, are the liveness properties `AbandonedFreed`, `AbandonedReclaimed` and the
two `Converges`.

A window that a table of faults names is reproduced by putting the fault into
`Faults` (`Windows`, `Allowed`, `Races`) of the module's configuration; TLC then
shows the trace for the property the table names. The runs leave these faults out
so that they say what holds outside the windows.

Not modelled, and why, is said per component in `PROJECT.json`; in short:
pattern matching of paths and commands, rendering and parsing of third-party
files, installers, network clients and user interfaces, which keep no shared
state between steps that a model would interleave, and, for now, what the plan
lists as planned.
