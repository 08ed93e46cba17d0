----------------------------- MODULE PeerOwner ------------------------------
(***************************************************************************)
(* Which of two Macs coordinates `dot peer`: ownership epochs, the fence,  *)
(* demotion, handover, takeover and the replica a takeover installs.       *)
(* internal/syncer/peer_handover.go and owner.go, with the run that calls  *)
(* them (peer_commands.go, PeerSync), SetOwner (sync_store_ops.go) and     *)
(* the scheduler (peer_commands.go, PeerSchedule).                         *)
(*                                                                         *)
(* A step is one contact with the other Mac or one write of a store.  A    *)
(* process reads its config once, when it starts (cfg), while the stores   *)
(* (conf) change under it: runs, a handover, a takeover waiting for its    *)
(* confirmation and `dot sync owner` share no lock but the run lock.  What *)
(* a run transfers is PeerSync's; here a baseline is the number of the     *)
(* complete exchange it records.  Owner aliases and peers without epochs   *)
(* are left out: a Mac answers to its own name and no other.               *)
(*                                                                         *)
(* Faults names the orders of events a run admits beyond those under which *)
(* the properties are promised:                                            *)
(*   "window"        the role moves while a run is past its recheck        *)
(*   "underRun"      the record of a Mac is rewritten while one of its     *)
(*                   processes, or the other Mac's handover, is about to   *)
(*                   act on a copy of it; a takeover beside the Mac's run; *)
(*                   the peer syncs beside a handover that moved the role  *)
(*   "takeoverGap"   the peer's run sends its replica between the two      *)
(*                   halves of a takeover, its baselines and its record    *)
(*   "setSwitch"     `dot sync owner` moves the role instead of confirming *)
(*                   the present coordinator                               *)
(***************************************************************************)
EXTENDS Naturals, FiniteSets

CONSTANTS
    Macs,         \* the two machines
    Nobody,       \* no owner recorded
    MaxEpoch,     \* bound on the ownership epoch
    MaxExchange,  \* bound on the complete exchanges
    SamePath,     \* both workspaces have the same path
    Faults        \* the fault orders a run admits

FaultKinds == {"window", "underRun", "takeoverGap", "setSwitch"}

ASSUME OwnerAssumption ==
    /\ \E a, b \in Macs : a # b /\ Macs = {a, b}
    /\ Nobody \notin Macs
    /\ MaxEpoch \in Nat
    /\ MaxExchange \in Nat
    /\ SamePath \in BOOLEAN
    /\ Faults \subseteq FaultKinds

VARIABLES
    conf,     \* config.yaml: owner, epoch and pending fence
    sched,    \* the launchd job is installed
    base,     \* the exchange the baseline files record; 0 without a baseline
    gen,      \* the replica-generation counter
    replica,  \* the replica directory in the store
    pc,       \* where the Mac's peer sync stands
    cfg,      \* the config its process read
    winner,   \* the peer's record a demotion adopts
    job,      \* the sync was started by the scheduler
    hand,     \* where the Mac's handover stands
    ask,      \* where the Mac's takeover stands, and what it will adopt
    exchange, \* complete exchanges so far
    pushed,   \* the last of them whose replica reached the peer
    leftOld   \* the Macs to which a handover moved the role and ended early,
              \* their baselines not aside nor replaced since

stores == <<conf, sched, base, gen, replica>>
process == <<pc, cfg, winner, job>>
history == <<exchange, pushed, leftOld>>
vars == <<stores, process, hand, ask, history>>

Peer(m) == CHOOSE n \in Macs : n # m

Conf == [owner : Macs \cup {Nobody}, epoch : 0..MaxEpoch, pending : BOOLEAN]
Idle == [owner |-> Nobody, epoch |-> 0, pending |-> FALSE]
Pcs == {"idle", "fence", "hooks", "pull", "push", "commit", "replica", "clear"}
Handovers == {"no", "sync", "adopt", "local", "unsched", "aside", "start", "setup"}

\* A replica: who made it, what meta.yaml says, the exchange its hashes were
\* taken of, and the exchange of the baseline files beside it.
Replicas == [by : Macs \cup {Nobody}, gen : 0..MaxExchange, epoch : 0..MaxEpoch,
             of : 0..MaxExchange, base : 0..MaxExchange]
NoReplica == [by |-> Nobody, gen |-> 0, epoch |-> 0, of |-> 0, base |-> 0]
NotAsked == [at |-> "no", gen |-> 0, epoch |-> 0]

Larger(a, b) == IF a > b THEN a ELSE b

Init ==
    \E c \in Macs :
        /\ conf = [m \in Macs |-> [owner |-> c, epoch |-> 0, pending |-> FALSE]]
        /\ sched = [m \in Macs |-> m = c]
        /\ base = [m \in Macs |-> 0]
        /\ gen = [m \in Macs |-> 0]
        /\ replica = [m \in Macs |-> NoReplica]
        /\ pc = [m \in Macs |-> "idle"]
        /\ cfg = [m \in Macs |-> Idle]
        /\ winner = [m \in Macs |-> Idle]
        /\ job = [m \in Macs |-> FALSE]
        /\ hand = [m \in Macs |-> [at |-> "no", epoch |-> 0]]
        /\ ask = [m \in Macs |-> NotAsked]
        /\ exchange = 0
        /\ pushed = 0
        /\ leftOld = {}

-----------------------------------------------------------------------------
(* The owner guard and the fence *)

\* CheckOwner on m for the record c: no owner restricts nobody.
CanPush(m, c) == c.owner \in {m, Nobody}

\* ownerMatchError between the record l of m and the peer's record r.
OwnersMatch(m, l, r) == r.owner = l.owner /\ ~CanPush(Peer(m), r)

\* fenceDecision for m with its record l and the peer's record r.
Demotes(l, r) == l.owner # Nobody /\ r.owner # Nobody /\ r.epoch > l.epoch

Proceeds(m, l, r) ==
    /\ l.owner # Nobody
    /\ IF r.epoch \in {0, l.epoch} THEN OwnersMatch(m, l, r) ELSE r.epoch < l.epoch

\* PeerAdopt on m: the record, then the counter, whose write may fail and ends
\* the command.  It knows "leave the counter alone" (a negative generation),
\* which no caller says.
PeerAdopt(m, owner, epoch, generation, pending, counted) ==
    /\ conf' = [conf EXCEPT ![m] = [owner |-> owner, epoch |-> epoch, pending |-> pending]]
    /\ gen' = IF counted THEN [gen EXCEPT ![m] = generation] ELSE gen

-----------------------------------------------------------------------------
(* The orders of events that "window" and "underRun" admit *)

\* No run of m is past its recheck.
NotWriting(m) == pc[m] \notin {"push", "commit", "replica", "clear"} \/ "window" \in Faults

\* No process of m but own holds a copy of m's record that it will act on.
Copies(m) ==
    (IF pc[m] \in {"fence", "hooks"} \/ hand[m].at = "sync" THEN {"run"} ELSE {})
    \cup (IF hand[m].at \in {"adopt", "local"} THEN {"handover"} ELSE {})
    \cup (IF hand[Peer(m)].at = "adopt" THEN {"peer"} ELSE {})
    \cup (IF ask[m] # NotAsked THEN {"takeover"} ELSE {})
NoRun(m) == pc[m] = "idle" \/ "underRun" \in Faults
Undisturbed(m, own) == Copies(m) \subseteq own \/ "underRun" \in Faults

-----------------------------------------------------------------------------
(* One peer sync *)

Start(m, scheduled) ==
    /\ pc[m] = "idle"
    /\ CanPush(m, conf[m])
    /\ ask[m] = NotAsked \/ "underRun" \in Faults
    /\ hand[Peer(m)].at \in {"local", "unsched", "aside"} => "underRun" \in Faults
    /\ pc' = [pc EXCEPT ![m] = "fence"]
    /\ cfg' = [cfg EXCEPT ![m] = conf[m]]
    /\ job' = [job EXCEPT ![m] = scheduled]
    /\ UNCHANGED winner

\* The scheduler or the operator starts a run.
SyncStart(m, scheduled) ==
    /\ scheduled => sched[m]
    /\ Start(m, scheduled)
    /\ UNCHANGED <<stores, hand, ask, history>>

Goto(m, l) == pc' = [pc EXCEPT ![m] = l]

\* The process ends, and a handover whose required sync it was ends with it.
End(m) ==
    /\ Goto(m, "idle")
    /\ cfg' = [cfg EXCEPT ![m] = Idle]
    /\ winner' = [winner EXCEPT ![m] = Idle]
    /\ job' = [job EXCEPT ![m] = FALSE]

HandoverOver(m) ==
    hand' = IF hand[m].at = "sync" THEN [hand EXCEPT ![m] = [at |-> "no", epoch |-> 0]]
            ELSE hand

\* Unreachable, refused, failed or killed, wherever the run stands.
SyncStops(m) ==
    /\ pc[m] # "idle"
    /\ End(m)
    /\ HandoverOver(m)
    /\ UNCHANGED <<stores, ask, history>>

\* First contact: peerFence.
FenceStep(m) ==
    /\ pc[m] = "fence"
    /\ \/ /\ Proceeds(m, cfg[m], conf[Peer(m)])
          /\ Goto(m, "pull")
          /\ UNCHANGED winner
       \/ /\ Demotes(cfg[m], conf[Peer(m)])
          /\ Goto(m, "hooks")
          /\ winner' = [winner EXCEPT ![m] = conf[Peer(m)]]
    /\ UNCHANGED <<stores, cfg, job, hand, ask, history>>

\* demotePeer after its hooks.  Its ReplicaGeneration is the zero value.
DemoteAdopt(m) ==
    /\ pc[m] = "hooks" /\ winner[m] # Idle
    /\ Undisturbed(m, {"run"})
    /\ \E counted \in BOOLEAN :
          /\ PeerAdopt(m, winner[m].owner, winner[m].epoch, 0, FALSE, counted)
          /\ IF counted
             THEN /\ winner' = [winner EXCEPT ![m] = Idle]
                  /\ UNCHANGED <<pc, cfg, job, hand>>
             ELSE End(m) /\ HandoverOver(m)
    /\ UNCHANGED <<sched, base, replica, ask, history>>

\* demotePeer, last: removePeerSchedulerArtifacts.
DemoteUnschedule(m) ==
    /\ pc[m] = "hooks" /\ winner[m] = Idle
    /\ sched' = [sched EXCEPT ![m] = FALSE]
    /\ End(m)
    /\ HandoverOver(m)
    /\ UNCHANGED <<conf, base, gen, replica, ask, history>>

\* Mutant of Recheck: the owner is not read again after the pull.
RecheckSkipped(m) ==
    /\ pc[m] = "pull"
    /\ Goto(m, "push")
    /\ UNCHANGED <<stores, cfg, winner, job, hand, ask, history>>

\* recheckPeerOwnerBeforeMutation, after the pull.
Recheck(m) ==
    /\ pc[m] = "pull"
    /\ Proceeds(m, cfg[m], conf[Peer(m)])
    /\ Goto(m, "push")
    /\ UNCHANGED <<stores, cfg, winner, job, hand, ask, history>>

\* The last write to the peer is done and nothing was held back.
PushDone(m) ==
    /\ pc[m] = "push"
    /\ exchange < MaxExchange
    /\ Goto(m, "commit")
    /\ UNCHANGED <<stores, cfg, winner, job, hand, ask, history>>

\* CommitPeerBaseline.
Commit(m) ==
    /\ pc[m] = "commit"
    /\ exchange < MaxExchange
    /\ exchange' = exchange + 1
    /\ base' = [base EXCEPT ![m] = exchange + 1]
    /\ leftOld' = leftOld \ {m}
    /\ Goto(m, "replica")
    /\ UNCHANGED <<conf, sched, gen, replica, cfg, winner, job, hand, ask, pushed>>

\* PushPeerReplica stages in this store's own replica directory, where the
\* peer's replicas arrive too, and sends the directory: whole, or the baselines
\* without meta.yaml, or nothing.  The counter is written last and may fail.
PushReplica(m) ==
    /\ pc[m] = "replica"
    /\ ask[Peer(m)].at = "installed" => "takeoverGap" \in Faults
    /\ Goto(m, "clear")
    /\ LET staged == [by |-> m, gen |-> gen[m] + 1, epoch |-> cfg[m].epoch,
                      of |-> base[m], base |-> base[m]]
       IN \/ \E counted \in BOOLEAN :
                /\ replica' = [n \in Macs |-> staged]
                /\ gen' = IF counted THEN [gen EXCEPT ![m] = staged.gen] ELSE gen
                /\ pushed' = base[m]
          \/ /\ \E mine \in {staged, NoReplica}, files \in {base[m], replica[Peer(m)].base} :
                   /\ files = base[m] => mine = staged
                   /\ replica' = [n \in Macs |->
                         IF n = m THEN mine ELSE [replica[n] EXCEPT !.base = files]]
             /\ UNCHANGED <<gen, pushed>>
    /\ UNCHANGED <<conf, sched, base, cfg, winner, job, hand, ask, exchange, leftOld>>

\* clearPeerFencePending loads the config again and changes that field alone.
\* A handover's required sync is complete, and cfg.OwnerEpoch + 1 its epoch.
ClearPending(m) ==
    /\ pc[m] = "clear"
    /\ conf' = IF cfg[m].pending THEN [conf EXCEPT ![m].pending = FALSE] ELSE conf
    /\ hand' = IF hand[m].at # "sync" THEN hand
               ELSE [hand EXCEPT ![m] = [at |-> "adopt", epoch |-> cfg[m].epoch + 1]]
    /\ End(m)
    /\ UNCHANGED <<sched, base, gen, replica, ask, history>>

-----------------------------------------------------------------------------
(* The planned switch: PeerHandover *)

HandGoto(m, l) == hand' = [hand EXCEPT ![m].at = l]
NoHandover(m) == hand' = [hand EXCEPT ![m] = [at |-> "no", epoch |-> 0]]

\* The handover ends early; moved says that the peer has the role and still its
\* old baselines.
Quits(m, moved) ==
    /\ NoHandover(m)
    /\ leftOld' = IF moved THEN leftOld \cup {Peer(m)} ELSE leftOld

\* CheckOwner, then the required sync in this process.
HandoverStart(m) ==
    /\ hand[m].at = "no"
    /\ conf[m].epoch < MaxEpoch
    /\ Start(m, FALSE)
    /\ HandGoto(m, "sync")
    /\ UNCHANGED <<stores, ask, history>>

\* Mutant of HandoverAdopt: a failed ssh is taken for the peer's adopt.
HandoverAdoptLost(m) ==
    /\ hand[m].at = "adopt"
    /\ NotWriting(m) /\ Undisturbed(Peer(m), {"peer"})
    /\ HandGoto(m, "local")
    /\ UNCHANGED <<stores, process, ask, history>>

\* `dot peer adopt --self` on the peer over ssh.
HandoverAdopt(m) ==
    /\ hand[m].at = "adopt"
    /\ NotWriting(m) /\ Undisturbed(Peer(m), {"peer"})
    /\ \E counted \in BOOLEAN :
          /\ PeerAdopt(Peer(m), Peer(m), hand[m].epoch, gen[m], FALSE, counted)
          /\ IF counted THEN HandGoto(m, "local") /\ UNCHANGED leftOld ELSE Quits(m, TRUE)
    /\ UNCHANGED <<sched, base, replica, process, ask, exchange, pushed>>

\* PeerAdopt here, with the zero value as in a demotion.
HandoverLocal(m) ==
    /\ hand[m].at = "local"
    /\ Undisturbed(m, {"handover"})
    /\ \E counted \in BOOLEAN :
          /\ PeerAdopt(m, Peer(m), hand[m].epoch, 0, FALSE, counted)
          /\ IF counted THEN HandGoto(m, "unsched") /\ UNCHANGED leftOld ELSE Quits(m, TRUE)
    /\ UNCHANGED <<sched, base, replica, process, ask, exchange, pushed>>

\* launchctl bootout ends the run the job had started.
BootOut(m, installed) ==
    /\ sched' = [sched EXCEPT ![m] = installed]
    /\ IF job[m] THEN End(m) ELSE UNCHANGED process

\* removePeerSchedulerArtifacts.
HandoverUnschedule(m) ==
    /\ hand[m].at = "unsched"
    /\ BootOut(m, FALSE)
    /\ HandGoto(m, "aside")
    /\ UNCHANGED <<conf, base, gen, replica, ask, history>>

\* Mutant of HandoverAside: the peer keeps its old baselines.
HandoverAsideSkipped(m) ==
    /\ hand[m].at = "aside"
    /\ HandGoto(m, "start")
    /\ UNCHANGED <<stores, process, ask, history>>

\* peerRemoteBaselinesAside.
HandoverAside(m) ==
    /\ hand[m].at = "aside"
    /\ base' = [base EXCEPT ![Peer(m)] = 0]
    /\ leftOld' = leftOld \ {Peer(m)}
    /\ HandGoto(m, "start")
    /\ UNCHANGED <<conf, sched, gen, replica, process, ask, exchange, pushed>>

\* `dot peer sync` on the peer, over ssh: the additive bootstrap.
HandoverSync(m) ==
    /\ hand[m].at = "start"
    /\ Start(Peer(m), FALSE)
    /\ HandGoto(m, "setup")
    /\ UNCHANGED <<stores, ask, history>>

\* PeerSchedule on m: the guard and, without a pending fence, both records.
MaySchedule(m) ==
    /\ CanPush(m, conf[m])
    /\ conf[m].pending \/ (conf[m].owner # Nobody /\ OwnersMatch(m, conf[m], conf[Peer(m)]))

\* `dot peer setup` on the peer once its sync is over; an unreachable, held or
\* demoted sync ends without an error too.
HandoverSetup(m) ==
    /\ hand[m].at = "setup"
    /\ pc[Peer(m)] = "idle"
    /\ MaySchedule(Peer(m))
    /\ \E loaded \in BOOLEAN : BootOut(Peer(m), loaded)
    /\ NoHandover(m)
    /\ UNCHANGED <<conf, base, gen, replica, ask, history>>

\* A step of the handover failed, or its process ended, wherever it stands.
HandoverStops(m) ==
    /\ hand[m].at \notin {"no", "sync"}
    /\ Quits(m, hand[m].at \in {"local", "unsched", "aside"})
    /\ UNCHANGED <<stores, process, ask, exchange, pushed>>

-----------------------------------------------------------------------------
(* The unplanned switch: PeerTakeover, and the operator's commands *)

\* loadPeerReplica: a whole replica that names this workspace as its target and
\* is not older than this store's counter.
Usable(m) ==
    /\ replica[m].by # m \/ SamePath
    /\ replica[m].gen > 0
    /\ replica[m].of = replica[m].base
    /\ replica[m].gen >= gen[m]

\* Mutant of TakeoverEpoch: this store's own epoch is forgotten.
TakeoverEpochOfReplica(m) == replica[m].epoch + 1

\* The epoch a takeover will adopt.
TakeoverEpoch(m) == Larger(conf[m].epoch, replica[m].epoch) + 1

\* The replica is validated; the operator is asked.
TakeoverAsk(m) ==
    /\ ask[m] = NotAsked
    /\ NoRun(m)
    /\ Usable(m)
    /\ ask' = [ask EXCEPT ![m] = [at |-> "asked", gen |-> replica[m].gen,
                                  epoch |-> TakeoverEpoch(m)]]
    /\ UNCHANGED <<stores, process, hand, history>>

\* Confirmed: the baselines, as they are in the replica now.
TakeoverInstall(m) ==
    /\ ask[m].at = "asked"
    /\ NotWriting(Peer(m)) /\ Undisturbed(m, {"takeover"}) /\ NoRun(m)
    /\ base' = [base EXCEPT ![m] = replica[m].base]
    /\ leftOld' = leftOld \ {m}
    /\ ask' = [ask EXCEPT ![m].at = "installed"]
    /\ UNCHANGED <<conf, sched, gen, replica, process, hand, exchange, pushed>>

\* And PeerAdopt.
TakeoverAdopt(m) ==
    /\ ask[m].at = "installed"
    /\ ask[m].epoch <= MaxEpoch
    /\ NotWriting(Peer(m)) /\ Undisturbed(m, {"takeover"}) /\ NoRun(m)
    /\ \E counted \in BOOLEAN : PeerAdopt(m, m, ask[m].epoch, ask[m].gen, TRUE, counted)
    /\ ask' = [ask EXCEPT ![m] = NotAsked]
    /\ UNCHANGED <<sched, base, replica, process, hand, history>>

\* Declined, or failed before its record is written.
TakeoverEnds(m) ==
    /\ ask[m] # NotAsked
    /\ ask' = [ask EXCEPT ![m] = NotAsked]
    /\ UNCHANGED <<stores, process, hand, history>>

\* The owner command confirms a coordinator no higher epoch has superseded.
Confirms(o) == o \in Macs /\ conf[o].owner = o /\ conf[Peer(o)].epoch <= conf[o].epoch

\* SetOwner, and the scheduler that goes with the role (runSyncOwner).
SetOwner(m, o) ==
    /\ conf[m].epoch < MaxEpoch
    /\ o = Nobody => conf[m].owner # Nobody
    /\ Confirms(o) \/ "setSwitch" \in Faults
    /\ NotWriting(Peer(m)) /\ Undisturbed(m, {})
    /\ conf' = [conf EXCEPT ![m] = [owner |-> o, epoch |-> @.epoch + 1, pending |-> FALSE]]
    /\ IF sched[m] /\ o # m THEN BootOut(m, FALSE) ELSE UNCHANGED <<sched, process>>
    /\ UNCHANGED <<base, gen, replica, hand, ask, history>>

\* `dot peer setup`, whose load may fail, and `dot peer setup --off`.
Setup(m) ==
    /\ MaySchedule(m)
    /\ \E loaded \in BOOLEAN : BootOut(m, loaded)
    /\ UNCHANGED <<conf, base, gen, replica, hand, ask, history>>

SetupOff(m) ==
    /\ sched[m]
    /\ BootOut(m, FALSE)
    /\ UNCHANGED <<conf, base, gen, replica, hand, ask, history>>

-----------------------------------------------------------------------------

Proceed(m) ==
    \/ FenceStep(m) \/ DemoteAdopt(m) \/ DemoteUnschedule(m) \/ Recheck(m)
    \/ PushDone(m) \/ Commit(m) \/ PushReplica(m) \/ ClearPending(m)

Handover(m) ==
    \/ HandoverStart(m) \/ HandoverAdopt(m) \/ HandoverLocal(m)
    \/ HandoverUnschedule(m) \/ HandoverAside(m) \/ HandoverSync(m)
    \/ HandoverSetup(m) \/ HandoverStops(m)

Operator(m) ==
    \/ TakeoverAsk(m) \/ TakeoverInstall(m) \/ TakeoverAdopt(m) \/ TakeoverEnds(m)
    \/ Setup(m) \/ SetupOff(m)
    \/ \E o \in Macs \cup {Nobody} : SetOwner(m, o)

Next ==
    \E m \in Macs :
        \/ \E scheduled \in BOOLEAN : SyncStart(m, scheduled)
        \/ Proceed(m) \/ SyncStops(m) \/ Handover(m) \/ Operator(m)

Spec == Init /\ [][Next]_vars

-----------------------------------------------------------------------------
(* Properties *)

\* Every variable keeps its type; the epoch and generation bounds are reached
\* only by the increments the code makes.
TypeOK ==
    /\ conf \in [Macs -> Conf]
    /\ sched \in [Macs -> BOOLEAN]
    /\ base \in [Macs -> 0..MaxExchange]
    /\ gen \in [Macs -> 0..MaxExchange]
    /\ replica \in [Macs -> Replicas]
    /\ pc \in [Macs -> Pcs]
    /\ cfg \in [Macs -> Conf]
    /\ winner \in [Macs -> Conf]
    /\ job \in [Macs -> BOOLEAN]
    /\ hand \in [Macs -> [at : Handovers, epoch : 0..MaxEpoch]]
    /\ ask \in [Macs -> [at : {"no", "asked", "installed"},
                        gen : 0..MaxExchange, epoch : 0..(MaxEpoch + 1)]]
    /\ exchange \in 0..MaxExchange
    /\ pushed \in 0..MaxExchange
    /\ leftOld \subseteq Macs

\* The two Macs are never both between their recheck and their last write to
\* the other, although both may pass their own owner guard and both run.
OneWriter == \A m, n \in Macs : pc[m] = "push" /\ pc[n] = "push" => m = n

\* At every moment of a switch, and wherever it stops, some Mac passes its
\* owner guard: the role is never given up before it is taken.
SomeCoordinator == \E m \in Macs : CanPush(m, conf[m])

\* No store's epoch goes back, whoever writes it: a demotion, either side of a
\* handover, a takeover or the owner command, with values computed earlier.
EpochNeverBack == [][\A m \in Macs : conf'[m].epoch >= conf[m].epoch]_vars

\* m's baseline records an exchange older than one whose replica the other Mac
\* has: deletes planned from it undo what the exchange brought.
Outdated(m) == base[m] # 0 /\ base[m] < pushed

\* A run that writes to the peer works from no baseline, or from one as recent
\* as the last exchange the other Mac was told of, unless a handover brought it
\* the role and ended before its baselines were aside (leftOld).
BaselineCurrent == \A m \in Macs : pc[m] = "push" => ~Outdated(m) \/ m \in leftOld

\* The same without the exception, as the help of the handover claims.  False:
\* its repair of one that stopped leaves the old baselines where they are.
BootstrapAdditive == \A m \in Macs : pc[m] = "push" => ~Outdated(m)

=============================================================================
