-------------------------- MODULE PeerOwnerProofs --------------------------
(***************************************************************************)
(* Proofs about PeerOwner, for every bound on epochs and exchanges.        *)
(*                                                                         *)
(* The argument.  A process acts on the copy of the record it read when it *)
(* started; what makes the copy good enough is the epoch.  A Mac past its  *)
(* recheck names itself and either has the larger epoch or has its peer's  *)
(* word for it (Leading), which only one of two Macs can.  A demotion      *)
(* adopts a record that has a larger epoch than its own and still not a    *)
(* larger one than its author's (Judged), and a handover gives the role up *)
(* after the peer has taken it at a larger epoch (Handing): so no step     *)
(* leaves both Macs naming the other, and no epoch goes back.              *)
(*                                                                         *)
(* For the baselines: whoever still may claim the role (Claims) has no     *)
(* baseline older than the last exchange the peer was told of, and neither *)
(* has a replica that can be taken over; a handover that moves the role    *)
(* sets the new coordinator's baseline aside before its first run, or ends *)
(* early and leaves it among leftOld.  A takeover installs its baseline    *)
(* before it claims the role, and must find it recent still.               *)
(***************************************************************************)
EXTENDS PeerOwner, TLAPS

\* No record is rewritten, and no role moved, under a process about to act on a
\* copy; the owner command confirms.
Ordered == Faults \subseteq {"takeoverGap"}

\* Nor does the peer's run end between the two halves of a takeover.
Strict == Faults = {}

\* Past the recheck.
Writing == {"push", "commit", "replica", "clear"}

Record == [owner : Macs \cup {Nobody}, epoch : Nat, pending : BOOLEAN]

\* Types without the bounds, and an owner is always recorded.
Typed ==
    /\ conf \in [Macs -> Record]
    /\ \A m \in Macs : conf[m].owner \in Macs
    /\ base \in [Macs -> Nat]
    /\ gen \in [Macs -> Nat]
    /\ replica \in [Macs -> [by : Macs \cup {Nobody}, gen : Nat, epoch : Nat,
                             of : Nat, base : Nat]]
    /\ pc \in [Macs -> Pcs]
    /\ cfg \in [Macs -> Record]
    /\ winner \in [Macs -> Record]
    /\ job \in [Macs -> BOOLEAN]
    /\ hand \in [Macs -> [at : Handovers, epoch : Nat]]
    /\ ask \in [Macs -> [at : {"no", "asked", "installed"}, gen : Nat, epoch : Nat]]
    /\ exchange \in Nat
    /\ pushed \in Nat
    /\ leftOld \subseteq Macs

\* The copy a process of m acts on: the record itself until it has passed the
\* fence, and never one of a later epoch.
Copied(m) ==
    /\ pc[m] = "fence" \/ winner[m] # Idle \/ (hand[m].at = "sync" /\ pc[m] # "hooks") =>
           cfg[m] = conf[m]
    /\ pc[m] # "idle" => cfg[m].owner = m /\ cfg[m].epoch <= conf[m].epoch
    /\ hand[m].at = "sync" => pc[m] # "idle" /\ ~job[m]

\* What a demotion is about to adopt.
Judged(m) ==
    winner[m] # Idle =>
        /\ pc[m] = "hooks"
        /\ cfg[m].epoch < winner[m].epoch /\ winner[m].epoch <= conf[Peer(m)].epoch
        /\ winner[m].epoch = conf[Peer(m)].epoch => winner[m].owner = conf[Peer(m)].owner
        /\ winner[m].owner \in Macs
        /\ winner[m].owner = Peer(m) => conf[Peer(m)].owner = Peer(m)

\* Where a handover has moved the role and not yet put the baselines aside.
Moving == {"local", "unsched", "aside"}

\* The order in which a handover changes the two records, and the peer's run
\* that began before it, which cannot pass its recheck.
Handing(m) ==
    /\ hand[m].at \in {"adopt", "local"} => conf[m].owner = m /\ conf[m].epoch < hand[m].epoch
    /\ hand[m].at = "adopt" => conf[Peer(m)].epoch <= conf[m].epoch
    /\ hand[m].at = "local" =>
           conf[Peer(m)].owner = Peer(m) /\ hand[m].epoch <= conf[Peer(m)].epoch
    /\ hand[m].at \in Moving => pc[Peer(m)] # "fence"
    /\ hand[m].at \in {"adopt"} \cup Moving =>
           /\ pc[Peer(m)] \notin Writing
           /\ pc[Peer(m)] = "pull" =>
                 /\ cfg[Peer(m)].epoch <= conf[m].epoch
                 /\ conf[m].owner = m \/ cfg[Peer(m)].epoch < conf[m].epoch

\* Why a Mac past its recheck is alone there.
Leading(m) ==
    pc[m] \in Writing =>
        /\ conf[m].owner = m
        /\ \/ conf[Peer(m)].epoch < conf[m].epoch
           \/ conf[Peer(m)].epoch = conf[m].epoch /\ conf[Peer(m)].owner = m

\* A Mac that lost the role during its pull will be refused by the recheck.
Pulling(m) ==
    pc[m] = "pull" =>
        \/ conf[m].owner = m
        \/ conf[Peer(m)].owner = Peer(m) /\ cfg[m].epoch <= conf[Peer(m)].epoch

\* What a takeover will adopt is newer than what is there.
Asking(m) ==
    ask[m] # NotAsked =>
        conf[m].epoch < ask[m].epoch /\ replica[m].gen > 0 /\ pc[m] = "idle"

Roles(m) == Copied(m) /\ Judged(m) /\ Handing(m) /\ Leading(m) /\ Pulling(m) /\ Asking(m)

Inv == Typed /\ SomeCoordinator /\ \A m \in Macs : Roles(m)

-----------------------------------------------------------------------------

LEMMA PeerFacts ==
  ASSUME NEW m \in Macs
  PROVE  /\ Peer(m) \in Macs /\ Peer(m) # m /\ Peer(Peer(m)) = m
         /\ Macs = {m, Peer(m)}
<1>1. PICK a, b \in Macs : a # b /\ Macs = {a, b}
  BY OwnerAssumption
<1>2. \A n \in Macs : Peer(n) \in Macs /\ Peer(n) # n
  BY <1>1 DEF Peer
<1> QED
  BY <1>1, <1>2

\* Who holds a copy of m's record, when its record is written.
LEMMA UndisturbedIs ==
  ASSUME Ordered, NEW m \in Macs, NEW own, Undisturbed(m, own)
  PROVE  /\ pc[m] \in {"fence", "hooks"} \/ hand[m].at = "sync" => "run" \in own
         /\ hand[m].at \in {"adopt", "local"} => "handover" \in own
         /\ hand[Peer(m)].at = "adopt" => "peer" \in own
         /\ ask[m] # NotAsked => "takeover" \in own
BY DEF Ordered, Undisturbed, Copies

\* bootout leaves the run of m alone, or ends one that no handover required.
Ended(m) ==
    /\ pc' \in [Macs -> Pcs] /\ job' \in [Macs -> BOOLEAN]
    /\ cfg' \in [Macs -> Record] /\ winner' \in [Macs -> Record]
    /\ \A n \in Macs : \/ /\ pc'[n] = pc[n] /\ job'[n] = job[n]
                         /\ cfg'[n] = cfg[n] /\ winner'[n] = winner[n]
                      \/ /\ n = m /\ job[m]
                         /\ pc'[m] = "idle" /\ cfg'[m] = Idle /\ winner'[m] = Idle

LEMMA BootOutEnds ==
  ASSUME Typed, NEW m \in Macs, NEW on \in BOOLEAN, BootOut(m, on)
  PROVE  Ended(m)
<1>1. Idle \in Record
  BY DEF Idle, Record
<1>2. CASE job[m]
  <2>1. /\ pc' = [pc EXCEPT ![m] = "idle"]
        /\ cfg' = [cfg EXCEPT ![m] = Idle]
        /\ winner' = [winner EXCEPT ![m] = Idle]
        /\ job' = [job EXCEPT ![m] = FALSE]
    BY <1>2 DEF BootOut, End, Goto
  <2>2. /\ pc' \in [Macs -> Pcs] /\ job' \in [Macs -> BOOLEAN]
        /\ cfg' \in [Macs -> Record] /\ winner' \in [Macs -> Record]
    BY <1>1, <2>1 DEF Typed, Pcs
  <2>3. pc'[m] = "idle" /\ cfg'[m] = Idle /\ winner'[m] = Idle
    BY <2>1 DEF Typed
  <2>4. ASSUME NEW n \in Macs, n # m
        PROVE  /\ pc'[n] = pc[n] /\ job'[n] = job[n]
               /\ cfg'[n] = cfg[n] /\ winner'[n] = winner[n]
    BY <2>1, <2>4 DEF Typed
  <2> QED
    BY <1>2, <2>2, <2>3, <2>4 DEF Ended
<1>3. CASE ~job[m]
  BY <1>3 DEF BootOut, Ended, Typed, process
<1> QED
  BY <1>2, <1>3

LEMMA BootOutJob ==
  ASSUME sched \in [Macs -> BOOLEAN], NEW m \in Macs, NEW on \in BOOLEAN, BootOut(m, on)
  PROVE  sched' \in [Macs -> BOOLEAN]
BY DEF BootOut

\* What a step of one Mac must keep: the invariant for it and for its peer,
\* and both epochs.
Kept(m, p) ==
    /\ Typed'
    /\ SomeCoordinator'
    /\ Roles(m)' /\ Roles(p)'
    /\ conf'[m].epoch >= conf[m].epoch
    /\ conf'[p].epoch >= conf[p].epoch

\* One step per action of Next: the post-state first, where it takes words, and
\* then each part of the invariant.
LEMMA MacStep ==
  ASSUME Ordered, Inv, NEW m \in Macs, NEW p \in Macs, p # m, Peer(m) = p, Peer(p) = m,
         \/ \E s \in BOOLEAN : SyncStart(m, s)
         \/ Proceed(m) \/ SyncStops(m) \/ Handover(m) \/ Operator(m)
  PROVE  Kept(m, p)
<1>0. /\ Typed /\ Roles(m) /\ Roles(p) /\ SomeCoordinator
      /\ Faults \cap {"window", "underRun", "setSwitch"} = {} /\ Macs = {m, p} /\ Ordered
  BY PeerFacts DEF Inv, Ordered
<1> USE DEF Kept, Typed, Pcs, Record, Idle, stores, process, history, SomeCoordinator, CanPush,
    Roles, Copied, Judged, Handing, Leading, Pulling, Asking, Writing, Moving, Handovers
<1>1. ASSUME NEW s \in BOOLEAN, SyncStart(m, s)
      PROVE  Kept(m, p)
  BY <1>1, <1>0, OwnerAssumption DEF SyncStart, Start
<1>2. ASSUME SyncStops(m)
      PROVE  Kept(m, p)
  BY <1>2, <1>0, OwnerAssumption DEF SyncStops, End, Goto, HandoverOver
<1>3. ASSUME FenceStep(m)
      PROVE  Kept(m, p)
  <2>1. /\ UNCHANGED <<conf, base, gen, replica, cfg, job, hand, ask, exchange, pushed, leftOld>>
        /\ pc[m] = "fence"
    BY <1>3 DEF FenceStep
  <2>2. \/ /\ Proceeds(m, cfg[m], conf[p])
           /\ pc' = [pc EXCEPT ![m] = "pull"]
           /\ winner' = winner
        \/ /\ cfg[m].epoch < conf[p].epoch
           /\ pc' = [pc EXCEPT ![m] = "hooks"]
           /\ winner' = [winner EXCEPT ![m] = conf[p]]
    BY <1>3 DEF FenceStep, Demotes, Goto
  <2>3. Proceeds(m, cfg[m], conf[p]) => conf[p].epoch <= cfg[m].epoch
    BY <1>0 DEF Proceeds
  <2>4. Typed'
    BY <1>0, <2>1, <2>2, <2>3
  <2>5. SomeCoordinator'
    BY <1>0, <2>1, <2>2, <2>3
  <2>6. Roles(m)'
    <3>1. CASE winner' = winner /\ Proceeds(m, cfg[m], conf[p]) /\ pc' = [pc EXCEPT ![m] = "pull"]
      BY <1>0, <2>1, <2>3, <3>1
    <3>2. CASE /\ cfg[m].epoch < conf[p].epoch
               /\ pc' = [pc EXCEPT ![m] = "hooks"]
               /\ winner' = [winner EXCEPT ![m] = conf[p]]
      BY <1>0, <2>1, <3>2
    <3> QED
      BY <2>2, <3>1, <3>2
  <2>7. Roles(p)'
    <3>1. CASE winner' = winner /\ Proceeds(m, cfg[m], conf[p]) /\ pc' = [pc EXCEPT ![m] = "pull"]
      BY <1>0, <2>1, <2>3, <3>1
    <3>2. CASE /\ cfg[m].epoch < conf[p].epoch
               /\ pc' = [pc EXCEPT ![m] = "hooks"]
               /\ winner' = [winner EXCEPT ![m] = conf[p]]
      BY <1>0, <2>1, <3>2
    <3> QED
      BY <2>2, <3>1, <3>2
  <2>8. conf'[m].epoch >= conf[m].epoch /\ conf'[p].epoch >= conf[p].epoch
    BY <1>0, <2>1, <2>2, <2>3
  <2> QED
    BY <2>4, <2>5, <2>6, <2>7, <2>8
<1>4. ASSUME DemoteAdopt(m)
      PROVE  Kept(m, p)
  <2>1. /\ pc[m] \in {"fence", "hooks"} \/ hand[m].at = "sync" => "run" \in {"run"}
        /\ hand[m].at \in {"adopt", "local"} => "handover" \in {"run"}
        /\ hand[p].at = "adopt" => "peer" \in {"run"}
        /\ ask[m] # NotAsked => "takeover" \in {"run"}
    BY <1>4, <1>0, UndisturbedIs DEF DemoteAdopt
  <2>2. /\ conf' = [conf EXCEPT ![m] = [owner |-> winner[m].owner, epoch |-> winner[m].epoch,
                                         pending |-> FALSE]]
        /\ gen' = [gen EXCEPT ![m] = 0] \/ gen' = gen
        /\ winner' = [winner EXCEPT ![m] = Idle]
        /\ \/ UNCHANGED <<pc, cfg, job, hand>>
           \/ /\ pc' = [pc EXCEPT ![m] = "idle"]
              /\ cfg' = [cfg EXCEPT ![m] = Idle]
              /\ job' = [job EXCEPT ![m] = FALSE]
              /\ hand' = IF hand[m].at = "sync" THEN [hand EXCEPT ![m] = [at |-> "no", epoch |-> 0]]
                          ELSE hand
        /\ pc[m] = "hooks" /\ winner[m] # Idle
        /\ UNCHANGED <<base, replica, ask, exchange, pushed, leftOld>>
    BY <1>4 DEF DemoteAdopt, PeerAdopt, End, Goto, HandoverOver
  <2>3. Typed'
    <3>1. CASE UNCHANGED <<pc, cfg, job, hand>>
      BY <1>0, <2>1, <2>2, <3>1
    <3>2. CASE /\ pc' = [pc EXCEPT ![m] = "idle"]
               /\ cfg' = [cfg EXCEPT ![m] = Idle]
               /\ job' = [job EXCEPT ![m] = FALSE]
               /\ hand' = IF hand[m].at = "sync"
                          THEN [hand EXCEPT ![m] = [at |-> "no", epoch |-> 0]] ELSE hand
      BY <1>0, <2>2, <3>2
    <3> QED
      BY <2>2, <3>1, <3>2
  <2>4. SomeCoordinator'
    BY <1>0, <2>1, <2>2
  <2>5. Roles(m)'
    BY <1>0, <2>1, <2>2
  <2>6. Roles(p)'
    BY <1>0, <2>1, <2>2
  <2>7. conf'[m].epoch >= conf[m].epoch /\ conf'[p].epoch >= conf[p].epoch
    BY <1>0, <2>1, <2>2
  <2> QED
    BY <2>3, <2>4, <2>5, <2>6, <2>7
<1>5. ASSUME DemoteUnschedule(m)
      PROVE  Kept(m, p)
  BY <1>5, <1>0, OwnerAssumption DEF DemoteUnschedule, End, Goto, HandoverOver
<1>6. ASSUME Recheck(m)
      PROVE  Kept(m, p)
  BY <1>6, <1>0, OwnerAssumption DEF Recheck, Proceeds, OwnersMatch, CanPush, Goto
<1>7. ASSUME PushDone(m)
      PROVE  Kept(m, p)
  BY <1>7, <1>0, OwnerAssumption DEF PushDone, Goto
<1>8. ASSUME Commit(m)
      PROVE  Kept(m, p)
  BY <1>8, <1>0, OwnerAssumption DEF Commit, Goto
<1>9. ASSUME PushReplica(m)
      PROVE  Kept(m, p)
  BY <1>9, <1>0, OwnerAssumption DEF PushReplica, Goto, NoReplica
<1>10. ASSUME ClearPending(m)
      PROVE  Kept(m, p)
  <2>1. UNCHANGED <<base, gen, replica, ask, exchange, pushed, leftOld>> /\ pc[m] = "clear"
    BY <1>10 DEF ClearPending
  <2>2. /\ conf' \in [Macs -> Record]
        /\ \A n \in Macs : conf'[n].owner = conf[n].owner /\ conf'[n].epoch = conf[n].epoch
        /\ conf'[p] = conf[p]
    <3>1. CASE cfg[m].pending
      <4>1. conf' = [conf EXCEPT ![m].pending = FALSE]
        BY <1>10, <3>1 DEF ClearPending
      <4>2. /\ conf'[m] = [conf[m] EXCEPT !.pending = FALSE]
            /\ conf'[p] = conf[p]
        BY <4>1, <1>0
      <4>3. conf'[m] \in Record /\ conf'[m].owner = conf[m].owner /\ conf'[m].epoch = conf[m].epoch
        BY <4>2, <1>0
      <4>4. conf' \in [Macs -> Record]
        BY <4>1, <4>2, <4>3, <1>0
      <4> QED
        BY <4>2, <4>3, <4>4, <1>0
    <3>2. CASE ~cfg[m].pending
      <4>1. conf' = conf
        BY <1>10, <3>2 DEF ClearPending
      <4> QED
        BY <4>1, <1>0
    <3> QED
      BY <3>1, <3>2
  <2>3. /\ pc' = [pc EXCEPT ![m] = "idle"]
        /\ cfg' = [cfg EXCEPT ![m] = Idle]
        /\ winner' = [winner EXCEPT ![m] = Idle]
        /\ job' = [job EXCEPT ![m] = FALSE]
    BY <1>10 DEF ClearPending, End, Goto
  <2>4. hand' = IF hand[m].at # "sync" THEN hand
                ELSE [hand EXCEPT ![m] = [at |-> "adopt", epoch |-> cfg[m].epoch + 1]]
    BY <1>10 DEF ClearPending
  <2>5. Typed'
    BY <1>0, <2>1, <2>2, <2>3, <2>4
  <2>6. SomeCoordinator'
    BY <1>0, <2>1, <2>2, <2>3, <2>4
  <2>7. Roles(m)'
    BY <1>0, <2>1, <2>2, <2>3, <2>4
  <2>8. Roles(p)'
    BY <1>0, <2>1, <2>2, <2>3, <2>4
  <2>9. conf'[m].epoch >= conf[m].epoch /\ conf'[p].epoch >= conf[p].epoch
    BY <1>0, <2>1, <2>2, <2>3, <2>4
  <2> QED
    BY <2>5, <2>6, <2>7, <2>8, <2>9
<1>11. ASSUME HandoverStart(m)
      PROVE  Kept(m, p)
  BY <1>11, <1>0, OwnerAssumption DEF HandoverStart, Start, HandGoto
<1>12. ASSUME HandoverAdopt(m)
      PROVE  Kept(m, p)
  <2>1. /\ pc[p] \in {"fence", "hooks"} \/ hand[p].at = "sync" => "run" \in {"peer"}
        /\ hand[p].at \in {"adopt", "local"} => "handover" \in {"peer"}
        /\ hand[m].at = "adopt" => "peer" \in {"peer"}
        /\ ask[p] # NotAsked => "takeover" \in {"peer"}
    BY <1>12, <1>0, UndisturbedIs DEF HandoverAdopt
  <2>2. /\ conf' = [conf EXCEPT ![p] = [owner |-> p, epoch |-> hand[m].epoch, pending |-> FALSE]]
        /\ gen' = [gen EXCEPT ![p] = gen[m]] \/ gen' = gen
        /\ \/ hand' = [hand EXCEPT ![m].at = "local"]
           \/ hand' = [hand EXCEPT ![m] = [at |-> "no", epoch |-> 0]]
        /\ leftOld' \subseteq Macs
        /\ hand[m].at = "adopt" /\ pc[m] \notin Writing
        /\ UNCHANGED <<base, replica, pc, cfg, winner, job, ask, exchange, pushed>>
    BY <1>12, <1>0 DEF HandoverAdopt, PeerAdopt, HandGoto, Quits, NoHandover, NotWriting
  <2>3. Typed'
    BY <1>0, <2>1, <2>2
  <2>4. SomeCoordinator'
    BY <1>0, <2>1, <2>2
  <2>5. Roles(m)'
    BY <1>0, <2>1, <2>2
  <2>6. Roles(p)'
    BY <1>0, <2>1, <2>2
  <2>7. conf'[m].epoch >= conf[m].epoch /\ conf'[p].epoch >= conf[p].epoch
    BY <1>0, <2>1, <2>2
  <2> QED
    BY <2>3, <2>4, <2>5, <2>6, <2>7
<1>13. ASSUME HandoverLocal(m)
      PROVE  Kept(m, p)
  <2>1. /\ pc[m] \in {"fence", "hooks"} \/ hand[m].at = "sync" => "run" \in {"handover"}
        /\ hand[m].at \in {"adopt", "local"} => "handover" \in {"handover"}
        /\ hand[p].at = "adopt" => "peer" \in {"handover"}
        /\ ask[m] # NotAsked => "takeover" \in {"handover"}
    BY <1>13, <1>0, UndisturbedIs DEF HandoverLocal
  <2>2. /\ conf' = [conf EXCEPT ![m] = [owner |-> p, epoch |-> hand[m].epoch, pending |-> FALSE]]
        /\ gen' = [gen EXCEPT ![m] = 0] \/ gen' = gen
        /\ \/ hand' = [hand EXCEPT ![m].at = "unsched"]
           \/ hand' = [hand EXCEPT ![m] = [at |-> "no", epoch |-> 0]]
        /\ leftOld' \subseteq Macs
        /\ hand[m].at = "local"
        /\ UNCHANGED <<base, replica, pc, cfg, winner, job, ask, exchange, pushed>>
    BY <1>13, <1>0 DEF HandoverLocal, PeerAdopt, HandGoto, Quits, NoHandover
  <2>3. Typed'
    BY <1>0, <2>1, <2>2
  <2>4. SomeCoordinator'
    BY <1>0, <2>1, <2>2
  <2>5. Roles(m)'
    BY <1>0, <2>1, <2>2
  <2>6. Roles(p)'
    BY <1>0, <2>1, <2>2
  <2>7. conf'[m].epoch >= conf[m].epoch /\ conf'[p].epoch >= conf[p].epoch
    BY <1>0, <2>1, <2>2
  <2> QED
    BY <2>3, <2>4, <2>5, <2>6, <2>7
<1>14. ASSUME HandoverUnschedule(m)
      PROVE  Kept(m, p)
  <2>1. /\ UNCHANGED <<conf, base, gen, replica, ask, exchange, pushed, leftOld>>
        /\ hand' = [hand EXCEPT ![m].at = "aside"] /\ hand[m].at = "unsched"
    BY <1>14 DEF HandoverUnschedule, HandGoto
  <2>2. Ended(m)
    BY <1>14, <1>0, BootOutEnds DEF HandoverUnschedule
  <2>3. Typed'
    BY <1>0, <2>1, <2>2 DEF Ended
  <2>4. SomeCoordinator'
    BY <1>0, <2>1, <2>2 DEF Ended
  <2>5. Roles(m)'
    BY <1>0, <2>1, <2>2 DEF Ended
  <2>6. Roles(p)'
    BY <1>0, <2>1, <2>2 DEF Ended
  <2>7. conf'[m].epoch >= conf[m].epoch /\ conf'[p].epoch >= conf[p].epoch
    BY <1>0, <2>1, <2>2 DEF Ended
  <2> QED
    BY <2>3, <2>4, <2>5, <2>6, <2>7
<1>15. ASSUME HandoverAside(m)
      PROVE  Kept(m, p)
  BY <1>15, <1>0, OwnerAssumption DEF HandoverAside, HandGoto
<1>16. ASSUME HandoverSync(m)
      PROVE  Kept(m, p)
  BY <1>16, <1>0, OwnerAssumption DEF HandoverSync, Start, HandGoto
<1>17. ASSUME HandoverSetup(m)
      PROVE  Kept(m, p)
  <2>1. /\ UNCHANGED <<conf, base, gen, replica, ask, exchange, pushed, leftOld>>
        /\ hand' = [hand EXCEPT ![m] = [at |-> "no", epoch |-> 0]] /\ hand[m].at = "setup"
    BY <1>17 DEF HandoverSetup, NoHandover
  <2>2. Ended(p)
    BY <1>17, <1>0, BootOutEnds DEF HandoverSetup
  <2>3. Typed'
    BY <1>0, <2>1, <2>2 DEF Ended
  <2>4. SomeCoordinator'
    BY <1>0, <2>1, <2>2 DEF Ended
  <2>5. Roles(m)'
    BY <1>0, <2>1, <2>2 DEF Ended
  <2>6. Roles(p)'
    BY <1>0, <2>1, <2>2 DEF Ended
  <2>7. conf'[m].epoch >= conf[m].epoch /\ conf'[p].epoch >= conf[p].epoch
    BY <1>0, <2>1, <2>2 DEF Ended
  <2> QED
    BY <2>3, <2>4, <2>5, <2>6, <2>7
<1>18. ASSUME HandoverStops(m)
      PROVE  Kept(m, p)
  BY <1>18, <1>0, OwnerAssumption DEF HandoverStops, Quits, NoHandover
<1>19. ASSUME TakeoverAsk(m)
      PROVE  Kept(m, p)
  BY <1>19, <1>0, OwnerAssumption DEF TakeoverAsk, NoRun, Usable, TakeoverEpoch, Larger, NotAsked
<1>20. ASSUME TakeoverInstall(m)
      PROVE  Kept(m, p)
  BY <1>20, <1>0 DEF TakeoverInstall, NotAsked
<1>21. ASSUME TakeoverAdopt(m)
      PROVE  Kept(m, p)
  <2>1. /\ pc[m] \in {"fence", "hooks"} \/ hand[m].at = "sync" => "run" \in {"takeover"}
        /\ hand[m].at \in {"adopt", "local"} => "handover" \in {"takeover"}
        /\ hand[p].at = "adopt" => "peer" \in {"takeover"}
        /\ ask[m] # NotAsked => "takeover" \in {"takeover"}
    BY <1>21, <1>0, UndisturbedIs DEF TakeoverAdopt
  <2>2. /\ conf' = [conf EXCEPT ![m] = [owner |-> m, epoch |-> ask[m].epoch, pending |-> TRUE]]
        /\ gen' = [gen EXCEPT ![m] = ask[m].gen] \/ gen' = gen
        /\ ask' = [ask EXCEPT ![m] = NotAsked]
        /\ ask[m] # NotAsked /\ pc[p] \notin Writing /\ pc[m] = "idle"
        /\ UNCHANGED <<base, replica, pc, cfg, winner, job, hand, exchange, pushed, leftOld>>
    BY <1>21, <1>0 DEF TakeoverAdopt, PeerAdopt, NotWriting, NoRun, NotAsked
  <2>3. NotAsked \in [at : {"no", "asked", "installed"}, gen : Nat, epoch : Nat]
    BY DEF NotAsked
  <2>4. Typed'
    BY <1>0, <2>1, <2>2, <2>3
  <2>5. SomeCoordinator'
    BY <1>0, <2>1, <2>2, <2>3
  <2>6. Roles(m)'
    BY <1>0, <2>1, <2>2, <2>3
  <2>7. Roles(p)'
    BY <1>0, <2>1, <2>2, <2>3
  <2>8. conf'[m].epoch >= conf[m].epoch /\ conf'[p].epoch >= conf[p].epoch
    BY <1>0, <2>1, <2>2, <2>3
  <2> QED
    BY <2>4, <2>5, <2>6, <2>7, <2>8
<1>24. ASSUME TakeoverEnds(m)
      PROVE  Kept(m, p)
  BY <1>24, <1>0, OwnerAssumption DEF TakeoverEnds, NotAsked
<1>22. ASSUME Setup(m) \/ SetupOff(m)
      PROVE  Kept(m, p)
  <2>1. UNCHANGED <<conf, base, gen, replica, hand, ask, exchange, pushed, leftOld>>
    BY <1>22 DEF Setup, SetupOff
  <2>2. Ended(m)
    BY <1>22, <1>0, BootOutEnds DEF Setup, SetupOff
  <2>3. Typed'
    BY <1>0, <2>1, <2>2 DEF Ended
  <2>4. SomeCoordinator'
    BY <1>0, <2>1, <2>2 DEF Ended
  <2>5. Roles(m)'
    BY <1>0, <2>1, <2>2 DEF Ended
  <2>6. Roles(p)'
    BY <1>0, <2>1, <2>2 DEF Ended
  <2>7. conf'[m].epoch >= conf[m].epoch /\ conf'[p].epoch >= conf[p].epoch
    BY <1>0, <2>1, <2>2 DEF Ended
  <2> QED
    BY <2>3, <2>4, <2>5, <2>6, <2>7
<1>23. ASSUME NEW o \in Macs \cup {Nobody}, SetOwner(m, o)
      PROVE  Kept(m, p)
  <2>1. /\ pc[m] \in {"fence", "hooks"} \/ hand[m].at = "sync" => "run" \in {}
        /\ hand[m].at \in {"adopt", "local"} => "handover" \in {}
        /\ hand[p].at = "adopt" => "peer" \in {}
        /\ ask[m] # NotAsked => "takeover" \in {}
    BY <1>23, <1>0, UndisturbedIs DEF SetOwner
  <2>2. /\ conf' = [conf EXCEPT ![m] = [owner |-> o, epoch |-> conf[m].epoch + 1,
                                         pending |-> FALSE]]
        /\ o \in Macs /\ conf[o].owner = o /\ conf[Peer(o)].epoch <= conf[o].epoch
        /\ pc[p] \notin Writing
        /\ UNCHANGED <<base, gen, replica, hand, ask, exchange, pushed, leftOld>>
    BY <1>23, <1>0 DEF SetOwner, Confirms, NotWriting
  <2>3. Ended(m)
    <3>1. CASE sched[m] /\ o # m
      BY <1>23, <1>0, <3>1, BootOutEnds DEF SetOwner
    <3>2. CASE ~(sched[m] /\ o # m)
      BY <1>23, <1>0, <3>2 DEF SetOwner, Ended
    <3> QED
      BY <3>1, <3>2
  <2>4. o = m \/ o = p
    BY <2>2, PeerFacts
  <2>5. Typed'
    BY <1>0, <2>1, <2>2, <2>3, <2>4 DEF Ended
  <2>6. SomeCoordinator'
    BY <1>0, <2>1, <2>2, <2>3, <2>4 DEF Ended
  <2>7. Roles(m)'
    BY <1>0, <2>1, <2>2, <2>3, <2>4 DEF Ended
  <2>8. Roles(p)'
    BY <1>0, <2>1, <2>2, <2>3, <2>4 DEF Ended
  <2>9. conf'[m].epoch >= conf[m].epoch /\ conf'[p].epoch >= conf[p].epoch
    BY <1>0, <2>1, <2>2, <2>3, <2>4 DEF Ended
  <2> QED
    BY <2>5, <2>6, <2>7, <2>8, <2>9
<1> QED
  BY <1>1, <1>2, <1>3, <1>4, <1>5, <1>6, <1>7, <1>8, <1>9, <1>10, <1>11,
     <1>12, <1>13, <1>14, <1>15, <1>16, <1>17, <1>18, <1>19, <1>20, <1>21, <1>22, <1>23,
     <1>24
     DEF Proceed, Handover, Operator

-----------------------------------------------------------------------------

LEMMA InvInit == Init => Inv
<1> SUFFICES ASSUME Init PROVE Inv
  OBVIOUS
<1>1. PICK c \in Macs :
        /\ conf = [m \in Macs |-> [owner |-> c, epoch |-> 0, pending |-> FALSE]]
        /\ base = [m \in Macs |-> 0]
        /\ gen = [m \in Macs |-> 0]
        /\ replica = [m \in Macs |-> NoReplica]
        /\ pc = [m \in Macs |-> "idle"]
        /\ cfg = [m \in Macs |-> Idle]
        /\ winner = [m \in Macs |-> Idle]
        /\ job = [m \in Macs |-> FALSE]
        /\ hand = [m \in Macs |-> [at |-> "no", epoch |-> 0]]
        /\ ask = [m \in Macs |-> NotAsked]
        /\ exchange = 0
        /\ pushed = 0
        /\ leftOld = {}
  BY DEF Init
<1>2. Typed
  BY <1>1 DEF Typed, Record, NoReplica, Idle, Pcs, Handovers, NotAsked
<1>3. SomeCoordinator
  BY <1>1 DEF SomeCoordinator, CanPush
<1>4. ASSUME NEW m \in Macs PROVE Roles(m)
  BY <1>1 DEF Roles, Copied, Judged, Handing, Leading, Pulling, Asking, Writing, Moving
<1> QED
  BY <1>2, <1>3, <1>4 DEF Inv

\* A step of the system is a step of one Mac.
LEMMA OneMac ==
  ASSUME Next
  PROVE  \E m \in Macs :
            \/ \E s \in BOOLEAN : SyncStart(m, s)
            \/ Proceed(m) \/ SyncStops(m) \/ Handover(m) \/ Operator(m)
BY DEF Next

LEMMA NextKeeps ==
  ASSUME Ordered, Inv, Next
  PROVE  Inv' /\ \A n \in Macs : conf'[n].epoch >= conf[n].epoch
<1>1. PICK m \in Macs : \/ \E s \in BOOLEAN : SyncStart(m, s)
                        \/ Proceed(m) \/ SyncStops(m) \/ Handover(m) \/ Operator(m)
  BY OneMac
<1>2. Peer(m) \in Macs /\ Peer(m) # m /\ Peer(Peer(m)) = m /\ Macs = {m, Peer(m)}
  BY PeerFacts
<1>3. Kept(m, Peer(m))
  BY <1>1, <1>2, MacStep
<1> QED
  BY <1>2, <1>3 DEF Kept, Inv

LEMMA Stutter ==
  ASSUME Inv, UNCHANGED vars
  PROVE  Inv' /\ \A n \in Macs : conf'[n].epoch >= conf[n].epoch
BY DEF Inv, Typed, Record, SomeCoordinator, Roles, Copied, Judged, Handing, Leading, Pulling,
   Asking, vars, stores, process, history

LEMMA InvStep == Ordered /\ Inv /\ [Next]_vars => Inv'
BY NextKeeps, Stutter

LEMMA AtMostOne ==
  ASSUME Inv, NEW m \in Macs, NEW n \in Macs, pc[m] \in Writing, pc[n] \in Writing
  PROVE  m = n
<1> SUFFICES ASSUME m # n PROVE FALSE
  OBVIOUS
<1>1. n = Peer(m) /\ m = Peer(n)
  BY PeerFacts
<1> QED
  BY <1>1 DEF Inv, Roles, Leading, Typed, Record

-----------------------------------------------------------------------------

\* The two Macs are never both between their recheck and their last write to
\* the other (recheckPeerOwnerBeforeMutation), for any number of switches.
THEOREM SingleWriter == Ordered => (Spec => []OneWriter)
<1> SUFFICES ASSUME Ordered PROVE Spec => []OneWriter
  OBVIOUS
<1>1. Ordered /\ Inv /\ [Next]_vars => Inv'
  BY InvStep
<1>2. Inv => OneWriter
  BY AtMostOne DEF OneWriter, Writing
<1> QED
  BY <1>1, <1>2, InvInit, PTL DEF Spec

\* Wherever a switch stops, a handover between its peer's adopt and its own
\* included, some Mac passes its owner guard (CheckOwner).
THEOREM RoleNeverLost == Ordered => (Spec => []SomeCoordinator)
<1> SUFFICES ASSUME Ordered PROVE Spec => []SomeCoordinator
  OBVIOUS
<1>1. Ordered /\ Inv /\ [Next]_vars => Inv'
  BY InvStep
<1>2. Inv => SomeCoordinator
  BY DEF Inv
<1> QED
  BY <1>1, <1>2, InvInit, PTL DEF Spec

\* Whoever writes a store's epoch, with a value computed from what it read
\* earlier, never takes it back (PeerAdopt, SetOwner).
THEOREM EpochsRise == Ordered => (Spec => EpochNeverBack)
<1> SUFFICES ASSUME Ordered PROVE Spec => EpochNeverBack
  OBVIOUS
<1>1. Ordered /\ Inv /\ [Next]_vars => Inv'
  BY InvStep
<1>2. Ordered /\ Inv /\ [Next]_vars => [\A m \in Macs : conf'[m].epoch >= conf[m].epoch]_vars
  BY NextKeeps
<1> QED
  BY <1>1, <1>2, InvInit, PTL DEF Spec, EpochNeverBack

-----------------------------------------------------------------------------

\* m names itself, and its peer has not superseded it.
Claims(m) ==
    /\ conf[m].owner = m
    /\ conf[Peer(m)].epoch <= conf[m].epoch \/ conf[Peer(m)].owner = m

\* A replica that can be taken over, and the baseline of a Mac that claims the
\* role, are as recent as what the peer was told.
Recent(m) ==
    /\ replica[m].gen > 0 => replica[m].base >= pushed
    /\ pc[m] = "replica" => base[m] = exchange
    /\ Claims(m) =>
          ~Outdated(m) \/ hand[Peer(m)].at \in Moving \/ m \in leftOld
    /\ ask[m].at = "installed" => ~Outdated(m)

Told == pushed <= exchange /\ \A m \in Macs : Recent(m)

\* What a step of one Mac must keep of the baselines.
Current(m, p) == (pushed <= exchange)' /\ Recent(m)' /\ Recent(p)'

LEMMA BaseStep ==
  ASSUME Strict, Inv, Inv', Told, NEW m \in Macs, NEW p \in Macs, p # m,
         Peer(m) = p, Peer(p) = m,
         \/ \E s \in BOOLEAN : SyncStart(m, s)
         \/ Proceed(m) \/ SyncStops(m) \/ Handover(m) \/ Operator(m)
  PROVE  Current(m, p)
<1>0. /\ Typed /\ Typed' /\ Roles(m) /\ Roles(p) /\ pushed <= exchange /\ Recent(m) /\ Recent(p)
      /\ Roles(m)' /\ Roles(p)'
      /\ Faults = {} /\ Macs = {m, p} /\ Ordered
  BY PeerFacts DEF Inv, Ordered, Told, Strict
<1> USE DEF Current, Recent, Claims, Outdated, Typed, Pcs, Record, Idle, stores, process, history,
    Roles, Copied, Judged, Handing, Leading, Pulling, Asking, Writing, Moving, Handovers
<1>1. ASSUME NEW s \in BOOLEAN, SyncStart(m, s)
      PROVE  Current(m, p)
  BY <1>1, <1>0 DEF SyncStart, Start
<1>2. ASSUME SyncStops(m)
      PROVE  Current(m, p)
  BY <1>2, <1>0 DEF SyncStops, End, Goto, HandoverOver
<1>3. ASSUME FenceStep(m)
      PROVE  Current(m, p)
  BY <1>3, <1>0 DEF FenceStep, Proceeds, Demotes, OwnersMatch, CanPush, Goto
<1>4. ASSUME DemoteAdopt(m)
      PROVE  Current(m, p)
  BY <1>4, <1>0 DEF DemoteAdopt, PeerAdopt, Undisturbed, Copies, End, Goto, HandoverOver
<1>5. ASSUME DemoteUnschedule(m)
      PROVE  Current(m, p)
  BY <1>5, <1>0 DEF DemoteUnschedule, End, Goto, HandoverOver
<1>6. ASSUME Recheck(m)
      PROVE  Current(m, p)
  BY <1>6, <1>0 DEF Recheck, Proceeds, OwnersMatch, CanPush, Goto
<1>7. ASSUME PushDone(m)
      PROVE  Current(m, p)
  BY <1>7, <1>0 DEF PushDone, Goto
<1>8. ASSUME Commit(m)
      PROVE  Current(m, p)
  BY <1>8, <1>0 DEF Commit, Goto
<1>9. ASSUME PushReplica(m)
      PROVE  Current(m, p)
  BY <1>9, <1>0 DEF PushReplica, Goto, NoReplica
<1>10. ASSUME ClearPending(m)
      PROVE  Current(m, p)
  BY <1>10, <1>0 DEF ClearPending, End, Goto
<1>11. ASSUME HandoverStart(m)
      PROVE  Current(m, p)
  BY <1>11, <1>0 DEF HandoverStart, Start, HandGoto
<1>12. ASSUME HandoverAdopt(m)
      PROVE  Current(m, p)
  BY <1>12, <1>0 DEF HandoverAdopt, NotWriting, Undisturbed, Copies, PeerAdopt, HandGoto, Quits,
     NoHandover
<1>13. ASSUME HandoverLocal(m)
      PROVE  Current(m, p)
  BY <1>13, <1>0 DEF HandoverLocal, Undisturbed, Copies, PeerAdopt, HandGoto, Quits, NoHandover
<1>14. ASSUME HandoverUnschedule(m)
      PROVE  Current(m, p)
  BY <1>14, <1>0 DEF HandoverUnschedule, BootOut, End, Goto, HandGoto
<1>15. ASSUME HandoverAside(m)
      PROVE  Current(m, p)
  BY <1>15, <1>0 DEF HandoverAside, HandGoto
<1>16. ASSUME HandoverSync(m)
      PROVE  Current(m, p)
  BY <1>16, <1>0 DEF HandoverSync, Start, HandGoto
<1>17. ASSUME HandoverSetup(m)
      PROVE  Current(m, p)
  BY <1>17, <1>0 DEF HandoverSetup, BootOut, End, Goto, NoHandover
<1>18. ASSUME HandoverStops(m)
      PROVE  Current(m, p)
  BY <1>18, <1>0 DEF HandoverStops, Quits, NoHandover
<1>19. ASSUME TakeoverAsk(m)
      PROVE  Current(m, p)
  BY <1>19, <1>0 DEF TakeoverAsk, NoRun, Usable, TakeoverEpoch, Larger, NotAsked
<1>20. ASSUME TakeoverInstall(m)
      PROVE  Current(m, p)
  BY <1>20, <1>0 DEF TakeoverInstall, NotAsked
<1>21. ASSUME TakeoverAdopt(m)
      PROVE  Current(m, p)
  BY <1>21, <1>0 DEF TakeoverAdopt, NotWriting, Undisturbed, Copies, NoRun, PeerAdopt, NotAsked
<1>24. ASSUME TakeoverEnds(m)
      PROVE  Current(m, p)
  BY <1>24, <1>0 DEF TakeoverEnds, NotAsked
<1>22. ASSUME Setup(m) \/ SetupOff(m)
      PROVE  Current(m, p)
  BY <1>22, <1>0 DEF Setup, SetupOff, BootOut, End, Goto
<1>23. ASSUME NEW o \in Macs \cup {Nobody}, SetOwner(m, o)
      PROVE  Current(m, p)
  BY <1>23, <1>0 DEF SetOwner, Confirms, NotWriting, Undisturbed, Copies, BootOut, End, Goto
<1> QED
  BY <1>1, <1>2, <1>3, <1>4, <1>5, <1>6, <1>7, <1>8, <1>9, <1>10, <1>11,
     <1>12, <1>13, <1>14, <1>15, <1>16, <1>17, <1>18, <1>19, <1>20, <1>21, <1>22, <1>23,
     <1>24
     DEF Proceed, Handover, Operator

LEMMA ToldStep == Strict /\ (Inv /\ Told) /\ [Next]_vars => (Inv /\ Told)'
<1> SUFFICES ASSUME Strict, Inv, Told, [Next]_vars PROVE (Inv /\ Told)'
  OBVIOUS
<1>1. Inv'
  BY InvStep DEF Strict, Ordered
<1>2. CASE Next
  <2>1. PICK m \in Macs : \/ \E s \in BOOLEAN : SyncStart(m, s)
                          \/ Proceed(m) \/ SyncStops(m) \/ Handover(m) \/ Operator(m)
    BY <1>2, OneMac
  <2>2. Peer(m) \in Macs /\ Peer(m) # m /\ Peer(Peer(m)) = m /\ Macs = {m, Peer(m)}
    BY PeerFacts
  <2>3. Current(m, Peer(m))
    BY <1>1, <2>1, <2>2, BaseStep
  <2> QED
    BY <1>1, <2>2, <2>3 DEF Current, Told
<1>3. CASE UNCHANGED vars
  BY <1>1, <1>3 DEF Told, Recent, Claims, Outdated, vars, stores, process, history
<1> QED
  BY <1>2, <1>3

\* A run that writes to the peer works from no baseline, or from one as recent
\* as the last exchange the other Mac was told of (CommitPeerBaseline,
\* PushPeerReplica), unless the last handover to its Mac ended between the adopt
\* and the move of the baselines (peer_handover.go:722-746), whoever's error or
\* stop ended it; any number of other switches changes nothing.
THEOREM BaselinesCurrent == Strict => (Spec => []BaselineCurrent)
<1> SUFFICES ASSUME Strict PROVE Spec => []BaselineCurrent
  OBVIOUS
<1>1. Init => Inv /\ Told
  <2> SUFFICES ASSUME Init PROVE Told
    BY InvInit
  <2>1. /\ base = [m \in Macs |-> 0] /\ replica = [m \in Macs |-> NoReplica]
        /\ pc = [m \in Macs |-> "idle"] /\ exchange = 0 /\ pushed = 0
    BY DEF Init
  <2>2. \A m \in Macs : base[m] = 0 /\ replica[m].gen = 0 /\ pc[m] = "idle"
    BY <2>1 DEF NoReplica
  <2> QED
    BY <2>1, <2>2 DEF Told, Recent, Outdated
<1>2. Strict /\ (Inv /\ Told) /\ [Next]_vars => (Inv /\ Told)'
  BY ToldStep
<1>3. ASSUME Inv, Told PROVE BaselineCurrent
  <2> SUFFICES ASSUME NEW m \in Macs, pc[m] = "push"
               PROVE  ~Outdated(m) \/ m \in leftOld
    BY DEF BaselineCurrent
  <2>1. Roles(m) /\ Roles(Peer(m)) /\ Recent(m) /\ Peer(m) \in Macs /\ Peer(Peer(m)) = m
    BY <1>3, PeerFacts DEF Inv, Told
  <2>2. Claims(m)
    BY <1>3, <2>1 DEF Roles, Leading, Writing, Claims, Inv, Typed, Record
  <2>3. hand[Peer(m)].at \notin Moving
    BY <2>1 DEF Roles, Handing, Writing
  <2> QED
    BY <2>1, <2>2, <2>3 DEF Recent
<1> QED
  BY <1>1, <1>2, <1>3, PTL DEF Spec

-----------------------------------------------------------------------------

\* Epochs rise with the switches alone, and no generation counter or baseline
\* is ahead of the complete exchanges.
Bounded(m) ==
    /\ conf[m].epoch <= MaxEpoch /\ cfg[m].epoch <= MaxEpoch
    /\ winner[m].epoch <= MaxEpoch /\ hand[m].epoch <= MaxEpoch
    /\ replica[m].epoch <= MaxEpoch /\ ask[m].epoch <= MaxEpoch + 1
    /\ hand[m].at = "sync" => cfg[m].epoch < MaxEpoch
    /\ base[m] <= exchange /\ gen[m] <= exchange /\ ask[m].gen <= exchange
    /\ replica[m].gen <= exchange /\ replica[m].of <= exchange /\ replica[m].base <= exchange
    /\ pc[m] = "replica" => gen[m] < exchange

Bounds ==
    /\ sched \in [Macs -> BOOLEAN]
    /\ exchange <= MaxExchange /\ pushed <= exchange
    /\ \A m \in Macs : Bounded(m)

\* What a step of one Mac must keep of the bounds.
Within(m, p) ==
    /\ sched' \in [Macs -> BOOLEAN]
    /\ (exchange <= MaxExchange)' /\ (pushed <= exchange)'
    /\ Bounded(m)' /\ Bounded(p)'

LEMMA BoundsStep ==
  ASSUME Ordered, Inv, Inv', Bounds, NEW m \in Macs, NEW p \in Macs, p # m,
         Peer(m) = p, Peer(p) = m,
         \/ \E s \in BOOLEAN : SyncStart(m, s)
         \/ Proceed(m) \/ SyncStops(m) \/ Handover(m) \/ Operator(m)
  PROVE  Within(m, p)
<1>0. /\ Typed /\ Typed' /\ Roles(m) /\ Roles(p) /\ Roles(m)' /\ Roles(p)'
      /\ Bounded(m) /\ Bounded(p) /\ exchange <= MaxExchange /\ pushed <= exchange
      /\ sched \in [Macs -> BOOLEAN] /\ MaxEpoch \in Nat /\ MaxExchange \in Nat
      /\ Macs = {m, p} /\ Ordered
  BY PeerFacts, OwnerAssumption DEF Inv, Bounds
<1> USE DEF Within, Bounded, Typed, Pcs, Record, Idle, stores, process, history,
    Roles, Copied, Judged, Handing, Leading, Pulling, Asking, Writing, Moving, Handovers
<1>1. ASSUME NEW s \in BOOLEAN, SyncStart(m, s)
      PROVE  Within(m, p)
  BY <1>1, <1>0 DEF SyncStart, Start
<1>2. ASSUME SyncStops(m)
      PROVE  Within(m, p)
  BY <1>2, <1>0 DEF SyncStops, End, Goto, HandoverOver
<1>3. ASSUME FenceStep(m)
      PROVE  Within(m, p)
  BY <1>3, <1>0 DEF FenceStep, Proceeds, Demotes, OwnersMatch, CanPush, Goto
<1>4. ASSUME DemoteAdopt(m)
      PROVE  Within(m, p)
  <2>1. /\ conf' = [conf EXCEPT ![m] = [owner |-> winner[m].owner, epoch |-> winner[m].epoch,
                                         pending |-> FALSE]]
        /\ gen' = [gen EXCEPT ![m] = 0] \/ gen' = gen
        /\ winner' = [winner EXCEPT ![m] = Idle]
        /\ \/ UNCHANGED <<pc, cfg, job, hand>>
           \/ /\ pc' = [pc EXCEPT ![m] = "idle"]
              /\ cfg' = [cfg EXCEPT ![m] = Idle]
              /\ job' = [job EXCEPT ![m] = FALSE]
              /\ hand' = IF hand[m].at = "sync" THEN [hand EXCEPT ![m] = [at |-> "no", epoch |-> 0]]
                          ELSE hand
        /\ pc[m] = "hooks"
        /\ UNCHANGED <<sched, base, replica, ask, exchange, pushed>>
    BY <1>4 DEF DemoteAdopt, PeerAdopt, End, Goto, HandoverOver
  <2>2. sched' \in [Macs -> BOOLEAN] /\ (exchange <= MaxExchange)' /\ (pushed <= exchange)'
    BY <1>0, <2>1
  <2>3. Bounded(m)'
    BY <1>0, <2>1
  <2>4. Bounded(p)'
    BY <1>0, <2>1
  <2> QED
    BY <2>2, <2>3, <2>4
<1>5. ASSUME DemoteUnschedule(m)
      PROVE  Within(m, p)
  BY <1>5, <1>0 DEF DemoteUnschedule, End, Goto, HandoverOver
<1>6. ASSUME Recheck(m)
      PROVE  Within(m, p)
  BY <1>6, <1>0 DEF Recheck, Proceeds, OwnersMatch, CanPush, Goto
<1>7. ASSUME PushDone(m)
      PROVE  Within(m, p)
  BY <1>7, <1>0 DEF PushDone, Goto
<1>8. ASSUME Commit(m)
      PROVE  Within(m, p)
  BY <1>8, <1>0 DEF Commit, Goto
<1>9. ASSUME PushReplica(m)
      PROVE  Within(m, p)
  BY <1>9, <1>0 DEF PushReplica, Goto, NoReplica
<1>10. ASSUME ClearPending(m)
      PROVE  Within(m, p)
  BY <1>10, <1>0 DEF ClearPending, End, Goto
<1>11. ASSUME HandoverStart(m)
      PROVE  Within(m, p)
  BY <1>11, <1>0 DEF HandoverStart, Start, HandGoto
<1>12. ASSUME HandoverAdopt(m)
      PROVE  Within(m, p)
  <2>1. /\ conf' = [conf EXCEPT ![p] = [owner |-> p, epoch |-> hand[m].epoch, pending |-> FALSE]]
        /\ gen' = [gen EXCEPT ![p] = gen[m]] \/ gen' = gen
        /\ \/ hand' = [hand EXCEPT ![m].at = "local"]
           \/ hand' = [hand EXCEPT ![m] = [at |-> "no", epoch |-> 0]]
        /\ hand[m].at = "adopt"
        /\ UNCHANGED <<sched, base, replica, pc, cfg, winner, job, ask, exchange, pushed>>
    BY <1>12, <1>0 DEF HandoverAdopt, PeerAdopt, HandGoto, Quits, NoHandover
  <2>2. sched' \in [Macs -> BOOLEAN] /\ (exchange <= MaxExchange)' /\ (pushed <= exchange)'
    BY <1>0, <2>1
  <2>3. Bounded(m)'
    BY <1>0, <2>1
  <2>4. Bounded(p)'
    BY <1>0, <2>1
  <2> QED
    BY <2>2, <2>3, <2>4
<1>13. ASSUME HandoverLocal(m)
      PROVE  Within(m, p)
  BY <1>13, <1>0 DEF HandoverLocal, PeerAdopt, HandGoto, Quits, NoHandover
<1>14. ASSUME HandoverUnschedule(m)
      PROVE  Within(m, p)
  BY <1>14, <1>0 DEF HandoverUnschedule, BootOut, End, Goto, HandGoto
<1>15. ASSUME HandoverAside(m)
      PROVE  Within(m, p)
  BY <1>15, <1>0 DEF HandoverAside, HandGoto
<1>16. ASSUME HandoverSync(m)
      PROVE  Within(m, p)
  BY <1>16, <1>0 DEF HandoverSync, Start, HandGoto
<1>17. ASSUME HandoverSetup(m)
      PROVE  Within(m, p)
  BY <1>17, <1>0 DEF HandoverSetup, BootOut, End, Goto, NoHandover
<1>18. ASSUME HandoverStops(m)
      PROVE  Within(m, p)
  BY <1>18, <1>0 DEF HandoverStops, Quits, NoHandover
<1>19. ASSUME TakeoverAsk(m)
      PROVE  Within(m, p)
  BY <1>19, <1>0 DEF TakeoverAsk, NoRun, Usable, TakeoverEpoch, Larger, NotAsked
<1>20. ASSUME TakeoverInstall(m)
      PROVE  Within(m, p)
  BY <1>20, <1>0 DEF TakeoverInstall, NotAsked
<1>21. ASSUME TakeoverAdopt(m)
      PROVE  Within(m, p)
  BY <1>21, <1>0 DEF TakeoverAdopt, NotWriting, Undisturbed, Copies, NoRun, PeerAdopt, NotAsked
<1>24. ASSUME TakeoverEnds(m)
      PROVE  Within(m, p)
  BY <1>24, <1>0 DEF TakeoverEnds, NotAsked
<1>22. ASSUME Setup(m) \/ SetupOff(m)
      PROVE  Within(m, p)
  <2>1. UNCHANGED <<conf, base, gen, replica, hand, ask, exchange, pushed>>
    BY <1>22 DEF Setup, SetupOff
  <2>2. Ended(m)
    BY <1>22, <1>0, BootOutEnds DEF Setup, SetupOff
  <2>3. sched' \in [Macs -> BOOLEAN]
    BY <1>22, <1>0, BootOutJob DEF Setup, SetupOff
  <2>4. sched' \in [Macs -> BOOLEAN] /\ (exchange <= MaxExchange)' /\ (pushed <= exchange)'
    BY <1>0, <2>1, <2>2, <2>3 DEF Ended
  <2>5. Bounded(m)'
    BY <1>0, <2>1, <2>2, <2>3 DEF Ended
  <2>6. Bounded(p)'
    BY <1>0, <2>1, <2>2, <2>3 DEF Ended
  <2> QED
    BY <2>4, <2>5, <2>6
<1>23. ASSUME NEW o \in Macs \cup {Nobody}, SetOwner(m, o)
      PROVE  Within(m, p)
  <2>1. /\ conf' = [conf EXCEPT ![m] = [owner |-> o, epoch |-> conf[m].epoch + 1,
                                         pending |-> FALSE]]
        /\ conf[m].epoch < MaxEpoch
        /\ UNCHANGED <<base, gen, replica, hand, ask, exchange, pushed>>
    BY <1>23, <1>0 DEF SetOwner
  <2>2. Ended(m)
    <3>1. CASE sched[m] /\ o # m
      BY <1>23, <1>0, <3>1, BootOutEnds DEF SetOwner
    <3>2. CASE ~(sched[m] /\ o # m)
      BY <1>23, <1>0, <3>2 DEF SetOwner, Ended
    <3> QED
      BY <3>1, <3>2
  <2>3. sched' \in [Macs -> BOOLEAN]
    <3>1. CASE sched[m] /\ o # m
      BY <1>23, <1>0, <3>1, BootOutJob DEF SetOwner
    <3>2. CASE ~(sched[m] /\ o # m)
      BY <1>23, <1>0, <3>2 DEF SetOwner
    <3> QED
      BY <3>1, <3>2
  <2>4. sched' \in [Macs -> BOOLEAN] /\ (exchange <= MaxExchange)' /\ (pushed <= exchange)'
    BY <1>0, <2>1, <2>2, <2>3 DEF Ended
  <2>5. Bounded(m)'
    BY <1>0, <2>1, <2>2, <2>3 DEF Ended
  <2>6. Bounded(p)'
    BY <1>0, <2>1, <2>2, <2>3 DEF Ended
  <2> QED
    BY <2>4, <2>5, <2>6
<1> QED
  BY <1>1, <1>2, <1>3, <1>4, <1>5, <1>6, <1>7, <1>8, <1>9, <1>10, <1>11,
     <1>12, <1>13, <1>14, <1>15, <1>16, <1>17, <1>18, <1>19, <1>20, <1>21, <1>22, <1>23,
     <1>24
     DEF Proceed, Handover, Operator

LEMMA BoundsInit == Init => Bounds
<1> SUFFICES ASSUME Init PROVE Bounds
  OBVIOUS
<1>1. PICK c \in Macs :
        /\ conf = [m \in Macs |-> [owner |-> c, epoch |-> 0, pending |-> FALSE]]
        /\ sched = [m \in Macs |-> m = c]
        /\ base = [m \in Macs |-> 0]
        /\ gen = [m \in Macs |-> 0]
        /\ replica = [m \in Macs |-> NoReplica]
        /\ pc = [m \in Macs |-> "idle"]
        /\ cfg = [m \in Macs |-> Idle]
        /\ winner = [m \in Macs |-> Idle]
        /\ hand = [m \in Macs |-> [at |-> "no", epoch |-> 0]]
        /\ ask = [m \in Macs |-> NotAsked]
        /\ exchange = 0
        /\ pushed = 0
        /\ leftOld = {}
  BY DEF Init
<1>2. sched \in [Macs -> BOOLEAN] /\ exchange <= MaxExchange /\ pushed <= exchange
  BY <1>1, OwnerAssumption
<1>3. ASSUME NEW m \in Macs PROVE Bounded(m)
  BY <1>1, OwnerAssumption DEF Bounded, Idle, NoReplica, NotAsked
<1> QED
  BY <1>2, <1>3 DEF Bounds

LEMMA BoundsKept == Ordered /\ (Inv /\ Bounds) /\ [Next]_vars => (Inv /\ Bounds)'
<1> SUFFICES ASSUME Ordered, Inv, Bounds, [Next]_vars PROVE (Inv /\ Bounds)'
  OBVIOUS
<1>1. Inv'
  BY InvStep
<1>2. CASE Next
  <2>1. PICK m \in Macs : \/ \E s \in BOOLEAN : SyncStart(m, s)
                          \/ Proceed(m) \/ SyncStops(m) \/ Handover(m) \/ Operator(m)
    BY <1>2, OneMac
  <2>2. Peer(m) \in Macs /\ Peer(m) # m /\ Peer(Peer(m)) = m /\ Macs = {m, Peer(m)}
    BY PeerFacts
  <2>3. Within(m, Peer(m))
    BY <1>1, <2>1, <2>2, BoundsStep
  <2> QED
    BY <1>1, <2>2, <2>3 DEF Within, Bounds
<1>3. CASE UNCHANGED vars
  BY <1>1, <1>3 DEF Bounds, Bounded, vars, stores, process, history
<1> QED
  BY <1>2, <1>3

LEMMA BoundsType == Inv /\ Bounds => TypeOK
<1> SUFFICES ASSUME Inv, Bounds PROVE TypeOK
  OBVIOUS
<1>1. Typed /\ MaxEpoch \in Nat /\ MaxExchange \in Nat /\ exchange \in 0..MaxExchange
      /\ pushed \in 0..MaxExchange /\ \A m \in Macs : Bounded(m)
  BY OwnerAssumption DEF Inv, Bounds, Typed
<1>2. ASSUME NEW m \in Macs
      PROVE  /\ conf[m] \in Conf /\ cfg[m] \in Conf /\ winner[m] \in Conf
             /\ base[m] \in 0..MaxExchange /\ gen[m] \in 0..MaxExchange
             /\ replica[m] \in Replicas
             /\ hand[m] \in [at : Handovers, epoch : 0..MaxEpoch]
             /\ ask[m] \in [at : {"no", "asked", "installed"},
                           gen : 0..MaxExchange, epoch : 0..(MaxEpoch + 1)]
  <2>1. conf[m] \in Conf /\ cfg[m] \in Conf /\ winner[m] \in Conf
    BY <1>1 DEF Typed, Bounded, Record, Conf
  <2>2. base[m] \in 0..MaxExchange /\ gen[m] \in 0..MaxExchange
    BY <1>1 DEF Typed, Bounded
  <2>3. replica[m] \in Replicas
    BY <1>1 DEF Typed, Bounded, Replicas
  <2>4. hand[m] \in [at : Handovers, epoch : 0..MaxEpoch]
    BY <1>1 DEF Typed, Bounded
  <2>5. ask[m] \in [at : {"no", "asked", "installed"},
                    gen : 0..MaxExchange, epoch : 0..(MaxEpoch + 1)]
    BY <1>1 DEF Typed, Bounded
  <2> QED
    BY <2>1, <2>2, <2>3, <2>4, <2>5
<1> QED
  BY <1>1, <1>2 DEF TypeOK, Typed, Bounds

\* Every variable keeps its type: an epoch rises with the switches alone, and no
\* generation counter is ahead of the complete exchanges.
THEOREM TypeCorrect == Ordered => (Spec => []TypeOK)
<1> SUFFICES ASSUME Ordered PROVE Spec => []TypeOK
  OBVIOUS
<1>1. Init => Inv /\ Bounds
  BY InvInit, BoundsInit
<1>2. Ordered /\ (Inv /\ Bounds) /\ [Next]_vars => (Inv /\ Bounds)'
  BY BoundsKept
<1> QED
  BY <1>1, <1>2, BoundsType, PTL DEF Spec

=============================================================================
