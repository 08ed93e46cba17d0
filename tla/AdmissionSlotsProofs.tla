------------------------ MODULE AdmissionSlotsProofs ------------------------
(***************************************************************************)
(* Proofs about AdmissionSlots, for every set of wrappers and every bound. *)
(*                                                                         *)
(* The argument.  As long as no wrapper is suspended past the stale bound, *)
(* no heartbeat overlaps its own release, no reclaimer dies inside the     *)
(* reclaim lock and no lease stays unreadable under it (Disciplined), the  *)
(* disk always names the one wrapper that is inside the slot (SlotNames),  *)
(* so a second one cannot enter: a mkdir needs an absent slot, and the     *)
(* only other entry, the reclaim, removes a slot whose owner is gone       *)
(* (RemovesDead).  That last fact needs two more:                          *)
(* the reclaim lock serialises reclaimers (LockSerial), and a lease in a   *)
(* child's name grows stale only after its wrapper is gone (StaleDead).    *)
(***************************************************************************)
EXTENDS AdmissionSlots, TLAPS

\* Type correctness, and which leases a wrapper is sure to hold in memory.
TInv ==
    /\ TypeOK
    /\ \A p \in Procs :
         /\ pc[p] \in {"unlockheld", "held", "bind", "bindwrite", "run"} => mine[p] \in Lease
         /\ beating[p] =>
                /\ pc[p] \in {"run", "release", "rm", "exit", "gone"}
                /\ mine[p] \in Lease
                /\ mine[p].beat < MaxBeats

\* The environment keeps the four assumptions above.
Disciplined == Faults \cap {"suspend", "lateBeat", "reclaimCrash", "unreadable"} = {}

\* The reclaim lock is taken exactly while one reclaimer is inside.
LockSerial ==
    /\ rlock # "aged"
    /\ \A p \in Procs : pc[p] # "rmlock"
    /\ rlock = "free" => \A p \in Procs : pc[p] \notin ReclaimPcs
    /\ rlock = "held" => \E p \in Procs : pc[p] \in ReclaimPcs
    /\ \A p, q \in Procs : pc[p] \in ReclaimPcs /\ pc[q] \in ReclaimPcs => p = q

\* What the disk says about a wrapper inside the slot, wherever it stands.
SlotNames(p) ==
    /\ pc[p] \in {"write", "rewrite"} => slot = Empty
    /\ pc[p] \in {"unlockheld", "held", "bind", "bindwrite"} =>
           slot = FirstLease(p) /\ mine[p] = FirstLease(p)
    /\ pc[p] = "run" =>
           /\ HasLease /\ slot.owner = p /\ slot.who = "child"
           /\ mine[p] # Empty /\ mine[p].owner = p /\ mine[p].who = "child"
    /\ pc[p] = "release" => HasLease /\ slot.owner = p
    /\ pc[p] = "rm" => slot = Empty \/ (HasLease /\ slot.owner = p)
    /\ Bound(p) => HasLease /\ slot.owner = p /\ slot.who = "child"

\* What a wrapper knows about its own workload and heartbeat.
WorkState(p) ==
    /\ pc[p] \notin {"bind", "bindwrite", "run", "gone"} => child[p] # "running"
    /\ beating[p] => pc[p] \in {"run", "gone"}

\* A reclaimer about to remove the slot removes a dead owner's.
RemovesDead(p) ==
    pc[p] = "remove" =>
        /\ HasLease
        /\ pc[slot.owner] = "gone"
        /\ slot.who = "child" => child[slot.owner] # "running"

\* A lease in a child's name expires only after its wrapper is gone.
StaleDead == HasLease /\ quiet /\ slot.who = "child" => pc[slot.owner] = "gone"

IInv ==
    /\ LockSerial
    /\ \A p \in Procs : SlotNames(p)
    /\ \A p \in Procs : WorkState(p)
    /\ \A p \in Procs : RemovesDead(p)
    /\ StaleDead
    /\ SlotExclusive

-----------------------------------------------------------------------------

LEMMA TInvInit == Init => TInv
  BY SlotsAssumption DEF Init, TInv, TypeOK, Pcs

\* The three leases a wrapper can write are leases, with the fields it means.
LEMMA LeaseFacts ==
  /\ \A p \in Procs :
       /\ FirstLease(p) \in Lease
       /\ FirstLease(p).owner = p /\ FirstLease(p).who = "wrapper"
       /\ FirstLease(p).beat = 0
  /\ \A l \in Lease :
       /\ AsChild(l) \in Lease
       /\ AsChild(l).owner = l.owner /\ AsChild(l).who = "child"
       /\ AsChild(l).beat = l.beat
       /\ l.owner \in Procs
  /\ \A l \in Lease : l.beat < MaxBeats =>
       /\ Beaten(l) \in Lease
       /\ Beaten(l).owner = l.owner /\ Beaten(l).who = l.who
  /\ Absent \notin Lease /\ Empty \notin Lease /\ Absent # Empty
<1>1. \A p \in Procs :
       /\ FirstLease(p) \in Lease
       /\ FirstLease(p).owner = p /\ FirstLease(p).who = "wrapper"
       /\ FirstLease(p).beat = 0
  BY SlotsAssumption DEF FirstLease, Lease
<1>2. \A l \in Lease :
       /\ AsChild(l) \in Lease
       /\ AsChild(l).owner = l.owner /\ AsChild(l).who = "child"
       /\ AsChild(l).beat = l.beat
       /\ l.owner \in Procs
  BY SlotsAssumption DEF AsChild, Lease
<1>3. \A l \in Lease : l.beat < MaxBeats =>
       /\ Beaten(l) \in Lease
       /\ Beaten(l).owner = l.owner /\ Beaten(l).who = l.who
  BY SlotsAssumption DEF Beaten, Lease
<1> QED
  BY <1>1, <1>2, <1>3, SlotsAssumption

LEMMA TInvStep == TInv /\ [Next]_vars => TInv'
<1> SUFFICES ASSUME TInv, [Next]_vars PROVE TInv'
  OBVIOUS
<1> USE DEF TInv, TypeOK, Pcs, ReclaimPcs, Goto, disk, waiting
<1>1. ASSUME NEW p \in Procs, Mkdir(p) PROVE TInv'
  <2>1. TypeOK'
    BY <1>1, SlotsAssumption DEF Mkdir
  <2>2. mine' = mine /\ beating' = beating
    BY <1>1 DEF Mkdir
  <2>3. pc' \in [Procs -> Pcs] /\ \A q \in Procs : pc'[q] = IF q = p THEN pc'[p] ELSE pc[q]
    BY <1>1 DEF Mkdir
  <2>4. pc'[p] \in {"write", "judge"} /\ pc[p] = "mkdir"
    BY <1>1 DEF Mkdir
  <2> QED
    BY <2>1, <2>2, <2>3, <2>4
<1>2. ASSUME NEW p \in Procs, WriteLease(p) PROVE TInv'
  <2>1. FirstLease(p) \in Lease
    BY LeaseFacts
  <2>2. TypeOK'
    BY <1>2, <2>1 DEF WriteLease
  <2>3. ASSUME NEW q \in Procs, q # p PROVE pc'[q] = pc[q] /\ mine'[q] = mine[q]
    BY <1>2, <2>3 DEF WriteLease
  <2>4. pc'[p] = "rm" \/ (pc'[p] = "held" /\ mine'[p] \in Lease)
    BY <1>2, <2>1 DEF WriteLease
  <2>5. beating' = beating /\ ~beating[p]
    BY <1>2 DEF WriteLease
  <2> QED
    BY <2>2, <2>3, <2>4, <2>5
<1>3. ASSUME NEW p \in Procs, JudgeStale(p) PROVE TInv'
  BY <1>3 DEF JudgeStale, HasLease
<1>4. ASSUME NEW p \in Procs, JudgeBusy(p) PROVE TInv'
  BY <1>4 DEF JudgeBusy
<1>5. ASSUME NEW p \in Procs, Retry(p) PROVE TInv'
  BY <1>5 DEF Retry
<1>6. ASSUME NEW p \in Procs, GiveUp(p) PROVE TInv'
  BY <1>6 DEF GiveUp
<1>7. ASSUME NEW p \in Procs, TakeReclaimLock(p) PROVE TInv'
  BY <1>7 DEF TakeReclaimLock
<1>8. ASSUME NEW p \in Procs, RemoveStaleLock(p) PROVE TInv'
  BY <1>8 DEF RemoveStaleLock
<1>9. ASSUME NEW p \in Procs, Verify(p) PROVE TInv'
  BY <1>9 DEF Verify
<1>10. ASSUME NEW p \in Procs, RemoveSlot(p) PROVE TInv'
  BY <1>10 DEF RemoveSlot
<1>11. ASSUME NEW p \in Procs, Remkdir(p) PROVE TInv'
  <2>1. TypeOK'
    BY <1>11, SlotsAssumption DEF Remkdir
  <2>2. mine' = mine /\ beating' = beating
    BY <1>11 DEF Remkdir
  <2>3. \A q \in Procs : pc'[q] = IF q = p THEN pc'[p] ELSE pc[q]
    BY <1>11 DEF Remkdir
  <2>4. pc'[p] \in {"rewrite", "unlock"} /\ pc[p] = "remkdir"
    BY <1>11 DEF Remkdir
  <2> QED
    BY <2>1, <2>2, <2>3, <2>4
<1>12. ASSUME NEW p \in Procs, Rewrite(p) PROVE TInv'
  <2>1. FirstLease(p) \in Lease
    BY LeaseFacts
  <2>2. TypeOK'
    BY <1>12, <2>1 DEF Rewrite
  <2>3. ASSUME NEW q \in Procs, q # p PROVE pc'[q] = pc[q] /\ mine'[q] = mine[q]
    BY <1>12, <2>3 DEF Rewrite
  <2>4. pc'[p] = "rm" \/ (pc'[p] = "unlockheld" /\ mine'[p] \in Lease)
    BY <1>12, <2>1 DEF Rewrite
  <2>5. beating' = beating /\ ~beating[p]
    BY <1>12 DEF Rewrite
  <2> QED
    BY <2>2, <2>3, <2>4, <2>5
<1>13. ASSUME NEW p \in Procs, DropReclaimLock(p) PROVE TInv'
  BY <1>13 DEF DropReclaimLock
<1>14. ASSUME NEW p \in Procs, DeferHeld(p) PROVE TInv'
  BY <1>14 DEF DeferHeld
<1>15. ASSUME NEW p \in Procs, StartChild(p) PROVE TInv'
  BY <1>15 DEF StartChild
<1>16. ASSUME NEW p \in Procs, BindCheck(p) PROVE TInv'
  BY <1>16 DEF BindCheck, KillChild
<1>17. ASSUME NEW p \in Procs, BindWrite(p) PROVE TInv'
  <2>1. mine[p] \in Lease /\ AsChild(mine[p]) \in Lease
    BY <1>17, LeaseFacts DEF BindWrite
  <2>2. TypeOK'
    BY <1>17, <2>1 DEF BindWrite, KillChild
  <2>3. ASSUME NEW q \in Procs, q # p PROVE pc'[q] = pc[q] /\ mine'[q] = mine[q]
    BY <1>17, <2>3 DEF BindWrite, KillChild
  <2>4. pc'[p] \in {"run", "release"} /\ mine'[p] \in Lease
    BY <1>17, <2>1 DEF BindWrite, KillChild
  <2>5. beating' = beating /\ ~beating[p]
    BY <1>17 DEF BindWrite
  <2> QED
    BY <2>2, <2>3, <2>4, <2>5
<1>18. ASSUME NEW p \in Procs, BeatCheck(p) PROVE TInv'
  BY <1>18 DEF BeatCheck, BeatPcs
<1>19. ASSUME NEW p \in Procs, BeatWrite(p) PROVE TInv'
  <2>1. mine[p] \in Lease /\ Beaten(mine[p]) \in Lease
    BY <1>19, LeaseFacts DEF BeatWrite
  <2>2. TypeOK'
    BY <1>19, <2>1 DEF BeatWrite
  <2>3. ASSUME NEW q \in Procs, q # p PROVE mine'[q] = mine[q] /\ beating'[q] = beating[q]
    BY <1>19, <2>3 DEF BeatWrite
  <2>4. mine'[p] \in Lease /\ ~beating'[p] /\ pc' = pc
    BY <1>19, <2>1 DEF BeatWrite
  <2> QED
    BY <2>2, <2>3, <2>4
<1>20. ASSUME NEW p \in Procs, WaitChild(p) PROVE TInv'
  BY <1>20 DEF WaitChild
<1>21. ASSUME NEW p \in Procs, ReleaseCheck(p) PROVE TInv'
  BY <1>21 DEF ReleaseCheck
<1>22. ASSUME NEW p \in Procs, ReleaseRemove(p) PROVE TInv'
  BY <1>22 DEF ReleaseRemove
<1>23. ASSUME NEW p \in Procs, Exit(p) PROVE TInv'
  BY <1>23 DEF Exit
<1>24. ASSUME NEW p \in Procs, ChildExit(p) PROVE TInv'
  BY <1>24 DEF ChildExit
<1>25. ASSUME NEW p \in Procs, Crash(p) PROVE TInv'
  BY <1>25 DEF Crash
<1>26. CASE Age
  BY <1>26 DEF Age
<1>27. CASE AgeReclaimLock
  BY <1>27 DEF AgeReclaimLock
<1>28. CASE UNCHANGED vars
  BY <1>28 DEF vars
<1> QED
  BY <1>1, <1>2, <1>3, <1>4, <1>5, <1>6, <1>7, <1>8, <1>9, <1>10, <1>11, <1>12, <1>13, <1>14, <1>15, <1>16, <1>17, <1>18, <1>19, <1>20, <1>21, <1>22, <1>23, <1>24, <1>25, <1>26, <1>27, <1>28 DEF Next, Acquire, Reclaim, Hold

\* Every variable keeps its type, whatever the faults.
THEOREM TypeCorrect == Spec => []TypeOK
<1>1. Init => TInv
  BY TInvInit
<1>2. TInv /\ [Next]_vars => TInv'
  BY TInvStep
<1>3. TInv => TypeOK
  BY DEF TInv
<1> QED
  BY <1>1, <1>2, <1>3, PTL DEF Spec

LEMMA IInvInit == Init => IInv
  BY SlotsAssumption
  DEF Init, IInv, LockSerial, SlotNames, WorkState, RemovesDead, StaleDead,
      SlotExclusive, InSlot, Bound, HolderPcs, ReclaimPcs, HasLease

\* Whoever is inside the slot, there is a slot; and a reclaimer that is about to
\* remove it is alone.
LEMMA InsideFacts ==
  ASSUME TInv, IInv, NEW q \in Procs, InSlot(q)
  PROVE  /\ slot # Absent
         /\ HasLease => slot.owner = q
         /\ \A p \in Procs : pc[p] # "remove"
<1>1. SlotNames(q)
  BY DEF IInv
<1>2. slot # Absent /\ (HasLease => slot.owner = q)
  BY <1>1, LeaseFacts DEF SlotNames, InSlot, HolderPcs, HasLease
<1>3. ASSUME NEW p \in Procs, pc[p] = "remove" PROVE FALSE
  <2>1. HasLease /\ pc[slot.owner] = "gone"
        /\ (slot.who = "child" => child[slot.owner] # "running")
    BY <1>3 DEF IInv, RemovesDead
  <2>2. slot.owner = q
    BY <2>1, <1>2
  <2> QED
    BY <2>1, <2>2, <1>1 DEF SlotNames, InSlot, HolderPcs, Bound
<1> QED
  BY <1>2, <1>3

\* Writing the slot renews it, and the gone stay gone.
LEMMA StaleDeadKept ==
  ASSUME TInv, StaleDead,
         quiet' = FALSE \/ UNCHANGED <<slot, quiet>>,
         \A q \in Procs : pc[q] = "gone" => pc'[q] = "gone"
  PROVE  StaleDead'
<1>1. CASE quiet' = FALSE
  BY <1>1 DEF StaleDead
<1>2. CASE slot' = slot /\ quiet' = quiet
  <2>1. HasLease => slot.owner \in Procs
    BY LeaseFacts DEF TInv, TypeOK, HasLease
  <2> QED
    BY <1>2, <2>1 DEF StaleDead, HasLease
<1> QED
  BY <1>1, <1>2

LEMMA IInvStep ==
  ASSUME Disciplined, TInv, TInv', IInv, [Next]_vars PROVE IInv'
<1> USE DEF IInv, TInv, TypeOK, Goto, disk, waiting, ReclaimPcs, HolderPcs,
            LockSerial, SlotNames, WorkState, RemovesDead, StaleDead,
            SlotExclusive, InSlot, Bound, HasLease
<1>1. ASSUME NEW p \in Procs, Mkdir(p) PROVE IInv'
  <2>1. LockSerial'
    BY <1>1, InsideFacts, LeaseFacts DEF Mkdir
  <2>2. \A q \in Procs : SlotNames(q)'
    BY <1>1, InsideFacts, LeaseFacts DEF Mkdir
  <2>3. \A q \in Procs : WorkState(q)'
    BY <1>1, InsideFacts, LeaseFacts DEF Mkdir
  <2>4. \A q \in Procs : RemovesDead(q)'
    BY <1>1, InsideFacts, LeaseFacts DEF Mkdir
  <2>5. StaleDead'
    <3>1. quiet' = FALSE \/ UNCHANGED <<slot, quiet>>
      BY <1>1 DEF Mkdir
    <3>2. \A q \in Procs : pc[q] = "gone" => pc'[q] = "gone"
      BY <1>1 DEF Mkdir
    <3> QED
      BY <3>1, <3>2, StaleDeadKept
  <2>6. SlotExclusive'
    BY <1>1, InsideFacts, LeaseFacts DEF Mkdir
  <2> QED
    BY <2>1, <2>2, <2>3, <2>4, <2>5, <2>6
<1>2. ASSUME NEW p \in Procs, WriteLease(p) PROVE IInv'
  <2>1. LockSerial'
    BY <1>2, InsideFacts, LeaseFacts DEF WriteLease
  <2>2. \A q \in Procs : SlotNames(q)'
    <3>1. ASSUME NEW q \in Procs, q # p PROVE ~InSlot(q)'
      <4>1. ~InSlot(q)
        BY <1>2, <3>1 DEF WriteLease
      <4> QED
        BY <1>2, <3>1, <4>1 DEF WriteLease
    <3>2. ASSUME NEW q \in Procs, q # p PROVE SlotNames(q)'
      BY <3>1, <3>2
    <3>3. SlotNames(p) /\ WorkState(p) /\ FirstLease(p) \in Lease /\ FirstLease(p).owner = p
      BY LeaseFacts
    <3>4. SlotNames(p)'
      BY <1>2, <3>3, SlotsAssumption DEF WriteLease
    <3> QED
      BY <3>2, <3>4
  <2>3. \A q \in Procs : WorkState(q)'
    BY <1>2, InsideFacts, LeaseFacts DEF WriteLease
  <2>4. \A q \in Procs : RemovesDead(q)'
    <3>1. \A q \in Procs : pc[q] # "remove"
      BY <1>2, InsideFacts DEF WriteLease
    <3>2. \A q \in Procs : pc'[q] # "remove"
      BY <1>2, <3>1 DEF WriteLease
    <3> QED
      BY <3>2
  <2>5. StaleDead'
    <3>1. quiet' = FALSE \/ UNCHANGED <<slot, quiet>>
      BY <1>2 DEF WriteLease
    <3>2. \A q \in Procs : pc[q] = "gone" => pc'[q] = "gone"
      BY <1>2 DEF WriteLease
    <3> QED
      BY <3>1, <3>2, StaleDeadKept
  <2>6. SlotExclusive'
    BY <1>2, InsideFacts, LeaseFacts DEF WriteLease
  <2> QED
    BY <2>1, <2>2, <2>3, <2>4, <2>5, <2>6
<1>3. ASSUME NEW p \in Procs, JudgeStale(p) PROVE IInv'
  BY <1>3, LeaseFacts DEF JudgeStale
<1>4. ASSUME NEW p \in Procs, JudgeBusy(p) PROVE IInv'
  BY <1>4, LeaseFacts DEF JudgeBusy
<1>5. ASSUME NEW p \in Procs, Retry(p) PROVE IInv'
  BY <1>5, LeaseFacts DEF Retry
<1>6. ASSUME NEW p \in Procs, GiveUp(p) PROVE IInv'
  BY <1>6, LeaseFacts DEF GiveUp
<1>7. ASSUME NEW p \in Procs, TakeReclaimLock(p) PROVE IInv'
  BY <1>7, LeaseFacts DEF TakeReclaimLock
<1>8. ASSUME NEW p \in Procs, RemoveStaleLock(p) PROVE IInv'
  BY <1>8, LeaseFacts DEF RemoveStaleLock
<1>9. ASSUME NEW p \in Procs, Verify(p) PROVE IInv'
  BY <1>9, LeaseFacts DEF Verify, StillStale, IncarnationLive, Disciplined
<1>10. ASSUME NEW p \in Procs, RemoveSlot(p) PROVE IInv'
  <2>1. LockSerial'
    BY <1>10, InsideFacts, LeaseFacts DEF RemoveSlot
  <2>2. \A q \in Procs : SlotNames(q)'
    BY <1>10, InsideFacts, LeaseFacts DEF RemoveSlot
  <2>3. \A q \in Procs : WorkState(q)'
    BY <1>10, InsideFacts, LeaseFacts DEF RemoveSlot
  <2>4. \A q \in Procs : RemovesDead(q)'
    <3>1. \A q \in Procs : pc'[q] # "remove"
      BY <1>10 DEF RemoveSlot
    <3> QED
      BY <3>1
  <2>5. StaleDead'
    BY <1>10, InsideFacts, LeaseFacts DEF RemoveSlot, KeptFresh
  <2>6. SlotExclusive'
    BY <1>10, InsideFacts, LeaseFacts DEF RemoveSlot
  <2> QED
    BY <2>1, <2>2, <2>3, <2>4, <2>5, <2>6
<1>11. ASSUME NEW p \in Procs, Remkdir(p) PROVE IInv'
  <2>1. LockSerial'
    BY <1>11, InsideFacts, LeaseFacts DEF Remkdir
  <2>2. \A q \in Procs : SlotNames(q)'
    BY <1>11, InsideFacts, LeaseFacts DEF Remkdir
  <2>3. \A q \in Procs : WorkState(q)'
    BY <1>11, InsideFacts, LeaseFacts DEF Remkdir
  <2>4. \A q \in Procs : RemovesDead(q)'
    BY <1>11, InsideFacts, LeaseFacts DEF Remkdir
  <2>5. StaleDead'
    <3>1. quiet' = FALSE \/ UNCHANGED <<slot, quiet>>
      BY <1>11 DEF Remkdir
    <3>2. \A q \in Procs : pc[q] = "gone" => pc'[q] = "gone"
      BY <1>11 DEF Remkdir
    <3> QED
      BY <3>1, <3>2, StaleDeadKept
  <2>6. SlotExclusive'
    BY <1>11, InsideFacts, LeaseFacts DEF Remkdir
  <2> QED
    BY <2>1, <2>2, <2>3, <2>4, <2>5, <2>6
<1>12. ASSUME NEW p \in Procs, Rewrite(p) PROVE IInv'
  <2>1. LockSerial'
    BY <1>12, InsideFacts, LeaseFacts DEF Rewrite
  <2>2. \A q \in Procs : SlotNames(q)'
    <3>1. ASSUME NEW q \in Procs, q # p PROVE ~InSlot(q)'
      <4>1. ~InSlot(q)
        BY <1>12, <3>1 DEF Rewrite
      <4> QED
        BY <1>12, <3>1, <4>1 DEF Rewrite
    <3>2. ASSUME NEW q \in Procs, q # p PROVE SlotNames(q)'
      BY <3>1, <3>2
    <3>3. SlotNames(p) /\ WorkState(p) /\ FirstLease(p) \in Lease /\ FirstLease(p).owner = p
      BY LeaseFacts
    <3>4. SlotNames(p)'
      BY <1>12, <3>3, SlotsAssumption DEF Rewrite
    <3> QED
      BY <3>2, <3>4
  <2>3. \A q \in Procs : WorkState(q)'
    BY <1>12, InsideFacts, LeaseFacts DEF Rewrite
  <2>4. \A q \in Procs : RemovesDead(q)'
    <3>1. \A q \in Procs : pc[q] # "remove"
      BY <1>12, InsideFacts DEF Rewrite
    <3>2. \A q \in Procs : pc'[q] # "remove"
      BY <1>12, <3>1 DEF Rewrite
    <3> QED
      BY <3>2
  <2>5. StaleDead'
    <3>1. quiet' = FALSE \/ UNCHANGED <<slot, quiet>>
      BY <1>12 DEF Rewrite
    <3>2. \A q \in Procs : pc[q] = "gone" => pc'[q] = "gone"
      BY <1>12 DEF Rewrite
    <3> QED
      BY <3>1, <3>2, StaleDeadKept
  <2>6. SlotExclusive'
    BY <1>12, InsideFacts, LeaseFacts DEF Rewrite
  <2> QED
    BY <2>1, <2>2, <2>3, <2>4, <2>5, <2>6
<1>13. ASSUME NEW p \in Procs, DropReclaimLock(p) PROVE IInv'
  BY <1>13, LeaseFacts DEF DropReclaimLock
<1>14. ASSUME NEW p \in Procs, DeferHeld(p) PROVE IInv'
  BY <1>14, LeaseFacts DEF DeferHeld
<1>15. ASSUME NEW p \in Procs, StartChild(p) PROVE IInv'
  BY <1>15, LeaseFacts DEF StartChild
<1>16. ASSUME NEW p \in Procs, BindCheck(p) PROVE IInv'
  BY <1>16, LeaseFacts DEF BindCheck, OwnSlot, KillChild
<1>17. ASSUME NEW p \in Procs, BindWrite(p) PROVE IInv'
  <2>1. LockSerial'
    BY <1>17, InsideFacts, LeaseFacts DEF BindWrite, KillChild
  <2>2. \A q \in Procs : SlotNames(q)'
    BY <1>17, InsideFacts, LeaseFacts DEF BindWrite, KillChild
  <2>3. \A q \in Procs : WorkState(q)'
    BY <1>17, InsideFacts, LeaseFacts DEF BindWrite, KillChild
  <2>4. \A q \in Procs : RemovesDead(q)'
    <3>1. \A q \in Procs : pc[q] # "remove"
      BY <1>17, InsideFacts DEF BindWrite, KillChild
    <3>2. \A q \in Procs : pc'[q] # "remove"
      BY <1>17, <3>1 DEF BindWrite, KillChild
    <3> QED
      BY <3>2
  <2>5. StaleDead'
    <3>1. quiet' = FALSE \/ UNCHANGED <<slot, quiet>>
      BY <1>17 DEF BindWrite
    <3>2. \A q \in Procs : pc[q] = "gone" => pc'[q] = "gone"
      BY <1>17 DEF BindWrite, KillChild
    <3> QED
      BY <3>1, <3>2, StaleDeadKept
  <2>6. SlotExclusive'
    BY <1>17, InsideFacts, LeaseFacts DEF BindWrite, KillChild
  <2> QED
    BY <2>1, <2>2, <2>3, <2>4, <2>5, <2>6
<1>18. ASSUME NEW p \in Procs, BeatCheck(p) PROVE IInv'
  BY <1>18, LeaseFacts DEF BeatCheck, BeatPcs, OwnSlot, Disciplined
<1>19. ASSUME NEW p \in Procs, BeatWrite(p) PROVE IInv'
  <2>1. LockSerial'
    BY <1>19, InsideFacts, LeaseFacts DEF BeatWrite
  <2>2. \A q \in Procs : SlotNames(q)'
    BY <1>19, InsideFacts, LeaseFacts DEF BeatWrite
  <2>3. \A q \in Procs : WorkState(q)'
    BY <1>19, InsideFacts, LeaseFacts DEF BeatWrite
  <2>4. \A q \in Procs : RemovesDead(q)'
    <3>1. \A q \in Procs : pc[q] # "remove"
      BY <1>19, InsideFacts DEF BeatWrite
    <3>2. \A q \in Procs : pc'[q] # "remove"
      BY <1>19, <3>1 DEF BeatWrite
    <3> QED
      BY <3>2
  <2>5. StaleDead'
    BY <1>19, InsideFacts, LeaseFacts DEF BeatWrite, KeptFresh
  <2>6. SlotExclusive'
    BY <1>19, InsideFacts, LeaseFacts DEF BeatWrite
  <2> QED
    BY <2>1, <2>2, <2>3, <2>4, <2>5, <2>6
<1>20. ASSUME NEW p \in Procs, WaitChild(p) PROVE IInv'
  BY <1>20, LeaseFacts DEF WaitChild, Disciplined
<1>21. ASSUME NEW p \in Procs, ReleaseCheck(p) PROVE IInv'
  BY <1>21, LeaseFacts DEF ReleaseCheck, OwnSlot
<1>22. ASSUME NEW p \in Procs, ReleaseRemove(p) PROVE IInv'
  <2>1. LockSerial'
    BY <1>22, InsideFacts, LeaseFacts DEF ReleaseRemove
  <2>2. \A q \in Procs : SlotNames(q)'
    <3>1. ASSUME NEW q \in Procs, q # p PROVE ~InSlot(q)'
      <4>1. ~InSlot(q)
        BY <1>22, <3>1 DEF ReleaseRemove
      <4> QED
        BY <1>22, <3>1, <4>1 DEF ReleaseRemove
    <3>2. ASSUME NEW q \in Procs, q # p PROVE SlotNames(q)'
      BY <3>1, <3>2
    <3>3. SlotNames(p) /\ WorkState(p) /\ FirstLease(p) \in Lease /\ FirstLease(p).owner = p
      BY LeaseFacts
    <3>4. SlotNames(p)'
      BY <1>22, <3>3, SlotsAssumption DEF ReleaseRemove
    <3> QED
      BY <3>2, <3>4
  <2>3. \A q \in Procs : WorkState(q)'
    BY <1>22, InsideFacts, LeaseFacts DEF ReleaseRemove
  <2>4. \A q \in Procs : RemovesDead(q)'
    <3>1. \A q \in Procs : pc[q] # "remove"
      BY <1>22, InsideFacts DEF ReleaseRemove
    <3>2. \A q \in Procs : pc'[q] # "remove"
      BY <1>22, <3>1 DEF ReleaseRemove
    <3> QED
      BY <3>2
  <2>5. StaleDead'
    BY <1>22, InsideFacts, LeaseFacts DEF ReleaseRemove, KeptFresh
  <2>6. SlotExclusive'
    BY <1>22, InsideFacts, LeaseFacts DEF ReleaseRemove
  <2> QED
    BY <2>1, <2>2, <2>3, <2>4, <2>5, <2>6
<1>23. ASSUME NEW p \in Procs, Exit(p) PROVE IInv'
  BY <1>23, LeaseFacts DEF Exit
<1>24. ASSUME NEW p \in Procs, ChildExit(p) PROVE IInv'
  BY <1>24, LeaseFacts DEF ChildExit
<1>25. ASSUME NEW p \in Procs, Crash(p) PROVE IInv'
  BY <1>25, LeaseFacts DEF Crash, CrashAllowed, Disciplined
<1>26. ASSUME Age PROVE IInv'
  BY <1>26, LeaseFacts DEF Age, KeptFresh, Disciplined
<1>27. ASSUME AgeReclaimLock PROVE IInv'
  BY <1>27, LeaseFacts DEF AgeReclaimLock, Disciplined
<1>28. ASSUME UNCHANGED vars PROVE IInv'
  BY <1>28, LeaseFacts DEF vars
<1> QED
  BY <1>1, <1>2, <1>3, <1>4, <1>5, <1>6, <1>7, <1>8, <1>9, <1>10, <1>11, <1>12, <1>13, <1>14, <1>15, <1>16, <1>17, <1>18, <1>19, <1>20, <1>21, <1>22, <1>23, <1>24, <1>25, <1>26, <1>27, <1>28 DEF Next, Acquire, Reclaim, Hold

\* Under the four assumptions, two wrappers are never inside the slot
\* together, however many there are and wherever else they crash.
THEOREM SlotMutex == Disciplined /\ Spec => []SlotExclusive
<1>1. Init => TInv /\ IInv
  BY TInvInit, IInvInit
<1>2. Disciplined /\ TInv /\ IInv /\ [Next]_vars => (TInv /\ IInv)'
  BY TInvStep, IInvStep
<1>3. IInv => SlotExclusive
  BY DEF IInv
<1> SUFFICES ASSUME Disciplined PROVE Spec => []SlotExclusive
  OBVIOUS
<1> QED
  BY <1>1, <1>2, <1>3, PTL DEF Spec

\* Under the same assumptions a bound workload is always named by the lease on
\* disk, killed wrappers included.
THEOREM WorkloadVisible == Disciplined /\ Spec => []WorkloadLeased
<1>1. Init => TInv /\ IInv
  BY TInvInit, IInvInit
<1>2. Disciplined /\ TInv /\ IInv /\ [Next]_vars => (TInv /\ IInv)'
  BY TInvStep, IInvStep
<1>3. IInv => WorkloadLeased
  BY DEF IInv, SlotNames, WorkloadLeased
<1> SUFFICES ASSUME Disciplined PROVE Spec => []WorkloadLeased
  OBVIOUS
<1> QED
  BY <1>1, <1>2, <1>3, PTL DEF Spec

\* No step takes the lease of a wrapper that stays inside the slot.
LEMMA LeaseKeptStep ==
  ASSUME Disciplined, TInv, IInv, [Next]_vars, NEW p \in Procs,
         HasLease, slot.owner = p, pc'[p] \in HolderPcs
  PROVE  HasLease' /\ slot'.owner = p
<1> USE DEF TInv, TypeOK, Goto, disk, waiting
<1>1. pc[p] \in HolderPcs
  <2>1. ASSUME NEW r \in Procs, Mkdir(r) \/ Remkdir(r) PROVE pc[p] \in HolderPcs
    BY <2>1 DEF Mkdir, Remkdir, HasLease, HolderPcs
  <2>2. ASSUME NEW r \in Procs, Acquire(r), ~Mkdir(r) PROVE pc[p] \in HolderPcs
    BY <2>2 DEF Acquire, WriteLease, JudgeStale, JudgeBusy, Retry, GiveUp, HolderPcs
  <2>3. ASSUME NEW r \in Procs, Reclaim(r), ~Remkdir(r) PROVE pc[p] \in HolderPcs
    BY <2>3 DEF Reclaim, TakeReclaimLock, RemoveStaleLock, Verify, RemoveSlot, Rewrite,
         DropReclaimLock, HolderPcs, IInv, SlotNames, HasLease
  <2>4. ASSUME NEW r \in Procs, Hold(r) PROVE pc[p] \in HolderPcs
    BY <2>4 DEF Hold, DeferHeld, StartChild, BindCheck, BindWrite, KillChild, BeatCheck,
         BeatWrite, WaitChild, ReleaseCheck, ReleaseRemove, Exit, HolderPcs
  <2>5. ASSUME NEW r \in Procs, ChildExit(r) \/ Crash(r) PROVE pc[p] \in HolderPcs
    BY <2>5 DEF ChildExit, Crash, HolderPcs
  <2>6. CASE Age \/ AgeReclaimLock \/ UNCHANGED vars
    BY <2>6 DEF Age, AgeReclaimLock, vars
  <2> QED
    BY <2>1, <2>2, <2>3, <2>4, <2>5, <2>6 DEF Next
<1>2. InSlot(p) /\ \A r \in Procs : InSlot(r) => r = p
  BY <1>1 DEF InSlot, IInv, SlotExclusive
<1>3. \A r \in Procs : pc[r] # "remove"
  BY <1>2, InsideFacts
<1>4. ASSUME slot' = slot PROVE HasLease' /\ slot'.owner = p
  BY <1>4 DEF HasLease
<1>5. ASSUME NEW r \in Procs, WriteLease(r) \/ Rewrite(r) PROVE HasLease' /\ slot'.owner = p
  <2>1. r = p
    BY <1>2, <1>5 DEF WriteLease, Rewrite, InSlot, HolderPcs
  <2>2. slot' = slot \/ slot' = FirstLease(p)
    BY <1>5, <2>1 DEF WriteLease, Rewrite
  <2> QED
    BY <1>4, <2>2, LeaseFacts DEF HasLease
<1>6. ASSUME NEW r \in Procs, BindWrite(r) PROVE HasLease' /\ slot'.owner = p
  <2>1. r = p /\ mine[p] = FirstLease(p)
    BY <1>2, <1>6 DEF BindWrite, InSlot, HolderPcs, IInv, SlotNames
  <2>2. slot' = slot \/ slot' = AsChild(FirstLease(p))
    BY <1>6, <2>1 DEF BindWrite
  <2> QED
    BY <1>4, <2>2, LeaseFacts DEF HasLease
<1>7. ASSUME NEW r \in Procs, BeatWrite(r) PROVE HasLease' /\ slot'.owner = p
  <2>1. pc[r] = "run"
    BY <1>7 DEF BeatWrite, IInv, WorkState
  <2>2. r = p /\ mine[p] \in Lease /\ mine[p].owner = p /\ mine[p].beat < MaxBeats
    BY <1>2, <1>7, <2>1 DEF BeatWrite, InSlot, HolderPcs, IInv, SlotNames
  <2>3. slot' = slot \/ slot' = Beaten(mine[p])
    BY <1>7, <2>2 DEF BeatWrite
  <2> QED
    BY <1>4, <2>2, <2>3, LeaseFacts DEF HasLease
<1>8. ASSUME NEW r \in Procs, ReleaseRemove(r) PROVE FALSE
  <2>1. r = p
    BY <1>2, <1>8 DEF ReleaseRemove, InSlot, HolderPcs
  <2> QED
    BY <1>8, <2>1 DEF ReleaseRemove, HolderPcs
<1>9. ASSUME NEW r \in Procs, Mkdir(r) \/ Remkdir(r) \/ RemoveSlot(r) PROVE slot' = slot
  BY <1>3, <1>9 DEF Mkdir, Remkdir, RemoveSlot, HasLease
<1>10. ASSUME NEW r \in Procs, Acquire(r), ~Mkdir(r), ~WriteLease(r) PROVE slot' = slot
  BY <1>10 DEF Acquire, JudgeStale, JudgeBusy, Retry, GiveUp
<1>11. ASSUME NEW r \in Procs, Reclaim(r), ~Remkdir(r), ~Rewrite(r), ~RemoveSlot(r) PROVE slot' = slot
  BY <1>11 DEF Reclaim, TakeReclaimLock, RemoveStaleLock, Verify, DropReclaimLock
<1>12. ASSUME NEW r \in Procs, Hold(r), ~BindWrite(r), ~BeatWrite(r), ~ReleaseRemove(r) PROVE slot' = slot
  BY <1>12 DEF Hold, DeferHeld, StartChild, BindCheck, BeatCheck, WaitChild, ReleaseCheck, Exit
<1>13. ASSUME NEW r \in Procs, ChildExit(r) \/ Crash(r) PROVE slot' = slot
  BY <1>13 DEF ChildExit, Crash
<1>14. CASE Age \/ AgeReclaimLock \/ UNCHANGED vars
  BY <1>14, <1>4 DEF Age, AgeReclaimLock, vars
<1> QED
  BY <1>4, <1>5, <1>6, <1>7, <1>8, <1>9, <1>10, <1>11, <1>12, <1>13, <1>14 DEF Next

\* While its wrapper lives, nobody but its owner removes or overwrites a lease.
THEOREM LeaseSafe == Disciplined /\ Spec => LeaseKept
<1>1. Init => TInv /\ IInv
  BY TInvInit, IInvInit
<1>2. Disciplined /\ TInv /\ IInv /\ [Next]_vars => (TInv /\ IInv)'
  BY TInvStep, IInvStep
<1>3. Disciplined /\ TInv /\ IInv /\ [Next]_vars =>
        [\A p \in Procs :
           HasLease /\ slot.owner = p /\ pc'[p] \in HolderPcs =>
             HasLease' /\ slot'.owner = p]_vars
  BY LeaseKeptStep
<1> SUFFICES ASSUME Disciplined PROVE Spec => LeaseKept
  OBVIOUS
<1> QED
  BY <1>1, <1>2, <1>3, PTL DEF Spec, LeaseKept

\* Without orphans, a running workload is one its wrapper's pc or lease shows.
Covered == \A p \in Procs : child[p] = "running" => InSlot(p)

LEMMA CoveredStep ==
  ASSUME Disciplined, "orphan" \notin Faults, TInv, IInv, Covered, [Next]_vars
  PROVE  Covered'
<1> USE DEF TInv, TypeOK, Goto, disk, waiting, Covered, InSlot, HolderPcs, Bound
<1>1. ASSUME NEW r \in Procs, Acquire(r) PROVE Covered'
  BY <1>1 DEF Acquire, Mkdir, WriteLease, JudgeStale, JudgeBusy, Retry, GiveUp,
       IInv, WorkState
<1>2. ASSUME NEW r \in Procs, Reclaim(r) PROVE Covered'
  BY <1>2 DEF Reclaim, TakeReclaimLock, RemoveStaleLock, Verify, RemoveSlot, Remkdir,
       Rewrite, DropReclaimLock, IInv, WorkState
<1>3. ASSUME NEW r \in Procs, Hold(r), ~BindWrite(r), ~BeatWrite(r) PROVE Covered'
  BY <1>3 DEF Hold, DeferHeld, StartChild, BindCheck, KillChild, BeatCheck, WaitChild,
       ReleaseCheck, ReleaseRemove, Exit, IInv, WorkState
<1>4. ASSUME NEW r \in Procs, BindWrite(r) PROVE Covered'
  BY <1>4 DEF BindWrite, KillChild, IInv, SlotNames
<1>5. ASSUME NEW r \in Procs, BeatWrite(r) PROVE Covered'
  BY <1>5 DEF BeatWrite, IInv, WorkState
<1>6. ASSUME NEW r \in Procs, ChildExit(r) PROVE Covered'
  BY <1>6 DEF ChildExit
<1>7. ASSUME NEW r \in Procs, Crash(r) PROVE Covered'
  BY <1>7 DEF Crash, CrashAllowed, IInv, WorkState, SlotNames
<1>8. CASE Age \/ AgeReclaimLock \/ UNCHANGED vars
  BY <1>8 DEF Age, AgeReclaimLock, vars
<1> QED
  BY <1>1, <1>2, <1>3, <1>4, <1>5, <1>6, <1>7, <1>8 DEF Next

\* If besides no wrapper is killed between child.Start and UpdateIdentity, "one
\* heavy slot per repo" holds of the workloads themselves.
THEOREM WorkMutex ==
  Disciplined /\ "orphan" \notin Faults /\ Spec => []WorkExclusive
<1>1. Init => TInv /\ IInv /\ Covered
  BY TInvInit, IInvInit DEF Init, Covered
<1>2. Disciplined /\ "orphan" \notin Faults /\ TInv /\ IInv /\ Covered /\ [Next]_vars
        => (TInv /\ IInv /\ Covered)'
  BY TInvStep, IInvStep, CoveredStep
<1>3. IInv /\ Covered => WorkExclusive
  BY DEF IInv, SlotExclusive, Covered, WorkExclusive, Admitted
<1> SUFFICES ASSUME Disciplined, "orphan" \notin Faults PROVE Spec => []WorkExclusive
  OBVIOUS
<1> QED
  BY <1>1, <1>2, <1>3, PTL DEF Spec

-----------------------------------------------------------------------------
(* The slot protocol implements SlotLock. *)

LEMMA AdmittedIs ==
  \A q \in Procs : Admitted(q) <=> pc[q] \in HolderPcs \/ child[q] = "running"
  BY DEF Admitted, InSlot, Bound

\* Nobody but the winner of a mkdir becomes admitted.
LEMMA AdmittedByMkdir ==
  ASSUME TInv, [Next]_vars, NEW q \in Procs, ~Admitted(q), Admitted(q)'
  PROVE  slot = Absent
<1>a. pc[q] \notin HolderPcs /\ child[q] # "running"
  BY AdmittedIs
<1>b. pc'[q] \in HolderPcs \/ child'[q] = "running"
  BY DEF Admitted, InSlot, Bound
<1> USE <1>a, <1>b DEF TInv, TypeOK, Goto, disk, waiting, HolderPcs
<1>1. ASSUME NEW r \in Procs, Mkdir(r) \/ Remkdir(r) PROVE slot = Absent
  BY <1>1 DEF Mkdir, Remkdir
<1>2. ASSUME NEW r \in Procs, Acquire(r), ~Mkdir(r) PROVE FALSE
  BY <1>2 DEF Acquire, WriteLease, JudgeStale, JudgeBusy, Retry, GiveUp
<1>3. ASSUME NEW r \in Procs, Reclaim(r), ~Remkdir(r) PROVE FALSE
  BY <1>3 DEF Reclaim, TakeReclaimLock, RemoveStaleLock, Verify, RemoveSlot, Rewrite,
       DropReclaimLock
<1>4. ASSUME NEW r \in Procs, Hold(r) PROVE FALSE
  BY <1>4 DEF Hold, DeferHeld, StartChild, BindCheck, BindWrite, KillChild, BeatCheck,
       BeatWrite, WaitChild, ReleaseCheck, ReleaseRemove, Exit
<1>5. ASSUME NEW r \in Procs, ChildExit(r) \/ Crash(r) PROVE FALSE
  BY <1>5 DEF ChildExit, Crash
<1>6. CASE Age \/ AgeReclaimLock \/ UNCHANGED vars
  BY <1>6 DEF Age, AgeReclaimLock, vars
<1> QED
  BY <1>1, <1>2, <1>3, <1>4, <1>5, <1>6 DEF Next

LEMMA HolderStep ==
  ASSUME Disciplined, "orphan" \notin Faults, TInv, IInv, Covered, [Next]_vars
  PROVE  [Abstract!Next]_Holder
<1>w. WorkExclusive /\ WorkExclusive'
  <2>1. IInv' /\ Covered'
    BY TInvStep, IInvStep, CoveredStep
  <2> QED
    BY <2>1 DEF IInv, SlotExclusive, Covered, WorkExclusive, Admitted
<1>1. ASSUME NEW q \in Procs, ~Admitted(q), Admitted(q)' PROVE [Abstract!Next]_Holder
  <2>1. \A r \in Procs : ~Admitted(r)
    BY <1>1, AdmittedByMkdir, InsideFacts DEF Covered, Admitted
  <2>2. \A r \in Procs : Admitted(r)' => r = q
    BY <1>1, <1>w DEF WorkExclusive
  <2>3. Holder = Nobody /\ Holder' = q
    BY <1>1, <2>1, <2>2 DEF Holder
  <2> QED
    BY <2>3 DEF Abstract!Next, Abstract!Enter
<1>2. ASSUME NEW q \in Procs, Admitted(q), ~Admitted(q)',
             \A r \in Procs : Admitted(r)' => Admitted(r)
      PROVE  [Abstract!Next]_Holder
  <2>1. \A r \in Procs : Admitted(r) => r = q
    BY <1>2, <1>w DEF WorkExclusive
  <2>2. \A r \in Procs : ~Admitted(r)'
    BY <1>2, <2>1
  <2>3. Holder = q /\ Holder' = Nobody
    BY <1>2, <2>1, <2>2 DEF Holder
  <2> QED
    BY <2>3 DEF Abstract!Next, Abstract!Leave
<1>3. ASSUME \A r \in Procs : Admitted(r)' <=> Admitted(r) PROVE Holder' = Holder
  BY <1>3 DEF Holder
<1> QED
  BY <1>1, <1>2, <1>3

\* The mkdir of the slot directory, the leases, the reclaim under its lock and
\* the releases implement a plain lock, entered only when free and left by its
\* holder alone, for any number of wrappers: under the four
\* assumptions, and when no wrapper is killed before it has bound its workload.
THEOREM Refines ==
  Disciplined /\ "orphan" \notin Faults /\ Spec => RefinesLock
<1>1. Init => TInv /\ IInv /\ Covered
  BY TInvInit, IInvInit DEF Init, Covered
<1>2. Disciplined /\ "orphan" \notin Faults /\ TInv /\ IInv /\ Covered /\ [Next]_vars
        => (TInv /\ IInv /\ Covered)'
  BY TInvStep, IInvStep, CoveredStep
<1>3. Disciplined /\ "orphan" \notin Faults /\ TInv /\ IInv /\ Covered /\ [Next]_vars
        => [Abstract!Next]_Holder
  BY HolderStep
<1>4. Init => Abstract!Init
  <2> SUFFICES ASSUME Init PROVE Holder = Nobody
    BY DEF Abstract!Init
  <2>1. \A p \in Procs : ~Admitted(p)
    BY AdmittedIs DEF Init, HolderPcs
  <2> QED
    BY <2>1 DEF Holder
<1> SUFFICES ASSUME Disciplined, "orphan" \notin Faults PROVE Spec => RefinesLock
  OBVIOUS
<1> QED
  BY <1>1, <1>2, <1>3, <1>4, PTL DEF Spec, RefinesLock, Abstract!Spec
=============================================================================
