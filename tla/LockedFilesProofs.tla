------------------------- MODULE LockedFilesProofs -------------------------
(***************************************************************************)
(* Proofs about PIDLock, and about two of the files that dot changes under *)
(* such a lock: the settings of Claude Code (ClaudeSettings) and the       *)
(* preference overlays (Preferences).  The three are independent state     *)
(* machines; the last two take the lock's steps from SlotLock, which       *)
(* LockRefines shows PIDLock to implement.                                 *)
(***************************************************************************)
EXTENDS PIDLock, ClaudeSettings, Preferences, TLAPS

-----------------------------------------------------------------------------
(***************************************************************************)
(* Proofs about PIDLock, for any number of pids and kills.                 *)
(*                                                                         *)
(* The argument. Whoever is between Mkdir and the end of the release owns  *)
(* the lock directory: it made it, and the directory has either no pid     *)
(* that could be told stale, or the pid of its living maker (Owns). So     *)
(* nobody finds it stale, and nobody moves it aside; while it is there no  *)
(* Mkdir succeeds, so there is one owner. Directories of dead processes,   *)
(* with pids that live again, do not matter: they have no owner.           *)
(***************************************************************************)

\* Nobody hits the three windows between a look and the step based on it.
Attentive == Faults = {}

\* What an owner sees of its lock directory.
Owns(p) ==
    pc[p] \in Owning => \E l \in lock :
        /\ l.maker = p
        /\ ~l.old
        /\ l.pid \in {NoPid, Blank, p}
        /\ pc[p] = "stamp" => l.pid = Blank
        /\ pc[p] = "in" => l.pid = p

LockInv == TypeOK /\ \A p \in Pids : Owns(p)

-----------------------------------------------------------------------------

LEMMA LockTypeInit == Init => TypeOK
<1> SUFFICES ASSUME Init PROVE TypeOK
  OBVIOUS
<1>1. lock \in {{}} \cup {{l} : l \in Locks}
  <2>1. CASE lock = {}
    BY <2>1
  <2>2. CASE lock # {}
    <3>1. PICK p \in Pids, i \in Pids \cup {NoPid} :
              lock = {[maker |-> p, pid |-> i, old |-> FALSE]}
      BY <2>2 DEF Init
    <3>2. [maker |-> p, pid |-> i, old |-> FALSE] \in Locks
      BY DEF Locks
    <3> QED
      BY <3>1, <3>2
  <2> QED
    BY <2>1, <2>2
<1>2. kills \in 0..MaxKills
  BY PIDLockAssumption DEF Init
<1> QED
  BY <1>1, <1>2 DEF Init, TypeOK, Pcs

LEMMA LockTypeStep == TypeOK /\ [Next]_vars => TypeOK'
<1> SUFFICES ASSUME TypeOK, [Next]_vars PROVE TypeOK'
  OBVIOUS
<1> USE DEF TypeOK, Pcs, Go
<1>1. ASSUME NEW p \in Pids, Start(p) \/ Kill(p) PROVE TypeOK'
  BY <1>1, PIDLockAssumption DEF Start, Kill
<1>2. ASSUME NEW p \in Pids, Step(p) PROVE TypeOK'
  <2>1. CASE Mkdir(p) \/ Recreate(p)
    <3>1. Fresh(p) \in {{l} : l \in Locks}
      BY DEF Fresh, Locks
    <3> QED
      BY <2>1, <3>1 DEF Mkdir, Recreate
  <2>2. CASE Inspect(p) \/ Clear(p) \/ Discard(p) \/ StampFails(p) \/ Release(p)
    BY <2>2 DEF Inspect, Clear, Discard, StampFails, Release
  <2>3. CASE Rename(p) \/ Rmdir(p)
    BY <2>3 DEF Rename, Rmdir
  <2>4. CASE Create(p) \/ Stamp(p) \/ Unstamp(p)
    <3>1. lock' \in {{}} \cup {{l} : l \in Locks}
      <4>1. CASE lock = {}
        BY <2>4, <4>1 DEF Create, Stamp, Unstamp
      <4>2. CASE lock # {}
        <5>1. PICK l \in Locks : lock = {l}
          BY <4>2
        <5>2. \A i \in Pids \cup {NoPid, Blank} :
                /\ [l EXCEPT !.pid = i] \in Locks
                /\ [l EXCEPT !.pid = i, !.old = FALSE] \in Locks
          BY DEF Locks
        <5>3. \/ lock' = {l}
              \/ lock' = {[l EXCEPT !.pid = Blank]}
              \/ lock' = {[l EXCEPT !.pid = p]}
              \/ lock' = {[l EXCEPT !.pid = NoPid, !.old = FALSE]}
          BY <2>4, <5>1 DEF Create, Stamp, Unstamp
        <5> QED
          BY <5>2, <5>3
      <4> QED
        BY <4>1, <4>2
    <3> QED
      BY <2>4, <3>1 DEF Create, Stamp, Unstamp
  <2> QED
    BY <1>2, <2>1, <2>2, <2>3, <2>4 DEF Step
<1>3. ASSUME Age PROVE TypeOK'
  BY <1>3 DEF Age, Locks
<1>4. CASE UNCHANGED vars
  BY <1>4 DEF vars
<1> QED
  BY <1>1, <1>2, <1>3, <1>4 DEF Next

\* Every variable of the lock protocol has its type and there is never more
\* than one lock directory, whatever faults a configuration admits.
THEOREM LockTypes == Spec => []TypeOK
  BY LockTypeInit, LockTypeStep, PTL DEF Spec

-----------------------------------------------------------------------------

\* Two owners would own one directory, whose maker is one of them.
LEMMA OneOwner ==
  ASSUME LockInv, NEW p \in Pids, NEW q \in Pids, pc[p] \in Owning, pc[q] \in Owning
  PROVE  p = q
  BY DEF LockInv, Owns, TypeOK

\* Nobody takes the lock of an owner for stale.
LEMMA NotStale ==
  ASSUME Attentive, LockInv, NEW p \in Pids, pc[p] \in Owning, NEW l \in lock
  PROVE  ~Stale(l)
<1>1. l.maker = p /\ ~l.old /\ l.pid \in {NoPid, Blank, p}
  BY DEF LockInv, Owns, TypeOK
<1> QED
  BY <1>1, PIDLockAssumption DEF Stale, Alive, Attentive, Owning

LEMMA LockInvInit == Init => LockInv
  BY LockTypeInit DEF Init, LockInv, Owns, Owning

LEMMA LockInvStep == Attentive /\ LockInv /\ [Next]_vars => LockInv'
<1> SUFFICES ASSUME Attentive, LockInv, [Next]_vars, NEW q \in Pids PROVE Owns(q)'
  BY LockTypeStep DEF LockInv
<1>t. TypeOK /\ TypeOK'
  BY LockTypeStep DEF LockInv
<1>o. \A p \in Pids : Owns(p)
  BY DEF LockInv
<1> USE DEF Go
<1>1. ASSUME NEW p \in Pids, Start(p) \/ Kill(p) PROVE Owns(q)'
  BY <1>1, <1>o, <1>t DEF Start, Kill, Owns, Owning, TypeOK
<1>2. ASSUME NEW p \in Pids, Mkdir(p) \/ Recreate(p) PROVE Owns(q)'
  <2>1. CASE lock = {}
    <3>1. pc[q] \notin Owning
      BY <2>1, <1>o DEF Owns
    <3>2. CASE q = p
      <4>1. lock' = {[maker |-> q, pid |-> NoPid, old |-> FALSE]} /\ pc'[q] = "create"
        BY <1>2, <1>t, <2>1, <3>2 DEF Mkdir, Recreate, Fresh, TypeOK
      <4> QED
        BY <4>1 DEF Owns
    <3>3. CASE q # p
      BY <1>2, <1>t, <3>1, <3>3 DEF Mkdir, Recreate, Owns, TypeOK
    <3> QED
      BY <3>2, <3>3
  <2>2. CASE lock # {}
    BY <1>2, <1>o, <1>t, <2>2 DEF Mkdir, Recreate, Owns, Owning, TypeOK
  <2> QED
    BY <2>1, <2>2
<1>3. ASSUME NEW p \in Pids, Inspect(p) \/ Clear(p) \/ Discard(p) PROVE Owns(q)'
  BY <1>3, <1>o, <1>t DEF Inspect, Clear, Discard, Owns, Owning, TypeOK
<1>4. ASSUME NEW p \in Pids, Rename(p) PROVE Owns(q)'
  <2>1. CASE lock = {}
    BY <1>4, <1>o, <1>t, <2>1 DEF Rename, Owns, Owning, TypeOK
  <2>2. CASE lock # {}
    <3>1. pc[q] \notin Owning
      BY <1>4, <2>2, NotStale DEF Rename, Attentive
    <3> QED
      BY <1>4, <1>t, <2>2, <3>1 DEF Rename, Owns, Owning, TypeOK
  <2> QED
    BY <2>1, <2>2
<1>5. ASSUME NEW p \in Pids,
             Create(p) \/ Stamp(p) \/ StampFails(p) \/ Release(p) \/ Unstamp(p) \/ Rmdir(p)
      PROVE  Owns(q)'
  <2>1. pc[p] \in Owning
    BY <1>5 DEF Create, Stamp, StampFails, Release, Unstamp, Rmdir, Owning
  <2>2. CASE q = p
    <3>1. PICK l \in Locks : lock = {l} /\ l.maker = q /\ ~l.old /\ l.pid \in {NoPid, Blank, q}
                           /\ (pc[q] = "stamp" => l.pid = Blank) /\ (pc[q] = "in" => l.pid = q)
      BY <2>1, <2>2, <1>o, <1>t DEF Owns, TypeOK
    <3>2. CASE Create(p) \/ Stamp(p) \/ Unstamp(p)
      <4>1. PICK m \in Locks :
                /\ lock' = {m} /\ m.maker = q /\ m.old = FALSE
                /\ m.pid \in {NoPid, Blank, q}
                /\ pc'[q] = "stamp" => m.pid = Blank
                /\ pc'[q] = "in" => m.pid = q
        <5>1. CASE Create(p) /\ pc'[q] = "stamp"
          <6>1. lock' = {[l EXCEPT !.pid = Blank]}
            BY <5>1, <3>1, <2>2, <1>t DEF Create, TypeOK
          <6> QED
            BY <6>1, <5>1, <3>1 DEF Locks
        <5>2. CASE Create(p) /\ pc'[q] # "stamp"
          BY <5>2, <3>1, <2>2, <1>t DEF Create, TypeOK, Locks
        <5>3. CASE Stamp(p)
          <6>1. lock' = {[l EXCEPT !.pid = q]} /\ pc'[q] = "in"
            BY <5>3, <3>1, <2>2, <1>t DEF Stamp, TypeOK
          <6>2. /\ [l EXCEPT !.pid = q] \in Locks
                /\ [l EXCEPT !.pid = q].maker = q
                /\ [l EXCEPT !.pid = q].pid = q
                /\ [l EXCEPT !.pid = q].old = FALSE
            BY <3>1 DEF Locks
          <6> QED
            BY <6>1, <6>2
        <5>4. CASE Unstamp(p)
          <6>1. lock' = {[l EXCEPT !.pid = NoPid, !.old = FALSE]} /\ pc'[q] = "rmdir"
            BY <5>4, <3>1, <2>2, <1>t DEF Unstamp, TypeOK
          <6> QED
            BY <6>1, <3>1 DEF Locks
        <5> QED
          BY <3>2, <5>1, <5>2, <5>3, <5>4
      <4> QED
        BY <4>1 DEF Owns
    <3>3. CASE StampFails(p) \/ Release(p)
      BY <3>1, <3>3, <2>2, <1>t DEF StampFails, Release, Owns, Owning, TypeOK
    <3>4. CASE Rmdir(p)
      BY <3>4, <2>2, <1>t DEF Rmdir, Owns, Owning, TypeOK
    <3> QED
      BY <1>5, <3>2, <3>3, <3>4
  <2>3. CASE q # p
    <3>1. pc[q] \notin Owning
      BY <2>1, <2>3, OneOwner
    <3> QED
      BY <1>5, <1>t, <2>3, <3>1
         DEF Create, Stamp, StampFails, Release, Unstamp, Rmdir, Owns, Owning, TypeOK
  <2> QED
    BY <2>2, <2>3
<1>6. ASSUME Age PROVE Owns(q)'
  <2>1. pc[q] \notin Owning
    BY <1>6, <1>o, <1>t DEF Age, Owns, TypeOK, Attentive
  <2> QED
    BY <1>6, <2>1 DEF Age, Owns
<1>7. CASE UNCHANGED vars
  BY <1>7, <1>o DEF vars, Owns
<1> QED
  BY <1>1, <1>2, <1>3, <1>4, <1>5, <1>6, <1>7 DEF Next, Step

LEMMA LockInvHolds == Attentive => (Spec => []LockInv)
<1> SUFFICES ASSUME Attentive PROVE Spec => []LockInv
  OBVIOUS
<1>1. Attentive /\ LockInv /\ [Next]_vars => LockInv'
  BY LockInvStep
<1> QED
  BY <1>1, LockInvInit, PTL DEF Spec

\* AcquirePIDLock never lets two processes in, whatever was killed where and
\* whichever pids come back, outside the three windows.
THEOREM LockExcludes == Attentive => (Spec => []Exclusive)
<1>1. LockInv => Exclusive
  BY OneOwner DEF Exclusive, Owning
<1> QED
  BY <1>1, LockInvHolds, PTL

-----------------------------------------------------------------------------
(* The directory protocol implements SlotLock. *)

LEMMA HolderIs ==
  ASSUME LockInv, NEW p \in Pids, pc[p] = "in"
  PROVE  holder = p
<1>1. \A q \in Pids : pc[q] = "in" => q = p
  BY OneOwner DEF Owning
<1> QED
  BY <1>1 DEF holder

LEMMA HolderNone ==
  ASSUME \A p \in Pids : pc[p] # "in"
  PROVE  holder = Nobody
  BY DEF holder

LEMMA HolderInit == Init => Slot!Init
<1> SUFFICES ASSUME Init PROVE Slot!Init
  OBVIOUS
<1>1. \A p \in Pids : pc[p] # "in"
  BY DEF Init
<1> QED
  BY <1>1, HolderNone DEF Slot!Init

\* While nobody enters or leaves, the holder is who it was.
LEMMA HolderSame ==
  ASSUME \A p \in Pids : pc'[p] = "in" <=> pc[p] = "in"
  PROVE  holder' = holder
  BY DEF holder

\* Stamp enters the slot; the release, or the death, of the one inside leaves
\* it; every other step is a stuttering step of the slot.
LEMMA HolderStep == Attentive /\ LockInv /\ [Next]_vars => [Slot!Next]_holder
<1> SUFFICES ASSUME Attentive, LockInv, [Next]_vars PROVE [Slot!Next]_holder
  OBVIOUS
<1>i. LockInv'
  BY LockInvStep
<1>t. TypeOK
  BY DEF LockInv
<1> USE DEF Go
<1>1. ASSUME NEW p \in Pids, Stamp(p) PROVE [Slot!Next]_holder
  <2>1. pc[p] \in Owning /\ pc[p] # "in"
    BY <1>1 DEF Stamp, Owning
  <2>2. \A q \in Pids : pc[q] # "in"
    BY <2>1, OneOwner DEF Owning
  <2>3. pc'[p] = "in"
    BY <1>1, <1>t DEF Stamp, TypeOK
  <2>4. holder' = p
    <3>1. ASSUME NEW q \in Pids, pc'[q] = "in" PROVE q = p
      BY <3>1, <1>1, <1>t, <2>2 DEF Stamp, TypeOK
    <3> QED
      BY <2>3, <3>1 DEF holder
  <2>5. Slot!Enter(p)
    BY <2>2, <2>4, HolderNone DEF Slot!Enter
  <2> QED
    BY <2>5 DEF Slot!Next
<1>2. ASSUME NEW p \in Pids, pc[p] = "in", Release(p) \/ Kill(p) PROVE [Slot!Next]_holder
  <2>1. holder = p
    BY <1>2, HolderIs
  <2>2. ASSUME NEW q \in Pids PROVE pc'[q] # "in"
    <3>1. CASE q = p
      BY <1>2, <1>t, <3>1 DEF Release, Kill, TypeOK
    <3>2. CASE q # p
      <4>1. pc[q] # "in"
        BY <1>2, <3>2, OneOwner DEF Owning
      <4> QED
        BY <1>2, <1>t, <3>2, <4>1 DEF Release, Kill, TypeOK
    <3> QED
      BY <3>1, <3>2
  <2>3. holder' = Nobody
    BY <2>2 DEF holder
  <2>4. Slot!Leave(p)
    BY <2>1, <2>3 DEF Slot!Leave
  <2> QED
    BY <2>4 DEF Slot!Next
<1>3. ASSUME NEW p \in Pids,
             \/ Start(p) \/ Mkdir(p) \/ Inspect(p) \/ Clear(p) \/ Rename(p)
             \/ Discard(p) \/ Recreate(p) \/ Create(p) \/ StampFails(p)
             \/ Unstamp(p) \/ Rmdir(p) \/ (Kill(p) /\ pc[p] # "in")
      PROVE  [Slot!Next]_holder
  <2>1. \A q \in Pids : pc'[q] = "in" <=> pc[q] = "in"
    BY <1>3, <1>t DEF Start, Mkdir, Inspect, Clear, Rename, Discard, Recreate, Create,
                      StampFails, Unstamp, Rmdir, Kill, TypeOK
  <2> QED
    BY <2>1, HolderSame
<1>4. CASE Age \/ UNCHANGED vars
  BY <1>4, HolderSame DEF Age, vars
<1> QED
  BY <1>1, <1>2, <1>3, <1>4 DEF Next, Step, Release

\* Outside the three windows the lock directory, its lock.pid and the reclaim
\* by rename implement a plain lock, with any number of processes: entered
\* only when free, and left by its holder alone.
THEOREM LockRefines == Attentive => (Spec => RefinesLock)
<1> SUFFICES ASSUME Attentive PROVE Spec => RefinesLock
  OBVIOUS
<1>1. Spec => []LockInv
  BY LockInvHolds
<1>2. Attentive /\ LockInv /\ [Next]_vars => [Slot!Next]_holder
  BY HolderStep
<1> QED
  BY <1>1, <1>2, HolderInit, PTL DEF RefinesLock, Spec, Slot!Spec

-----------------------------------------------------------------------------
(***************************************************************************)
(* Proofs about ClaudeSettings, for any number of processes and edits.     *)
(*                                                                         *)
(* The argument.  Mutate compares and writes only while it holds the lock, *)
(* so one process at a time stands before its rename; and from its         *)
(* comparison to its rename nothing changes the document, so that what it  *)
(* writes is the document as it is, with its own edit.                     *)
(***************************************************************************)

\* No other program writes between the comparison and the rename.
InTime == Windows = {}

\* Mutate compares, and writes, under the lock.
UnderLock == \A p \in Writers : place[p] \in {"compare", "write"} => writer = p

\* What is about to be written was read from the document as it is now.
UpToDate == \A p \in Writers : place[p] = "write" => raw[p] = doc

\* There is a comparison left for whoever may still come to one.
TryLeft ==
    \A p \in Writers :
        place[p] \in {"read", "acquire", "compare"} => tries[p] < mutateAttempts

Typed == MutateTypeOK /\ TryLeft

MutateInv == Typed /\ UnderLock /\ UpToDate /\ NoEditLost

-----------------------------------------------------------------------------

LEMMA MutateTypeInit == MutateInit => Typed
  BY DEF MutateInit, Typed, MutateTypeOK, TryLeft, Docs, Places, mutateAttempts

LEMMA MutateTypeStep == Typed /\ [MutateNext]_mutateVars => Typed'
<1> SUFFICES ASSUME Typed, [MutateNext]_mutateVars PROVE Typed'
  OBVIOUS
<1> USE DEF Typed, MutateTypeOK, TryLeft, Places, mutateAttempts, GoOn
<1>1. ASSUME NEW p \in Writers, Mutate(p) \/ KillMutate(p) PROVE Typed'
  BY <1>1 DEF Mutate, KillMutate, SettingsLock!Leave
<1>2. ASSUME NEW p \in Writers, Read(p) PROVE Typed'
  BY <1>2 DEF Read
<1>3. ASSUME NEW p \in Writers, AcquireLock(p) \/ ReleaseLock(p) PROVE Typed'
  BY <1>3 DEF AcquireLock, ReleaseLock, SettingsLock!Enter, SettingsLock!Leave
<1>4. ASSUME NEW p \in Writers, Compare(p) PROVE Typed'
  <2>1. tries[p] \in 0..1 /\ place[p] = "compare"
    BY <1>4 DEF Compare, Same, Differs
  <2> QED
    BY <1>4, <2>1 DEF Compare, Same, Differs
<1>5. ASSUME NEW p \in Writers, Write(p) PROVE Typed'
  <2>1. doc' \in Docs
    BY <1>5 DEF Write, Docs
  <2> QED
    BY <1>5, <2>1 DEF Write
<1>6. ASSUME NEW e \in Writers \cup Others, Other(e) \/ Retract(e) PROVE Typed'
  <2>1. doc' \in Docs
    BY <1>6 DEF Other, Retract, Docs
  <2> QED
    BY <1>6, <2>1 DEF Other, Retract
<1>7. CASE Typo
  <2>1. doc' \in Docs
    BY <1>7 DEF Typo, Docs
  <2> QED
    BY <1>7, <2>1 DEF Typo
<1>8. CASE UNCHANGED mutateVars
  BY <1>8 DEF mutateVars
<1> QED
  BY <1>1, <1>2, <1>3, <1>4, <1>5, <1>6, <1>7, <1>8 DEF MutateNext, MutateStep

\* Every variable of Mutate has its type, and no run compares more often than
\* mutateAttempts, whatever else writes the file.
THEOREM MutateTypes == MutateSpec => []MutateTypeOK
<1>1. Typed => MutateTypeOK
  BY DEF Typed
<1> QED
  BY <1>1, MutateTypeInit, MutateTypeStep, PTL DEF MutateSpec

-----------------------------------------------------------------------------

LEMMA UnderLockInit == MutateInit => UnderLock
  BY DEF MutateInit, UnderLock

LEMMA UnderLockStep == Typed /\ UnderLock /\ [MutateNext]_mutateVars => UnderLock'
<1> SUFFICES ASSUME Typed, UnderLock, [MutateNext]_mutateVars PROVE UnderLock'
  OBVIOUS
<1> USE ClaudeSettingsAssumption DEF Typed, MutateTypeOK, UnderLock, GoOn
<1>1. ASSUME NEW p \in Writers, Mutate(p) PROVE UnderLock'
  BY <1>1 DEF Mutate
<1>2. ASSUME NEW p \in Writers, Read(p) PROVE UnderLock'
  BY <1>2 DEF Read
<1>3. ASSUME NEW p \in Writers, AcquireLock(p) PROVE UnderLock'
  BY <1>3 DEF AcquireLock, SettingsLock!Enter
<1>4. ASSUME NEW p \in Writers, Compare(p) PROVE UnderLock'
  BY <1>4 DEF Compare, Same, Differs
<1>5. ASSUME NEW p \in Writers, Write(p) PROVE UnderLock'
  BY <1>5 DEF Write
<1>6. ASSUME NEW p \in Writers, ReleaseLock(p) \/ KillMutate(p) PROVE UnderLock'
  BY <1>6 DEF ReleaseLock, KillMutate, SettingsLock!Leave
<1>7. ASSUME NEW e \in Writers \cup Others, Other(e) \/ Retract(e) PROVE UnderLock'
  BY <1>7 DEF Other, Retract
<1>8. CASE Typo \/ UNCHANGED mutateVars
  BY <1>8 DEF Typo, mutateVars
<1> QED
  BY <1>1, <1>2, <1>3, <1>4, <1>5, <1>6, <1>7, <1>8 DEF MutateNext, MutateStep

LEMMA MutateInvInit == MutateInit => MutateInv
  BY MutateTypeInit, UnderLockInit DEF MutateInit, MutateInv, UpToDate, NoEditLost

LEMMA MutateInvStep == InTime /\ MutateInv /\ [MutateNext]_mutateVars => MutateInv'
<1> SUFFICES ASSUME InTime, MutateInv, [MutateNext]_mutateVars PROVE MutateInv'
  OBVIOUS
<1>t. Typed' /\ UnderLock'
  BY MutateTypeStep, UnderLockStep DEF MutateInv
<1> SUFFICES UpToDate' /\ NoEditLost'
  BY <1>t DEF MutateInv
<1> USE DEF MutateInv, Typed, MutateTypeOK, UpToDate, NoEditLost, GoOn
<1>1. ASSUME NEW p \in Writers,
             Mutate(p) \/ Read(p) \/ AcquireLock(p) \/ ReleaseLock(p) \/ KillMutate(p)
      PROVE  UpToDate' /\ NoEditLost'
  BY <1>1 DEF Mutate, Read, AcquireLock, ReleaseLock, KillMutate
<1>2. ASSUME NEW p \in Writers, Compare(p) PROVE UpToDate' /\ NoEditLost'
  BY <1>2 DEF Compare, Same, Differs
<1>3. ASSUME NEW p \in Writers, Write(p) PROVE UpToDate' /\ NoEditLost'
  <2>1. NoEditLost'
    BY <1>3 DEF Write
  <2>2. ASSUME NEW q \in Writers PROVE place'[q] # "write"
    <3>1. q # p => place[q] # "write"
      BY <1>3, ClaudeSettingsAssumption DEF Write, UnderLock
    <3> QED
      BY <1>3, <3>1 DEF Write
  <2> QED
    BY <2>1, <2>2
<1>4. ASSUME NEW e \in Writers \cup Others, Other(e) \/ Retract(e)
      PROVE  UpToDate' /\ NoEditLost'
  <2>1. \A p \in Writers : place'[p] # "write"
    BY <1>4 DEF Other, Retract, Elsewhere, InTime
  <2>2. CASE Other(e)
    BY <2>1, <2>2 DEF Other, Docs
  <2>3. CASE Retract(e)
    BY <2>1, <2>3 DEF Retract, Docs
  <2> QED
    BY <1>4, <2>2, <2>3
<1>5. CASE Typo
  <2>1. \A p \in Writers : place'[p] # "write"
    BY <1>5 DEF Typo, Elsewhere, InTime
  <2> QED
    BY <1>5, <2>1 DEF Typo, Docs
<1>6. CASE UNCHANGED mutateVars
  BY <1>6 DEF mutateVars
<1> QED
  BY <1>1, <1>2, <1>3, <1>4, <1>5, <1>6 DEF MutateNext, MutateStep

\* A write of dot loses no edit of another dot process, of Claude Code or of
\* the user, and brings back none that was taken back, with any number of
\* writers, unless one of them hits the moment before the rename.
THEOREM MutateKeepsEdits == InTime => (MutateSpec => []NoEditLost)
<1> SUFFICES ASSUME InTime PROVE MutateSpec => []NoEditLost
  OBVIOUS
<1>1. InTime /\ MutateInv /\ [MutateNext]_mutateVars => MutateInv'
  BY MutateInvStep
<1>2. MutateInv => NoEditLost
  BY DEF MutateInv
<1> QED
  BY <1>1, <1>2, MutateInvInit, PTL DEF MutateSpec

-----------------------------------------------------------------------------
(***************************************************************************)
(* Proofs about Preferences, for any targets, contents and number of runs. *)
(*                                                                         *)
(* The lock gives every run the receipt to itself between its second plan  *)
(* and its end (Locked); the editor and the files are not behind it. The   *)
(* invariant therefore says, for each place a run may stop at, how far the *)
(* files it has still to move and those it has moved agree with the        *)
(* receipt: Working for what a run publishes, Sparing for what a rollback  *)
(* may still remove, Settling for what the receipt must recognise.         *)
(*                                                                         *)
(* OverlayTypes, OverlaysApplied and OverlaysRecognised hold whatever      *)
(* happens; OverlaysSpareForeign needs that no edit falls between the last *)
(* check of a file and its replacement or removal (NoLateEdit).            *)
(***************************************************************************)

NoLateEdit == {"latePublish", "lateEdit"} \cap Allowed = {}

Inside == {"plan", "journal", "publish", "check", "remove", "leave"}

Locked == \A p \in Procs : phase[p] \in Inside <=> runner = p

Working ==
    \A p \in Procs : phase[p] \in {"journal", "publish"} =>
        \A t \in Targets :
            /\ t \in todo[p] => want[p][t] # None
            /\ t \notin todo[p] /\ want[p][t] # None =>
                  file[t] \in {want[p][t], Foreign, Absent}

\* The target that was checked last is one the run in Apply still has to publish.
Aiming ==
    checked = {} \/ \E p \in Procs : phase[p] = "publish" /\ checked \subseteq todo[p]

Sparing ==
    /\ \A t \in checked : file[t] # Foreign
    /\ \A p \in Procs : phase[p] = "remove" => \A t \in todo[p] : file[t] # Foreign

Settling ==
    /\ NoFalseConflict
    /\ \A p \in Procs, t \in Targets :
          /\ phase[p] = "publish" /\ t \in todo[p] =>
                receipt[t] # NoEntry /\ receipt[t].hash = want[p][t]
          /\ phase[p] = "remove" /\ t \notin todo[p] /\ t \notin dropped =>
                file[t] \notin Contents

OverlayInv == OverlayTypeOK /\ Locked /\ Working /\ Aiming

\* A file that is foreign, or absent, is none that the receipt recognises.
LEMMA Unknown ==
  ASSUME OverlayTypeOK, NEW t \in Targets, Recognised(t)
  PROVE  file[t] \in Contents
BY PreferencesAssumption DEF OverlayTypeOK, Recognised

LEMMA EntryTyped ==
  ASSUME OverlayTypeOK, NEW t \in Targets, receipt[t] # NoEntry
  PROVE  /\ receipt[t] \in [hash : Contents, prev : Contents \cup {None}]
         /\ receipt[t].hash \in Contents /\ receipt[t].prev \in Contents \cup {None}
BY DEF OverlayTypeOK

\* What Journal writes: entries of the policy's contents, and for a file that
\* is not foreign its present content as the previous one.
LEMMA JournalledTyped ==
  ASSUME OverlayTypeOK, NEW p \in Procs, NEW ts \in SUBSET Targets,
         \A t \in ts : want[p][t] # None,
         \A t \in ts : receipt[t] = NoEntry \/ ~Conflict(t)
  PROVE  Journalled(want[p], ts)
            \in [Targets -> [hash : Contents, prev : Contents \cup {None}] \cup {NoEntry}]
<1> DEFINE w == want[p]
<1>1. w \in [Targets -> Contents \cup {None}]
  BY DEF OverlayTypeOK, Wants
<1>2. ASSUME NEW t \in Targets
      PROVE  Journalled(w, ts)[t] \in [hash : Contents, prev : Contents \cup {None}] \cup {NoEntry}
  <2>1. CASE t \notin ts
    BY <1>2, <2>1 DEF Journalled, OverlayTypeOK
  <2>2. CASE t \in ts
    <3>1. w[t] \in Contents
      BY <1>1, <2>2
    <3>2. CASE receipt[t] = NoEntry \/ file[t] = Absent
      BY <2>2, <3>1, <3>2 DEF Journalled, Entry
    <3>3. CASE ~(receipt[t] = NoEntry \/ file[t] = Absent)
      <4>1. file[t] \in Contents
        BY <2>2, <3>3, Unknown DEF Conflict
      <4> QED
        BY <2>2, <3>1, <3>3, <4>1 DEF Journalled, Entry
    <3> QED
      BY <3>2, <3>3
  <2> QED
    BY <2>1, <2>2
<1> QED
  BY <1>2 DEF Journalled

LEMMA SettledTyped ==
  ASSUME OverlayTypeOK
  PROVE  Settled \in [Targets -> [hash : Contents, prev : Contents \cup {None}] \cup {NoEntry}]
<1>1. ASSUME NEW t \in Targets
      PROVE  Settled[t] \in [hash : Contents, prev : Contents \cup {None}] \cup {NoEntry}
  BY <1>1, EntryTyped DEF Settled
<1> QED
  BY <1>1 DEF Settled

LEMMA OverlayInvInit == OverlayInit => OverlayInv
BY PreferencesAssumption
   DEF OverlayInit, OverlayInv, OverlayTypeOK, Locked, Working, Aiming, Inside, Idle, Wants,
       Phases

\* At most one run is past the lock.
LEMMA Alone ==
  ASSUME OverlayInv, NEW p \in Procs, NEW q \in Procs, phase[p] \in Inside, phase[q] \in Inside
  PROVE  p = q
BY DEF OverlayInv, Locked

LEMMA Aimed ==
  ASSUME OverlayInv, NEW p \in Procs, phase[p] = "publish"
  PROVE  checked \subseteq todo[p]
<1>1. ASSUME NEW q \in Procs, phase[q] = "publish" PROVE q = p
  BY <1>1, Alone DEF Inside
<1> QED
  BY <1>1 DEF OverlayInv, Aiming

LEMMA OverlayTypeStep == OverlayInv /\ [OverlayNext]_overlayVars => OverlayTypeOK'
<1> SUFFICES ASSUME OverlayInv, [OverlayNext]_overlayVars PROVE OverlayTypeOK'
  OBVIOUS
<1> USE DEF OverlayInv
<1>1. Idle \in Wants
  BY DEF Idle, Wants
<1>2. ASSUME NEW p \in Procs, NEW w \in Wants, Apply(p, w) PROVE OverlayTypeOK'
  BY <1>2 DEF Apply, Proceed, OverlayTypeOK, Phases, Due, Wanted
<1>3. ASSUME NEW p \in Procs, Acquire(p) PROVE OverlayTypeOK'
  BY <1>1, <1>3 DEF Acquire, AcquireFor, Proceed, End, RunLock!Enter, OverlayTypeOK, Phases
<1>4. ASSUME NEW p \in Procs, Plan(p) PROVE OverlayTypeOK'
  BY <1>4 DEF Plan, Proceed, OverlayTypeOK, Phases, Due, Wanted
<1>5. ASSUME NEW p \in Procs, Journal(p) PROVE OverlayTypeOK'
  <2>1. /\ UNCHANGED <<file, want, todo, checked, runner, dropped>>
        /\ phase' \in [Procs -> Phases]
    BY <1>5 DEF Journal, Proceed, OverlayTypeOK, Phases
  <2>2. CASE \E t \in todo[p] : receipt[t] # NoEntry /\ Conflict(t)
    BY <1>5, <2>1, <2>2 DEF Journal, OverlayTypeOK
  <2>3. CASE ~\E t \in todo[p] : receipt[t] # NoEntry /\ Conflict(t)
    <3>1. receipt' = Journalled(want[p], todo[p]) /\ phase[p] = "journal"
      BY <1>5, <2>3 DEF Journal, Proceed
    <3>2. todo[p] \in SUBSET Targets /\ \A t \in todo[p] : want[p][t] # None
      BY <3>1 DEF OverlayTypeOK, Working
    <3>3. receipt' \in [Targets -> [hash : Contents, prev : Contents \cup {None}] \cup {NoEntry}]
      BY <2>3, <3>1, <3>2, JournalledTyped
    <3> QED
      BY <2>1, <3>3 DEF OverlayTypeOK
  <2> QED
    BY <2>2, <2>3
<1>6. ASSUME NEW p \in Procs, NEW t \in Targets, PublishCheck(p, t) \/ Publish(p, t)
      PROVE  OverlayTypeOK'
  <2>1. CASE PublishCheck(p, t)
    BY <1>6, <2>1 DEF PublishCheck, Proceed, OverlayTypeOK, Phases
  <2>2. CASE Publish(p, t)
    <3>1. t \in todo[p]
      BY <2>2, Aimed DEF Publish
    <3>2. want[p][t] \in Contents
      BY <2>2, <3>1 DEF Publish, OverlayTypeOK, Wants, Working
    <3> QED
      BY <2>2, <3>2 DEF Publish, OverlayTypeOK
  <2> QED
    BY <1>6, <2>1, <2>2
<1>7. ASSUME NEW p \in Procs, Settle(p) PROVE OverlayTypeOK'
  BY <1>7, SettledTyped DEF Settle, SetAside, Proceed, OverlayTypeOK, Phases
<1>8. ASSUME NEW p \in Procs, Rollback(p) \/ Check(p) PROVE OverlayTypeOK'
  BY <1>8 DEF Rollback, Check, Owned, Proceed, OverlayTypeOK, Phases
<1>9. ASSUME NEW p \in Procs, NEW t \in Targets, Remove(p, t) PROVE OverlayTypeOK'
  BY <1>9 DEF Remove, OverlayTypeOK
<1>10. ASSUME NEW p \in Procs, Forget(p) PROVE OverlayTypeOK'
  BY <1>10 DEF Forget, Proceed, OverlayTypeOK, Phases
<1>11. ASSUME NEW p \in Procs, Leave(p) \/ Stop(p) PROVE OverlayTypeOK'
  BY <1>1, <1>11 DEF Leave, Stop, RunLock!Leave, Proceed, End, OverlayTypeOK, Phases
<1>12. ASSUME NEW t \in Targets, Edit(t) \/ Delete(t) PROVE OverlayTypeOK'
  BY <1>12 DEF Edit, Delete, OverlayTypeOK
<1>13. CASE UNCHANGED overlayVars
  BY <1>13 DEF overlayVars, OverlayTypeOK
<1> QED
  BY <1>2, <1>3, <1>4, <1>5, <1>6, <1>7, <1>8, <1>9, <1>10, <1>11, <1>12, <1>13 DEF OverlayNext, Run

\* A run enters by taking the lock and leaves by giving it up.
LEMMA LockedStep == OverlayInv /\ [OverlayNext]_overlayVars => Locked'
<1> SUFFICES ASSUME OverlayInv, [OverlayNext]_overlayVars PROVE Locked'
  OBVIOUS
<1> USE PreferencesAssumption DEF OverlayInv, OverlayTypeOK, Locked, Inside
<1>1. ASSUME NEW p \in Procs, NEW w \in Wants, Apply(p, w) PROVE Locked'
  BY <1>1 DEF Apply, Proceed
<1>2. ASSUME NEW p \in Procs, Acquire(p) PROVE Locked'
  BY <1>2 DEF Acquire, AcquireFor, Proceed, RunLock!Enter
<1>3. ASSUME NEW p \in Procs, Plan(p) \/ Journal(p) \/ Settle(p) \/ Check(p) \/ Forget(p)
      PROVE  Locked'
  BY <1>3 DEF Plan, Journal, Settle, Check, Forget, Proceed
<1>4. ASSUME NEW p \in Procs, NEW t \in Targets,
             PublishCheck(p, t) \/ Publish(p, t) \/ Remove(p, t)
      PROVE  Locked'
  BY <1>4 DEF PublishCheck, Publish, Remove, Proceed
<1>5. ASSUME NEW p \in Procs, Rollback(p) PROVE Locked'
  BY <1>5 DEF Rollback, Proceed
<1>6. ASSUME NEW p \in Procs, Leave(p) \/ Stop(p) PROVE Locked'
  BY <1>6 DEF Leave, Stop, Proceed, RunLock!Leave
<1>7. CASE UNCHANGED overlayVars \/ \E t \in Targets : Edit(t) \/ Delete(t)
  BY <1>7 DEF overlayVars, Edit, Delete
<1> QED
  BY <1>1, <1>2, <1>3, <1>4, <1>5, <1>6, <1>7 DEF OverlayNext, Run

\* What a run that journals or publishes has left out already agrees with its
\* policy, or someone else has written it since.
LEMMA WorkingStep == OverlayInv /\ [OverlayNext]_overlayVars => Working'
<1> SUFFICES ASSUME OverlayInv, [OverlayNext]_overlayVars PROVE Working'
  OBVIOUS
<1>0. OverlayTypeOK /\ OverlayTypeOK'
  BY OverlayTypeStep DEF OverlayInv
<1> USE DEF OverlayInv, Working
<1>1. ASSUME NEW p \in Procs, NEW w \in Wants, Apply(p, w) PROVE Working'
  BY <1>0, <1>1 DEF Apply, Proceed, OverlayTypeOK
<1>2. ASSUME NEW p \in Procs, Acquire(p) PROVE Working'
  BY <1>0, <1>2 DEF Acquire, AcquireFor, Proceed, End, OverlayTypeOK
<1>3. ASSUME NEW p \in Procs, Plan(p) PROVE Working'
  BY <1>0, <1>3 DEF Plan, Proceed, Due, Wanted, OverlayTypeOK
<1>4. ASSUME NEW p \in Procs, Journal(p) PROVE Working'
  BY <1>0, <1>4 DEF Journal, Proceed, OverlayTypeOK
<1>5. ASSUME NEW p \in Procs, NEW t \in Targets, PublishCheck(p, t) \/ Publish(p, t)
      PROVE  Working'
  <2>1. CASE PublishCheck(p, t)
    BY <1>0, <2>1 DEF PublishCheck, Proceed, OverlayTypeOK
  <2>2. CASE Publish(p, t)
    <3>1. /\ UNCHANGED <<phase, want>> /\ phase[p] = "publish"
          /\ file' = [file EXCEPT ![t] = want[p][t]]
          /\ todo' = [todo EXCEPT ![p] = @ \ {t}]
      BY <2>2 DEF Publish
    <3>2. \A q \in Procs : q # p => phase[q] \notin {"journal", "publish"}
      BY <3>1, Alone DEF Inside
    <3> QED
      BY <1>0, <3>1, <3>2 DEF OverlayTypeOK
  <2> QED
    BY <1>5, <2>1, <2>2
<1>6. ASSUME NEW p \in Procs, Settle(p) \/ Rollback(p) \/ Check(p) \/ Forget(p) PROVE Working'
  BY <1>0, <1>6 DEF Settle, Rollback, Check, Forget, Proceed, OverlayTypeOK
<1>7. ASSUME NEW p \in Procs, NEW t \in Targets, Remove(p, t) PROVE Working'
  BY <1>0, <1>7 DEF Remove, OverlayTypeOK
<1>8. ASSUME NEW p \in Procs, Leave(p) \/ Stop(p) PROVE Working'
  BY <1>0, <1>8 DEF Leave, Stop, Proceed, End, OverlayTypeOK
<1>9. ASSUME NEW t \in Targets, Edit(t) \/ Delete(t) PROVE Working'
  BY <1>0, <1>9 DEF Edit, Delete, OverlayTypeOK
<1>10. CASE UNCHANGED overlayVars
  BY <1>10 DEF overlayVars
<1> QED
  BY <1>1, <1>2, <1>3, <1>4, <1>5, <1>6, <1>7, <1>8, <1>9, <1>10 DEF OverlayNext, Run

\* Only the run that publishes has checked a target.
LEMMA AimingStep == OverlayInv /\ [OverlayNext]_overlayVars => Aiming'
<1> SUFFICES ASSUME OverlayInv, [OverlayNext]_overlayVars PROVE Aiming'
  OBVIOUS
<1>0. OverlayTypeOK /\ Aiming
  BY DEF OverlayInv
<1>1. ASSUME NEW p \in Procs, phase[p] # "publish",
             UNCHANGED checked,
             \A q \in Procs : q # p => phase'[q] = phase[q] /\ todo'[q] = todo[q]
      PROVE  Aiming'
  BY <1>0, <1>1 DEF Aiming
<1>2. ASSUME NEW p \in Procs,
             \/ \E w \in Wants : Apply(p, w)
             \/ Acquire(p) \/ Plan(p) \/ Journal(p) \/ Rollback(p) \/ Check(p)
             \/ Forget(p) \/ Leave(p)
             \/ \E t \in Targets : Remove(p, t)
      PROVE  Aiming'
  BY <1>0, <1>1, <1>2 DEF Apply, Acquire, AcquireFor, Plan, Journal, Rollback, Check, Forget,
     Leave, Remove, End, Proceed, OverlayTypeOK
<1>3. ASSUME NEW p \in Procs, NEW t \in Targets, PublishCheck(p, t) PROVE Aiming'
  <2>1. CASE Conflict(t)
    BY <1>3, <2>1 DEF PublishCheck, Aiming
  <2>2. CASE ~Conflict(t)
    BY <1>3, <2>2 DEF PublishCheck, Aiming
  <2> QED
    BY <2>1, <2>2
<1>4. ASSUME NEW p \in Procs, NEW t \in Targets, Publish(p, t) PROVE Aiming'
  BY <1>4 DEF Publish, Aiming
<1>5. ASSUME NEW p \in Procs, Settle(p) PROVE Aiming'
  <2>1. checked = {} /\ UNCHANGED checked
    BY <1>5, Aimed DEF Settle, Proceed
  <2> QED
    BY <2>1 DEF Aiming
<1>6. ASSUME NEW p \in Procs, Stop(p) PROVE Aiming'
  BY <1>6 DEF Stop, Aiming
<1>7. ASSUME NEW t \in Targets, Edit(t) \/ Delete(t) PROVE Aiming'
  BY <1>0, <1>7 DEF Edit, Delete, Aiming
<1>8. CASE UNCHANGED overlayVars
  BY <1>0, <1>8 DEF overlayVars, Aiming
<1> QED
  BY <1>2, <1>3, <1>4, <1>5, <1>6, <1>7, <1>8 DEF OverlayNext, Run

LEMMA OverlayInvStep == OverlayInv /\ [OverlayNext]_overlayVars => OverlayInv'
BY OverlayTypeStep, LockedStep, WorkingStep, AimingStep DEF OverlayInv

-----------------------------------------------------------------------------

\* Without a late edit, what is checked and about to be replaced, and what a
\* rollback has left to remove, is not foreign.
LEMMA SparingStep == NoLateEdit /\ OverlayInv /\ Sparing /\ [OverlayNext]_overlayVars => Sparing'
<1> SUFFICES ASSUME NoLateEdit, OverlayInv, Sparing, [OverlayNext]_overlayVars PROVE Sparing'
  OBVIOUS
<1>0. OverlayTypeOK
  BY DEF OverlayInv
<1> USE DEF Sparing
<1>1. ASSUME NEW p \in Procs,
             \/ \E w \in Wants : Apply(p, w)
             \/ Acquire(p) \/ Plan(p) \/ Journal(p) \/ Settle(p)
             \/ Rollback(p) \/ Forget(p) \/ Leave(p) \/ Stop(p)
      PROVE  Sparing'
  BY <1>0, <1>1 DEF Apply, Acquire, AcquireFor, Plan, Journal, Settle, Rollback, Forget, Leave,
     Stop, End, Proceed, OverlayTypeOK
<1>2. ASSUME NEW p \in Procs, Check(p) PROVE Sparing'
  <2>1. CASE \E t \in Owned : Conflict(t)
    BY <1>0, <1>2, <2>1 DEF Check, Proceed, OverlayTypeOK
  <2>2. CASE ~\E t \in Owned : Conflict(t)
    <3>1. \A t \in Owned : file[t] # Foreign
      BY <1>0, <2>2, Unknown, PreferencesAssumption DEF Owned, Conflict
    <3> QED
      BY <1>0, <1>2, <2>2, <3>1 DEF Check, Proceed, OverlayTypeOK
  <2> QED
    BY <2>1, <2>2
<1>3. ASSUME NEW p \in Procs, NEW t \in Targets, PublishCheck(p, t) PROVE Sparing'
  <2>1. CASE Conflict(t)
    BY <1>0, <1>3, <2>1 DEF PublishCheck, Proceed, OverlayTypeOK
  <2>2. CASE ~Conflict(t)
    <3>1. file[t] # Foreign
      BY <1>0, <2>2, Unknown, PreferencesAssumption DEF Conflict
    <3> QED
      BY <1>3, <2>2, <3>1 DEF PublishCheck
  <2> QED
    BY <2>1, <2>2
<1>8. ASSUME NEW p \in Procs, NEW t \in Targets, Publish(p, t) PROVE Sparing'
  <2>1. \A q \in Procs : phase[q] # "remove"
    BY <1>8 DEF Publish, OverlayInv, Locked, Inside
  <2> QED
    BY <1>8, <2>1 DEF Publish
<1>4. ASSUME NEW p \in Procs, NEW t \in Targets, Remove(p, t) PROVE Sparing'
  BY <1>0, <1>4, PreferencesAssumption DEF Remove, OverlayTypeOK
<1>5. ASSUME NEW t \in Targets, Edit(t) PROVE Sparing'
  BY <1>0, <1>5 DEF Edit, Removing, NoLateEdit, OverlayTypeOK
<1>6. ASSUME NEW t \in Targets, Delete(t) PROVE Sparing'
  BY <1>0, <1>6, PreferencesAssumption DEF Delete, OverlayTypeOK
<1>7. CASE UNCHANGED overlayVars
  BY <1>7 DEF overlayVars
<1> QED
  BY <1>1, <1>2, <1>3, <1>4, <1>5, <1>6, <1>7, <1>8 DEF OverlayNext, Run

\* Only its owner takes a foreign file away.
LEMMA ForeignStep ==
  ASSUME OverlayInv, Sparing, [OverlayNext]_overlayVars,
         NEW t \in Targets, file[t] = Foreign, file'[t] # Foreign
  PROVE  Delete(t)
<1>0. OverlayTypeOK
  BY DEF OverlayInv
<1>2. ASSUME NEW p \in Procs, Run(p) PROVE FALSE
  <2>1. ASSUME NEW s \in Targets, Publish(p, s) PROVE FALSE
    <3>1. s = t /\ s \in checked
      BY <1>0, <2>1 DEF Publish, OverlayTypeOK
    <3> QED
      BY <3>1 DEF Sparing
  <2>2. ASSUME NEW s \in Targets, Remove(p, s) PROVE FALSE
    <3>1. s = t /\ phase[p] = "remove" /\ s \in todo[p]
      BY <1>0, <2>2 DEF Remove, OverlayTypeOK
    <3> QED
      BY <3>1 DEF Sparing
  <2>3. ASSUME \/ \E w \in Wants : Apply(p, w)
               \/ Acquire(p) \/ Plan(p) \/ Journal(p) \/ Settle(p)
               \/ Rollback(p) \/ Check(p) \/ Forget(p) \/ Leave(p) \/ Stop(p)
               \/ \E s \in Targets : PublishCheck(p, s)
        PROVE  FALSE
    BY <2>3 DEF PublishCheck, Apply, Acquire, Plan, Journal, Settle, Rollback, Check, Forget, Leave, Stop
  <2> QED
    BY <1>2, <2>1, <2>2, <2>3 DEF Run
<1>3. ASSUME NEW s \in Targets, Edit(s) PROVE FALSE
  BY <1>0, <1>3 DEF Edit, OverlayTypeOK
<1>4. ASSUME NEW s \in Targets, Delete(s) PROVE Delete(t)
  <2>1. s = t
    BY <1>0, <1>4 DEF Delete, OverlayTypeOK
  <2> QED
    BY <1>4, <2>1
<1>5. ~UNCHANGED overlayVars
  BY DEF overlayVars
<1> QED
  BY <1>2, <1>3, <1>4, <1>5 DEF OverlayNext

-----------------------------------------------------------------------------

\* The receipt recognises what dot generated, at every step of every run.
LEMMA SettlingStep == OverlayInv /\ Settling /\ [OverlayNext]_overlayVars => Settling'
<1> SUFFICES ASSUME OverlayInv, Settling, [OverlayNext]_overlayVars PROVE Settling'
  OBVIOUS
<1>0. OverlayTypeOK /\ OverlayTypeOK'
  BY OverlayTypeStep DEF OverlayInv
<1> USE DEF Settling, NoFalseConflict, Recognised
<1>1. ASSUME NEW p \in Procs,
             \/ \E w \in Wants : Apply(p, w)
             \/ Acquire(p) \/ Rollback(p) \/ Leave(p) \/ Stop(p)
      PROVE  Settling'
  <2>1. UNCHANGED <<file, receipt, dropped>>
    BY <1>1 DEF Apply, Acquire, Rollback, Leave, Stop
  <2>2. \A q \in Procs : phase'[q] \in {"journal", "publish", "remove"} =>
           phase'[q] = phase[q] /\ todo'[q] = todo[q] /\ want'[q] = want[q]
    BY <1>0, <1>1 DEF Apply, Acquire, AcquireFor, Rollback, Leave, Stop, End, Proceed, OverlayTypeOK
  <2> QED
    BY <2>1, <2>2
<1>2. ASSUME NEW p \in Procs, Plan(p) PROVE Settling'
  <2>1. UNCHANGED <<file, receipt, want, dropped>> /\ phase[p] = "plan"
    BY <1>2 DEF Plan, Proceed
  <2>2. \A q \in Procs : q # p => phase'[q] = phase[q] /\ todo'[q] = todo[q]
    BY <1>0, <1>2 DEF Plan, Proceed, OverlayTypeOK
  <2>3. phase'[p] \in {"journal", "leave"}
    BY <1>0, <1>2 DEF Plan, Proceed, OverlayTypeOK
  <2> QED
    BY <2>1, <2>2, <2>3
<1>3. ASSUME NEW p \in Procs, Journal(p) PROVE Settling'
  <2>1. UNCHANGED <<file, want, todo, dropped>> /\ phase[p] = "journal"
    BY <1>3 DEF Journal, Proceed
  <2>2. \A q \in Procs : q # p => phase'[q] = phase[q] /\ phase'[q] \notin Inside
    BY <1>0, <1>3, <2>1, Alone DEF Journal, Proceed, OverlayTypeOK, Inside
  <2>3. CASE \E t \in todo[p] : receipt[t] # NoEntry /\ Conflict(t)
    <3>1. UNCHANGED receipt /\ phase'[p] = "leave"
      BY <1>0, <1>3, <2>3 DEF Journal, Proceed, OverlayTypeOK
    <3> QED
      BY <2>1, <2>2, <3>1 DEF Inside
  <2>4. CASE ~\E t \in todo[p] : receipt[t] # NoEntry /\ Conflict(t)
    <3>1. receipt' = Journalled(want[p], todo[p]) /\ phase'[p] = "publish"
      BY <1>0, <1>3, <2>4 DEF Journal, Proceed, OverlayTypeOK
    <3>2. \A t \in Targets : t \notin todo[p] => receipt'[t] = receipt[t]
      BY <3>1 DEF Journalled
    <3>3. ASSUME NEW t \in todo[p]
          PROVE  /\ receipt'[t] # NoEntry /\ receipt'[t].hash = want[p][t]
                 /\ file[t] \in Contents /\ t \notin dropped => receipt'[t].prev = file[t]
      <4>1. t \in Targets /\ want[p][t] # None
        BY <1>0, <2>1 DEF OverlayTypeOK, OverlayInv, Working
      <4>2. receipt'[t] = Entry(t, want[p], IF receipt[t] = NoEntry \/ file[t] = Absent
                                            THEN None ELSE file[t])
        BY <3>1, <4>1 DEF Journalled
      <4>3. file[t] \in Contents /\ t \notin dropped =>
               receipt[t] # NoEntry /\ file[t] # Absent
        BY <4>1, PreferencesAssumption
      <4>4. receipt'[t] # NoEntry
        <5>1. want[p][t] \in Contents
          BY <1>0, <4>1 DEF OverlayTypeOK, Wants
        <5>2. (IF receipt[t] = NoEntry \/ file[t] = Absent THEN None ELSE file[t])
                 \in Contents \cup {Foreign, None}
          BY <1>0, <4>1 DEF OverlayTypeOK
        <5> QED
          BY <4>2, <5>1, <5>2, PreferencesAssumption DEF Entry
      <4> QED
        BY <4>2, <4>3, <4>4 DEF Entry
    <3>4. todo[p] \in SUBSET Targets
      BY <1>0 DEF OverlayTypeOK
    <3> QED
      BY <2>1, <2>2, <3>1, <3>2, <3>3, <3>4 DEF Inside
  <2> QED
    BY <2>3, <2>4
<1>4. ASSUME NEW p \in Procs, NEW t \in Targets, PublishCheck(p, t) PROVE Settling'
  BY <1>0, <1>4 DEF PublishCheck, Proceed, OverlayTypeOK
<1>11. ASSUME NEW p \in Procs, NEW t \in Targets, Publish(p, t) PROVE Settling'
  <2>1. /\ UNCHANGED <<receipt, phase, want>> /\ phase[p] = "publish" /\ t \in todo[p]
        /\ file' = [file EXCEPT ![t] = want[p][t]]
        /\ todo' = [todo EXCEPT ![p] = @ \ {t}]
        /\ dropped' = dropped \ {t}
    BY <1>11, Aimed DEF Publish
  <2>2. \A q \in Procs : q # p => phase[q] \notin Inside
    BY <2>1, Alone DEF Inside
  <2> QED
    BY <1>0, <2>1, <2>2 DEF OverlayTypeOK, Inside
<1>5. ASSUME NEW p \in Procs, Settle(p) PROVE Settling'
  <2>1. /\ UNCHANGED <<file, todo>> /\ phase[p] = "publish" /\ todo[p] = {}
        /\ receipt' = Settled /\ dropped' = dropped \cup SetAside(p)
    BY <1>5 DEF Settle, Proceed
  <2>2. \A q \in Procs : phase'[q] \notin {"journal", "publish", "remove"}
    BY <1>0, <1>5, <2>1, Alone DEF Settle, Proceed, OverlayTypeOK, Inside
  <2>3. ASSUME NEW t \in Targets, file[t] \in Contents, t \notin dropped'
        PROVE  receipt'[t] # NoEntry /\ file[t] = receipt'[t].hash
    <3>0. receipt[t] # NoEntry
      BY <2>1, <2>3
    <3>3. receipt[t] \in [hash : Contents, prev : Contents \cup {None}]
      BY <1>0, <3>0, EntryTyped
    <3>1. file[t] = receipt[t].hash
      <4>1. file[t] = receipt[t].hash \/ receipt[t].hash = want[p][t]
        BY <2>1, <2>3 DEF SetAside
      <4>2. want[p][t] # None => file[t] = want[p][t]
        BY <2>1, <2>3, PreferencesAssumption DEF OverlayInv, Working
      <4> QED
        BY <3>3, <4>1, <4>2, PreferencesAssumption
    <3>2. receipt'[t] = [receipt[t] EXCEPT !.prev = None]
      BY <2>1, <3>0 DEF Settled
    <3>4. /\ receipt'[t] \in [hash : Contents, prev : Contents \cup {Foreign, None}]
          /\ receipt'[t].hash = receipt[t].hash
      BY <3>2, <3>3
    <3> QED
      BY <3>1, <3>4, PreferencesAssumption
  <2> QED
    BY <2>1, <2>2, <2>3
<1>6. ASSUME NEW p \in Procs, Check(p) PROVE Settling'
  <2>1. UNCHANGED <<file, receipt, want, dropped>> /\ phase[p] = "check"
    BY <1>6 DEF Check, Proceed
  <2>2. \A q \in Procs : q # p => phase'[q] = phase[q] /\ phase'[q] \notin Inside
    BY <1>0, <1>6, <2>1, Alone DEF Check, Proceed, OverlayTypeOK, Inside
  <2>3. /\ phase'[p] \in {"leave", "remove"}
        /\ phase'[p] = "remove" => todo'[p] = Owned
    BY <1>0, <1>6 DEF Check, Proceed, OverlayTypeOK
  <2> QED
    BY <2>1, <2>2, <2>3 DEF Owned, Inside
<1>7. ASSUME NEW p \in Procs, NEW t \in Targets, Remove(p, t) PROVE Settling'
  <2>1. /\ UNCHANGED <<receipt, phase, want>> /\ phase[p] = "remove"
        /\ file' = [file EXCEPT ![t] = Absent]
        /\ todo' = [todo EXCEPT ![p] = @ \ {t}]
        /\ dropped' = dropped \ {t}
    BY <1>7 DEF Remove
  <2>2. \A q \in Procs : q # p => phase[q] \notin Inside
    BY <2>1, Alone DEF Inside
  <2> QED
    BY <1>0, <2>1, <2>2, PreferencesAssumption DEF OverlayTypeOK, Inside
<1>8. ASSUME NEW p \in Procs, Forget(p) PROVE Settling'
  <2>1. UNCHANGED <<file, dropped>> /\ phase[p] = "remove" /\ todo[p] = {}
    BY <1>8 DEF Forget, Proceed
  <2>2. \A q \in Procs : phase'[q] \notin {"journal", "publish", "remove"}
    BY <1>0, <1>8, <2>1, Alone DEF Forget, Proceed, OverlayTypeOK, Inside
  <2> QED
    BY <2>1, <2>2
<1>9. ASSUME NEW t \in Targets, Edit(t) \/ Delete(t) PROVE Settling'
  BY <1>0, <1>9, PreferencesAssumption DEF Edit, Delete, OverlayTypeOK
<1>10. CASE UNCHANGED overlayVars
  BY <1>10 DEF overlayVars
<1> QED
  BY <1>1, <1>2, <1>3, <1>4, <1>5, <1>6, <1>7, <1>8, <1>9, <1>10, <1>11 DEF OverlayNext, Run

-----------------------------------------------------------------------------

\* Every variable keeps its type, and the receipt never takes a foreign content
\* for a previous version of dot's (journal, preferences.go).
THEOREM OverlayTypes == OverlaySpec => []OverlayTypeOK
<1>1. OverlayInv => OverlayTypeOK
  BY DEF OverlayInv
<1> QED
  BY <1>1, OverlayInvInit, OverlayInvStep, PTL DEF OverlaySpec

\* A run of Apply (preferences.go) that has nothing left to publish has
\* published its own policy: the plan made again under the lock makes what
\* another run did before it harmless, with any faults.
THEOREM OverlaysApplied == OverlaySpec => []AppliedWhole
<1>1. OverlayInv => AppliedWhole
  BY DEF OverlayInv, Working, AppliedWhole, Wanted
<1> QED
  BY <1>1, OverlayInvInit, OverlayInvStep, PTL DEF OverlaySpec

\* No run of Apply or Rollback (preferences.go), nor a later one after a stop,
\* replaces or removes what someone else wrote over an overlay, if no edit falls
\* between the last check of a file and its replacement or removal.
THEOREM OverlaysSpareForeign == NoLateEdit => (OverlaySpec => ForeignKept)
<1> SUFFICES ASSUME NoLateEdit PROVE OverlaySpec => ForeignKept
  OBVIOUS
<1>1. OverlayInit => OverlayInv /\ Sparing
  BY OverlayInvInit DEF OverlayInit, Sparing
<1>2. NoLateEdit /\ (OverlayInv /\ Sparing) /\ [OverlayNext]_overlayVars => (OverlayInv /\ Sparing)'
  BY OverlayInvStep, SparingStep
<1>3. OverlayInv /\ Sparing /\ [OverlayNext]_overlayVars =>
        [\A t \in Targets : file[t] = Foreign /\ file'[t] # Foreign => Delete(t)]_overlayVars
  BY ForeignStep
<1> QED
  BY <1>1, <1>2, <1>3, PTL DEF OverlaySpec, ForeignKept

\* Wherever a run stops, a file dot generated is one its receipt recognises, so
\* that the run can be retried or rolled back, unless Apply for other targets
\* dropped the previous hash it was known by (preferences.go); with any faults.
THEOREM OverlaysRecognised == OverlaySpec => []NoFalseConflict
<1>1. OverlayInit => OverlayInv /\ Settling
  BY OverlayInvInit, PreferencesAssumption DEF OverlayInit, Settling, NoFalseConflict
<1>2. OverlayInv /\ Settling /\ [OverlayNext]_overlayVars => (OverlayInv /\ Settling)'
  BY OverlayInvStep, SettlingStep
<1>3. OverlayInv /\ Settling => NoFalseConflict
  BY DEF Settling
<1> QED
  BY <1>1, <1>2, <1>3, PTL DEF OverlaySpec

=============================================================================
