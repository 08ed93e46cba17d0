-------------------------- MODULE MirrorSyncProofs --------------------------
(***************************************************************************)
(* Proofs about MirrorSync, for any number of paths and changes and any    *)
(* max_delete.                                                             *)
(*                                                                         *)
(* Every invariant is about one path p and relates what both trees and the *)
(* baseline say of it, at every place a command may be killed at.          *)
(*                                                                         *)
(* NoContentLost: what somebody wrote and the baseline records is on the   *)
(* mirror or kept (RecordKept), so a pull may replace a local file that is *)
(* as the baseline has it, and what it is about to replace is safe         *)
(* (Replaceable). BaselineProven: a pull records what it has copied or     *)
(* will hash (Copied), and when a push records the mirror anew, what it    *)
(* finds beside a local file is proven (TwinProven), because the plan      *)
(* refused or waived everything else. CleanPushProven: with deletions the  *)
(* plan judges every file of the mirror (CleanProven). NoSelfConflict: a   *)
(* mirror file nobody else touched is as the baseline has it, or is one    *)
(* the push has sent and will record, whatever ends it (Ours).             *)
(* StampHonest: a listed file that the pass has left behind is done unless *)
(* the exit tells otherwise (Sent).                                        *)
(***************************************************************************)
EXTENDS MirrorSync, TLAPS

\* No command reads an evicted file.
Rehydrated == "evictedPull" \notin Faults

\* Nobody saves a file under a pull that is about to overwrite it.
Unsaved == "pullSave" \notin Faults

\* Nobody writes a mirror file between a pull's copy and the hash of it.
Unwritten == "pullWrite" \notin Faults

\* TypeOK, one variable at a time.
Typed ==
    /\ local \in [Paths -> Recorded] /\ mirror \in [Paths -> Recorded]
    /\ baseline \in [Paths -> Recorded] /\ imports \in [Paths -> Recorded]
    /\ manifest \in [Paths -> Recorded]
    /\ evicted \subseteq Paths /\ doomed \subseteq Paths /\ leftovers \subseteq Paths
    /\ flist \subseteq Paths /\ todo \subseteq Paths /\ written \subseteq Paths
    /\ touched \subseteq Paths /\ busy \subseteq Paths
    /\ copying \subseteq Paths
    /\ kept \subseteq Entries /\ live \subseteq Entries /\ proof \subseteq Entries
    /\ policy \in Policies
    /\ pc \in Pcs
    /\ mode \in {"clean", "force"}
    /\ exit \in {0, 12, 23, 24, 25}
    /\ stamped \in BOOLEAN
    /\ newest \in Nat /\ edits \in 0..MaxEdits
    /\ FirstVersion + 1 <= newest /\ newest <= FirstVersion + 1 + edits

\* Nothing is left of a command that has ended, no command reads what is
\* evicted, and a pass works off its own part of the plan.
Ended ==
    /\ pc = "idle" => busy = {} /\ doomed = {}
    /\ pc \in {"idle", "list", "stage"} \cup PullPcs => written = {}
    /\ Reading /\ Rehydrated => evicted = {}
    /\ flist \cap Odd = {} /\ leftovers \subseteq Odd
    /\ pc \in {"backup", "copy", "hash"} \/ copying = {}
    /\ \A p, q \in copying : p = q
    /\ pc = "send" => todo \subseteq flist
    /\ pc = "move" => todo \subseteq leftovers /\ exit \notin {12, 25}

Base == Typed /\ Ended

-----------------------------------------------------------------------------

LEMMA Versions ==
  /\ MaxEdits \in Nat
  /\ \A v : v \in Contents <=> v \in Nat /\ v <= FirstVersion + 1 + MaxEdits
  /\ \A v : v \in Recorded <=> v \in Contents /\ (v # Empty \/ ~Rehydrated)
BY MirrorSyncAssumption DEF Contents, Recorded, Rehydrated, None, Empty, Torn,
   FirstVersion

LEMMA EntriesOf ==
  ASSUME NEW t \in [Paths -> Recorded]
  PROVE  /\ Held(t) \subseteq Paths
         /\ \A S : S \subseteq Paths => Entry(t, S) \subseteq Entries
<1>1. ASSUME NEW p \in Paths PROVE t[p] \in Contents
  BY Versions
<1> QED
  BY <1>1 DEF Held, Entry, Entries

LEMMA TypedIs == Typed => TypeOK
BY Versions DEF Typed, TypeOK, FirstVersion

LEMMA BaseInit == Init => Base
<1> SUFFICES ASSUME Init PROVE Base
  OBVIOUS
<1>1. {None, FirstVersion, FirstVersion + 1} \subseteq Recorded
  BY Versions DEF None, FirstVersion, Empty
<1>2. /\ local \in [Paths -> Recorded] /\ mirror \in [Paths -> Recorded]
      /\ baseline \in [Paths -> Recorded] /\ NoFiles \in [Paths -> Recorded]
      /\ touched \subseteq Paths
  BY <1>1 DEF Init, NoFiles
<1>3. Held(local) \subseteq Paths /\ Held(mirror) \subseteq Paths
  BY DEF Held
<1>4. Entry(local, Held(local)) \subseteq Entries /\ Entry(mirror, Held(mirror)) \subseteq Entries
  BY <1>2, <1>3, EntriesOf
<1>5. Ended
  BY <1>2 DEF Init, Ended, Reading
<1>6. Typed
  <2>1. newest = FirstVersion + 1 /\ edits = 0 /\ MaxEdits \in Nat
    BY MirrorSyncAssumption DEF Init
  <2>2. live \subseteq Entries /\ proof \subseteq Entries
    BY <1>4 DEF Init
  <2>3. /\ newest \in Nat /\ edits \in 0..MaxEdits
        /\ FirstVersion + 1 <= newest /\ newest <= FirstVersion + 1 + edits
    BY <2>1 DEF FirstVersion
  <2>4. pc \in Pcs
    BY DEF Init, Pcs
  <2>5. /\ imports = NoFiles /\ manifest = NoFiles /\ policy \in Policies
        /\ mode = "clean" /\ exit = 0 /\ stamped = FALSE
        /\ evicted = {} /\ kept = {} /\ doomed = {} /\ leftovers = {} /\ flist = {}
        /\ todo = {} /\ written = {} /\ busy = {} /\ copying = {}
    BY DEF Init
  <2> QED
    BY <1>2, <2>1, <2>2, <2>3, <2>4, <2>5 DEF Typed
<1> QED
  BY <1>5, <1>6 DEF Base

LEMMA BaseStep == Base /\ [Next]_vars => Base'
<1> SUFFICES ASSUME Base, [Next]_vars PROVE Base'
  OBVIOUS
<1>0. /\ Typed /\ Ended
      /\ MaxEdits \in Nat
      /\ \A v : v \in Contents <=> v \in Nat /\ v <= FirstVersion + 1 + MaxEdits
      /\ \A v : v \in Recorded <=> v \in Contents /\ (v # Empty \/ ~Rehydrated)
      /\ \A t \in [Paths -> Recorded] :
            /\ Held(t) \subseteq Paths
            /\ \A S : S \subseteq Paths => Entry(t, S) \subseteq Entries
      /\ Modes \subseteq {"clean", "force"}
  BY Versions, EntriesOf, MirrorSyncAssumption DEF Base
<1> USE DEF Base, Typed, Ended, Pcs, PushPcs, PullPcs, Reading, Entries, Has, Reads, None, Empty,
        Torn, FirstVersion, trees, store, planned, transfer, marks, history
<1>1. ASSUME NEW q \in Paths, User(q) PROVE Base'
  BY <1>1, <1>0 DEF User, Edit, UserWrite, UserDelete, Rewrite, Remove
<1>2. ASSUME NEW q \in Paths, UserAccept(q) PROVE Base'
  BY <1>2, <1>0 DEF UserAccept, Edit
<1>3. ASSUME NEW q \in Paths, Cloud(q) PROVE Base'
  <2>1. Edit(q) /\ UNCHANGED <<local, kept, store, pc, planned, transfer, stamped>>
        /\ touched' = touched \cup {q}
    BY <1>3 DEF Cloud
  <2>2. CASE CloudWrite(q)
    BY <2>1, <2>2, <1>0 DEF CloudWrite, Edit, Rewrite
  <2>3. CASE CloudDelete(q)
    BY <2>1, <2>3, <1>0 DEF CloudDelete, Edit, Remove
  <2>4. CASE Evict(q)
    BY <2>1, <2>4, <1>0 DEF Evict, Edit, Rehydrated
  <2> QED
    BY <1>3, <2>2, <2>3, <2>4 DEF Cloud
<1>4. ASSUME NEW q \in Paths, Download(q) PROVE Base'
  BY <1>4, <1>0 DEF Download
<1>5. ASSUME PushNothing PROVE Base'
  BY <1>5, <1>0 DEF PushNothing
<1>6. ASSUME PushRefused PROVE Base'
  BY <1>6, <1>0 DEF PushRefused
<1>7. ASSUME NEW md \in Modes, Plan(md) PROVE Base'
  <2>1. doomed' \subseteq Paths /\ leftovers' \subseteq Paths \cap Odd
    BY <1>7, MirrorSyncAssumption DEF Plan, Deletes, MirrorOnly, Leftovers, Plain
  <2>2. proof' \subseteq Entries
    <3>1. Waived(md) \cap Held(local) \subseteq Paths
      BY <1>0
    <3> QED
      BY <1>7, <1>0, <3>1 DEF Plan
  <2> QED
    BY <1>7, <1>0, <2>1, <2>2 DEF Plan
<1>8. ASSUME List PROVE Base'
  <2>1. flist' \subseteq Paths /\ todo' \subseteq Paths /\ flist' \cap Odd = {} /\ todo' = flist'
    BY <1>8, <1>0 DEF List
  <2> QED
    BY <1>8, <1>0, <2>1 DEF List
<1>9. ASSUME NEW q \in Paths, Send(q) PROVE Base'
  BY <1>9, <1>0 DEF Send, Skip, Vanished, NotReceived, Transfer, Receive
<1>10. ASSUME SendEnds PROVE Base'
  <2>1. pc' \in {"delete", "refresh"} /\ exit' \in {exit, 12} /\ todo' = {} /\ pc = "send"
    BY <1>10 DEF SendEnds
  <2> QED
    BY <1>10, <1>0, <2>1 DEF SendEnds
<1>11. ASSUME DeletePass PROVE Base'
  <2>1. PICK D \in SUBSET Extra :
            /\ mirror' = [p \in Paths |-> IF p \in D THEN None ELSE mirror[p]]
            /\ evicted' = evicted \ D
            /\ kept' = kept \cup Entry(mirror, D)
            /\ exit' \in {25, exit}
    BY <1>11 DEF DeletePass
  <2>2. D \subseteq Paths
    BY DEF Extra, Plain
  <2>3. kept' \subseteq Entries
    BY <2>1, <2>2, <1>0
  <2>4. mirror' \in [Paths -> Recorded]
    BY <2>1, <1>0
  <2> QED
    BY <1>11, <1>0, <2>1, <2>3, <2>4 DEF DeletePass
<1>12. ASSUME Refresh PROVE Base'
  <2>1. baseline' \in [Paths -> Recorded]
    BY <1>12, <1>0 DEF Refresh, RefreshIf, Refreshed, OddEntry, PlainEntry, Carried
  <2>2. proof' \subseteq Entries
    BY <1>12, <1>0 DEF Refresh, RefreshIf
  <2> QED
    BY <1>12, <1>0, <2>1, <2>2 DEF Refresh, RefreshIf
<1>13. ASSUME PushFails PROVE Base'
  BY <1>13, <1>0 DEF PushFails, Forget, NoFiles
<1>14. ASSUME CheckPasses PROVE Base'
  <2>1. todo' \subseteq Paths /\ todo' \subseteq leftovers
    BY <1>14, <1>0 DEF CheckPasses, Movable
  <2> QED
    BY <1>14, <1>0, <2>1 DEF CheckPasses
<1>15. ASSUME NEW q \in Paths, Move(q) PROVE Base'
  BY <1>15, <1>0 DEF Move
<1>16. ASSUME PushDone PROVE Base'
  BY <1>16, <1>0 DEF PushDone, PushEnds, Forget, NoFiles
<1>17. ASSUME MoveFails PROVE Base'
  BY <1>17, <1>0 DEF MoveFails, Forget, NoFiles
<1>18. ASSUME NEW md \in Modes, PullPlan(md) PROVE Base'
  <2>1. todo' \subseteq Paths
    BY <1>18, <1>0 DEF PullPlan
  <2> QED
    BY <1>18, <1>0, <2>1 DEF PullPlan, Readable, Rehydrated
<1>19. ASSUME NEW q \in Paths, PullCompare(q) PROVE Base'
  BY <1>19, <1>0 DEF PullCompare, PullKeep, PullChange, Overwritten, Restores, Tracked,
     Pulls, MirrorChanged, PullConflicts, BothChanged, Adopts, Rehydrated
<1>28. ASSUME NEW q \in Paths, PullBackup(q) PROVE Base'
  BY <1>28, <1>0 DEF PullBackup
<1>29. ASSUME NEW q \in Paths, PullCopy(q) PROVE Base'
  BY <1>29, <1>0 DEF PullCopy, Rehydrated
<1>30. ASSUME NEW q \in Paths, PullHash(q) PROVE Base'
  BY <1>30, <1>0 DEF PullHash, Rehydrated
<1>20. ASSUME NEW q \in Paths, PullTorn(q) PROVE Base'
  BY <1>20, <1>0 DEF PullTorn, Forget, NoFiles
<1>21. ASSUME PullSave PROVE Base'
  BY <1>21, <1>0 DEF PullSave, Forget, NoFiles
<1>22. ASSUME IntakePlan PROVE Base'
  <2>1. todo' \subseteq Paths
    BY <1>22 DEF IntakePlan, Staged
  <2>2. \A p \in Paths : Reads(mirror, evicted, p) \in Recorded
    BY <1>22, <1>0 DEF IntakePlan, Readable, Rehydrated
  <2>3. manifest' \in [Paths -> Recorded]
    BY <1>22, <1>0, <2>2 DEF IntakePlan
  <2> QED
    BY <1>22, <1>0, <2>1, <2>3 DEF IntakePlan, Readable, Rehydrated
<1>23. ASSUME IntakeSave PROVE Base'
  BY <1>23, <1>0 DEF IntakeSave, Forget, NoFiles
<1>24. ASSUME IntakeFails PROVE Base'
  BY <1>24, <1>0 DEF IntakeFails, Forget, NoFiles
<1>25. ASSUME NEW q \in Paths, Fetch(q) PROVE Base'
  <2>1. Reads(mirror, evicted, q) \in Recorded
    BY <1>25, <1>0 DEF Fetch, Readable, Rehydrated
  <2>2. <<q, Reads(mirror, evicted, q)>> \in Entries /\ <<q, local[q]>> \in Entries
    BY <1>0, <2>1
  <2> DEFINE v == Reads(mirror, evicted, q)
  <2>3. local' = [local EXCEPT ![q] = v] /\ proof' = proof \cup {<<q, local'[q]>>}
    BY <1>25 DEF Fetch
  <2>4. local' \in [Paths -> Recorded] /\ proof' \subseteq Entries
    BY <1>0, <2>1, <2>2, <2>3
  <2> QED
    BY <1>25, <1>0, <2>2, <2>4 DEF Fetch
<1>26. ASSUME Kill PROVE Base'
  BY <1>26, <1>0 DEF Kill, Forget, NoFiles
<1>27. CASE UNCHANGED vars
  BY <1>27, <1>0 DEF vars
<1> QED
  BY <1>1, <1>2, <1>3, <1>4, <1>5, <1>6, <1>7, <1>8, <1>9, <1>10, <1>11, <1>12, <1>13,
     <1>14, <1>15, <1>16, <1>17, <1>18, <1>19, <1>20, <1>21, <1>22, <1>23, <1>24, <1>25,
     <1>26, <1>27, <1>28, <1>29, <1>30
     DEF Next, Outside, Push, Pull, Others

-----------------------------------------------------------------------------
(* What no command destroys *)

\* No content is newer than the last one written, and writers write real ones.
Fresh(p) ==
    /\ local[p] <= newest /\ mirror[p] <= newest /\ baseline[p] <= newest
    /\ imports[p] <= newest /\ manifest[p] <= newest
    /\ \A v \in Contents : <<p, v>> \in live => FirstVersion <= v

Kept(p) ==
    \A v \in Contents :
        <<p, v>> \in live => v \in {local[p], mirror[p]} \/ <<p, v>> \in kept

\* A pull replaces a file that is as the baseline has it.
Elsewhere(p, v) == <<p, v>> \in live => v = mirror[p] \/ <<p, v>> \in kept

\* Where manifest is the next baseline.
Recording == pc \in {"move"} \cup PullPcs

\* What a pull is about to overwrite is on the mirror or kept.
Replaceable(p) == pc = "copy" /\ p \in copying => Elsewhere(p, local[p])

RecordKept(p) == Elsewhere(p, baseline[p]) /\ (Recording => Elsewhere(p, manifest[p]))

Content(p) == Fresh(p) /\ Kept(p) /\ RecordKept(p) /\ Replaceable(p)

ContentInv == Base /\ \A p \in Paths : Content(p)

LEMMA ContentInit == Init => ContentInv
<1> SUFFICES ASSUME Init PROVE ContentInv
  OBVIOUS
<1>1. Base
  BY BaseInit
<1>2. ASSUME NEW p \in Paths PROVE Content(p)
  BY <1>2 DEF Init, Content, Fresh, Kept, RecordKept, Replaceable, Elsewhere, Recording,
     PullPcs, Entry, Held, Has, NoFiles, None, FirstVersion
<1> QED
  BY <1>1, <1>2 DEF ContentInv

LEMMA ContentStep ==
  ASSUME Unsaved, Base, Base', [Next]_vars, NEW p \in Paths, Content(p)
  PROVE  Content(p)'
<1>0. /\ Typed /\ Typed' /\ Ended /\ Content(p)
      /\ \A v : v \in Contents => v \in Nat
      /\ \A v : v \in Recorded => v \in Contents
  BY Versions DEF Base
<1> USE DEF Typed, Ended, Content, Fresh, Kept, RecordKept, Replaceable, Elsewhere, Recording,
        Unsaved, Pcs, PushPcs, PullPcs, Reading, Has, Reads, None, Empty, Torn, FirstVersion,
        trees, store,
        planned, transfer, marks, history
<1>1. ASSUME NEW q \in Paths, User(q) PROVE Content(p)'
  BY <1>1, <1>0 DEF User, Edit, UserWrite, UserDelete, Rewrite, Remove
<1>2. ASSUME NEW q \in Paths, UserAccept(q) PROVE Content(p)'
  BY <1>2, <1>0 DEF UserAccept, Edit
<1>3. ASSUME NEW q \in Paths, Cloud(q) PROVE Content(p)'
  BY <1>3, <1>0 DEF Cloud, Edit, CloudWrite, CloudDelete, Evict, Rewrite, Remove
<1>4. ASSUME NEW q \in Paths, Download(q) PROVE Content(p)'
  BY <1>4, <1>0 DEF Download
<1>5. ASSUME PushNothing PROVE Content(p)'
  BY <1>5, <1>0 DEF PushNothing
<1>6. ASSUME PushRefused PROVE Content(p)'
  BY <1>6, <1>0 DEF PushRefused
<1>7. ASSUME NEW md \in Modes, Plan(md) PROVE Content(p)'
  BY <1>7, <1>0 DEF Plan
<1>8. ASSUME List PROVE Content(p)'
  BY <1>8, <1>0 DEF List
<1>9. ASSUME NEW q \in Paths, Send(q) PROVE Content(p)'
  BY <1>9, <1>0 DEF Send, Skip, Vanished, NotReceived, Transfer, Receive, Entry, Held
<1>10. ASSUME SendEnds PROVE Content(p)'
  BY <1>10, <1>0 DEF SendEnds
<1>11. ASSUME DeletePass PROVE Content(p)'
  BY <1>11, <1>0 DEF DeletePass, Extra, Entry, Plain
<1>12. ASSUME Refresh PROVE Content(p)'
  BY <1>12, <1>0 DEF Refresh, RefreshIf, Refreshed, OddEntry, PlainEntry, Carried
<1>13. ASSUME PushFails PROVE Content(p)'
  BY <1>13, <1>0 DEF PushFails, Forget, NoFiles
<1>14. ASSUME CheckPasses PROVE Content(p)'
  BY <1>14, <1>0 DEF CheckPasses, Movable
<1>15. ASSUME NEW q \in Paths, Move(q) PROVE Content(p)'
  BY <1>15, <1>0 DEF Move
<1>16. ASSUME PushDone PROVE Content(p)'
  BY <1>16, <1>0 DEF PushDone, PushEnds, Forget, NoFiles
<1>17. ASSUME MoveFails PROVE Content(p)'
  BY <1>17, <1>0 DEF MoveFails, Forget, NoFiles
<1>18. ASSUME NEW md \in Modes, PullPlan(md) PROVE Content(p)'
  BY <1>18, <1>0 DEF PullPlan, Readable
<1>19. ASSUME NEW q \in Paths, PullCompare(q) PROVE Content(p)'
  BY <1>19, <1>0 DEF PullCompare, PullKeep, PullChange, Overwritten, Restores, Tracked,
     Pulls, MirrorChanged, PullConflicts, BothChanged, Adopts
<1>28. ASSUME NEW q \in Paths, PullBackup(q) PROVE Content(p)'
  BY <1>28, <1>0 DEF PullBackup
<1>29. ASSUME NEW q \in Paths, PullCopy(q) PROVE Content(p)'
  BY <1>29, <1>0 DEF PullCopy
<1>30. ASSUME NEW q \in Paths, PullHash(q) PROVE Content(p)'
  BY <1>30, <1>0 DEF PullHash
<1>20. ASSUME NEW q \in Paths, PullTorn(q) PROVE Content(p)'
  BY <1>20, <1>0 DEF PullTorn, Forget, NoFiles
<1>21. ASSUME PullSave PROVE Content(p)'
  BY <1>21, <1>0 DEF PullSave, Forget, NoFiles
<1>22. ASSUME IntakePlan PROVE Content(p)'
  BY <1>22, <1>0 DEF IntakePlan, Staged
<1>23. ASSUME IntakeSave PROVE Content(p)'
  BY <1>23, <1>0 DEF IntakeSave, Forget, NoFiles
<1>24. ASSUME IntakeFails PROVE Content(p)'
  BY <1>24, <1>0 DEF IntakeFails, Forget, NoFiles
<1>25. ASSUME NEW q \in Paths, Fetch(q) PROVE Content(p)'
  BY <1>25, <1>0 DEF Fetch, Readable
<1>26. ASSUME Kill PROVE Content(p)'
  BY <1>26, <1>0 DEF Kill, Forget, NoFiles
<1>27. CASE UNCHANGED vars
  BY <1>27, <1>0 DEF vars
<1> QED
  BY <1>1, <1>2, <1>3, <1>4, <1>5, <1>6, <1>7, <1>8, <1>9, <1>10, <1>11, <1>12, <1>13,
     <1>14, <1>15, <1>16, <1>17, <1>18, <1>19, <1>20, <1>21, <1>22, <1>23, <1>24, <1>25,
     <1>26, <1>27, <1>28, <1>29, <1>30
     DEF Next, Outside, Push, Pull, Others

-----------------------------------------------------------------------------
(* What the baseline proves *)

\* Policies that propagate updates, and those that propagate deletions too.
Updating == \A pol \in Policies : pol.update
Full == \A pol \in Policies : pol.update /\ pol.delete

LocalProven(p) == Has(local, p) => <<p, local[p]>> \in proof

RecordProven(p) ==
    /\ Has(baseline, p) => <<p, baseline[p]>> \in proof
    /\ Recording /\ Has(manifest, p) /\ p \notin copying => <<p, manifest[p]>> \in proof

\* What a pull has compared, it will copy or has recorded already; what it
\* hashes, it has copied.
Copied(p) ==
    p \in copying /\ Has(mirror, p) =>
        /\ pc \in {"backup", "copy"} => manifest[p] \in {baseline[p], mirror[p]}
        /\ pc = "hash" => <<p, mirror[p]>> \in proof

Transferring == {"list", "send", "delete", "refresh"}

\* What the refresh will record.
TwinProven(p) ==
    /\ pc \in Transferring
    /\ p \in Plain \ busy
    /\ Has(mirror, p)
    /\ Has(local, p) \/ p \in written
    => <<p, mirror[p]>> \in proof

\* What a push moves out of the mirror under a name that it does not send.
LeftoverProven(p) ==
    /\ pc \in {"check", "move"} /\ p \in Odd /\ Has(baseline, p) /\ Has(mirror, p) =>
           <<p, mirror[p]>> \in proof
    /\ pc = "move" /\ p \in todo => Has(baseline, p)

Proved(p) ==
    LocalProven(p) /\ RecordProven(p) /\ Copied(p) /\ TwinProven(p) /\ LeftoverProven(p)

ProofInv == Base /\ \A p \in Paths : Proved(p)

\* What a clean push may overwrite or delete.
CleanProven(p) ==
    pc \in {"list", "send", "delete"} /\ mode = "clean" /\ p \in Plain /\ Has(mirror, p) =>
        <<p, mirror[p]>> \in proof

CleanInv == ProofInv /\ \A p \in Paths : CleanProven(p)

LEMMA ProofInit == Init => ProofInv /\ CleanInv
<1> SUFFICES ASSUME Init PROVE ProofInv /\ CleanInv
  OBVIOUS
<1>1. Base
  BY BaseInit
<1>2. ASSUME NEW p \in Paths
      PROVE  /\ Proved(p)
             /\ CleanProven(p)
  BY <1>2 DEF Init, Proved, LocalProven, RecordProven, Copied, TwinProven, LeftoverProven,
     CleanProven, Transferring, Recording, PullPcs, Entry, Held, Has, NoFiles, None, FirstVersion
<1> QED
  BY <1>1, <1>2 DEF ProofInv, CleanInv

LEMMA ProofStep ==
  ASSUME Updating, Rehydrated, Unwritten, Base, Base', [Next]_vars, NEW p \in Paths,
         Proved(p)
  PROVE  Proved(p)'
<1>0. /\ Typed /\ Typed' /\ Ended
      /\ Proved(p)
      /\ policy.update
  BY DEF Base, Typed, Updating
<1> USE DEF Typed, Ended, Proved, LocalProven, RecordProven, Copied, TwinProven,
        LeftoverProven, Transferring, Recording, Rehydrated, Unwritten, Apart, Pcs,
        PushPcs, PullPcs, Reading, Has, Reads, None, Empty, Torn,
        FirstVersion, trees, store, planned, transfer, marks, history
<1>1. ASSUME NEW q \in Paths, User(q) PROVE Proved(p)'
  BY <1>1, <1>0 DEF User, Edit, UserWrite, UserDelete, Rewrite, Remove
<1>2. ASSUME NEW q \in Paths, UserAccept(q) PROVE Proved(p)'
  BY <1>2, <1>0 DEF UserAccept, Edit, Entry
<1>3. ASSUME NEW q \in Paths, Cloud(q) PROVE Proved(p)'
  BY <1>3, <1>0 DEF Cloud, Edit, CloudWrite, CloudDelete, Evict, Rewrite, Remove
<1>4. ASSUME NEW q \in Paths, Download(q) PROVE Proved(p)'
  BY <1>4, <1>0 DEF Download
<1>5. ASSUME PushNothing PROVE Proved(p)'
  BY <1>5, <1>0 DEF PushNothing
<1>6. ASSUME PushRefused PROVE Proved(p)'
  BY <1>6, <1>0 DEF PushRefused
<1>7. ASSUME NEW md \in Modes, Plan(md) PROVE Proved(p)'
  BY <1>7, <1>0 DEF Plan, Waived, PlanConflicts, PushConflicts, Deletes, MirrorOnly,
     Differing, Updates, Proven, EmptyTwin, Plain, Entry, Held
<1>8. ASSUME List PROVE Proved(p)'
  BY <1>8, <1>0 DEF List, Held, Plain
<1>9. ASSUME NEW q \in Paths, Send(q) PROVE Proved(p)'
  BY <1>9, <1>0 DEF Send, Skip, Vanished, NotReceived, Transfer, Receive, Wanted, Entry,
     Held, Plain
<1>10. ASSUME SendEnds PROVE Proved(p)'
  BY <1>10, <1>0 DEF SendEnds
<1>11. ASSUME DeletePass PROVE Proved(p)'
  BY <1>11, <1>0 DEF DeletePass, Extra, Entry, Plain
<1>12. ASSUME Refresh PROVE Proved(p)'
  BY <1>12, <1>0 DEF Refresh, RefreshIf, Refreshed, OddEntry, PlainEntry, Carried, Plain,
     Entry
<1>13. ASSUME PushFails PROVE Proved(p)'
  BY <1>13, <1>0 DEF PushFails, Forget, NoFiles
<1>14. ASSUME CheckPasses PROVE Proved(p)'
  BY <1>14, <1>0 DEF CheckPasses, Movable
<1>15. ASSUME NEW q \in Paths, Move(q) PROVE Proved(p)'
  BY <1>15, <1>0 DEF Move
<1>16. ASSUME PushDone PROVE Proved(p)'
  BY <1>16, <1>0 DEF PushDone, PushEnds, Forget, NoFiles
<1>17. ASSUME MoveFails PROVE Proved(p)'
  BY <1>17, <1>0 DEF MoveFails, Forget, NoFiles
<1>18. ASSUME NEW md \in Modes, PullPlan(md) PROVE Proved(p)'
  BY <1>18, <1>0 DEF PullPlan, Readable
<1>19. ASSUME NEW q \in Paths, PullCompare(q) PROVE Proved(p)'
  BY <1>19, <1>0 DEF PullCompare, PullKeep, PullChange, Overwritten, Restores, Tracked,
     Pulls, MirrorChanged, PullConflicts, BothChanged, Adopts
<1>28. ASSUME NEW q \in Paths, PullBackup(q) PROVE Proved(p)'
  BY <1>28, <1>0 DEF PullBackup
<1>29. ASSUME NEW q \in Paths, PullCopy(q) PROVE Proved(p)'
  BY <1>29, <1>0 DEF PullCopy
<1>30. ASSUME NEW q \in Paths, PullHash(q) PROVE Proved(p)'
  BY <1>30, <1>0 DEF PullHash
<1>20. ASSUME NEW q \in Paths, PullTorn(q) PROVE Proved(p)'
  BY <1>20, <1>0 DEF PullTorn, Forget, NoFiles
<1>21. ASSUME PullSave PROVE Proved(p)'
  BY <1>21, <1>0 DEF PullSave, Forget, NoFiles
<1>22. ASSUME IntakePlan PROVE Proved(p)'
  BY <1>22, <1>0 DEF IntakePlan, Staged
<1>23. ASSUME IntakeSave PROVE Proved(p)'
  BY <1>23, <1>0 DEF IntakeSave, Forget, NoFiles
<1>24. ASSUME IntakeFails PROVE Proved(p)'
  BY <1>24, <1>0 DEF IntakeFails, Forget, NoFiles
<1>25. ASSUME NEW q \in Paths, Fetch(q) PROVE Proved(p)'
  BY <1>25, <1>0 DEF Fetch, Readable
<1>26. ASSUME Kill PROVE Proved(p)'
  BY <1>26, <1>0 DEF Kill, Forget, NoFiles
<1>27. CASE UNCHANGED vars
  BY <1>27, <1>0 DEF vars
<1> QED
  BY <1>1, <1>2, <1>3, <1>4, <1>5, <1>6, <1>7, <1>8, <1>9, <1>10, <1>11, <1>12, <1>13,
     <1>14, <1>15, <1>16, <1>17, <1>18, <1>19, <1>20, <1>21, <1>22, <1>23, <1>24, <1>25,
     <1>26, <1>27, <1>28, <1>29, <1>30
     DEF Next, Outside, Push, Pull, Others

LEMMA CleanStep ==
  ASSUME Full, Rehydrated, Base, Base', [Next]_vars, NEW p \in Paths,
         Proved(p), CleanProven(p)
  PROVE  CleanProven(p)'
<1>0. /\ Typed /\ Typed' /\ Ended
      /\ Proved(p) /\ CleanProven(p)
      /\ policy.update /\ policy.delete
      /\ baseline[p] # Empty
  BY Versions DEF Base, Typed, Full
<1> USE DEF Typed, Ended, Proved, LocalProven, RecordProven, CleanProven, Recording, Pcs,
        PushPcs, PullPcs, Reading, Has, Reads, None, Empty, Torn, FirstVersion, trees, store,
        planned, transfer, marks, history
<1>1. ASSUME NEW q \in Paths, User(q) PROVE CleanProven(p)'
  BY <1>1, <1>0 DEF User, Edit, UserWrite, UserDelete, Rewrite, Remove
<1>2. ASSUME NEW q \in Paths, UserAccept(q) PROVE CleanProven(p)'
  BY <1>2, <1>0 DEF UserAccept, Edit, Entry
<1>3. ASSUME NEW q \in Paths, Cloud(q) PROVE CleanProven(p)'
  BY <1>3, <1>0 DEF Cloud, Edit, CloudWrite, CloudDelete, Evict, Rewrite, Remove
<1>4. ASSUME NEW q \in Paths, Download(q) PROVE CleanProven(p)'
  BY <1>4, <1>0 DEF Download
<1>5. ASSUME PushNothing PROVE CleanProven(p)'
  BY <1>5, <1>0 DEF PushNothing
<1>6. ASSUME PushRefused PROVE CleanProven(p)'
  BY <1>6, <1>0 DEF PushRefused
<1>7. ASSUME NEW md \in Modes, Plan(md) PROVE CleanProven(p)'
  BY <1>7, <1>0 DEF Plan, Waived, PlanConflicts, PushConflicts, Deletes, MirrorOnly,
     Differing, Updates, Proven, EmptyTwin, Plain, Entry, Held
<1>8. ASSUME List PROVE CleanProven(p)'
  BY <1>8, <1>0 DEF List, Held, Plain
<1>9. ASSUME NEW q \in Paths, Send(q) PROVE CleanProven(p)'
  BY <1>9, <1>0 DEF Send, Skip, Vanished, NotReceived, Transfer, Receive, Wanted, Entry,
     Held, Plain
<1>10. ASSUME SendEnds PROVE CleanProven(p)'
  BY <1>10, <1>0 DEF SendEnds
<1>11. ASSUME DeletePass PROVE CleanProven(p)'
  BY <1>11, <1>0 DEF DeletePass, Extra, Entry, Plain
<1>12. ASSUME Refresh PROVE CleanProven(p)'
  BY <1>12, <1>0 DEF Refresh, RefreshIf, Refreshed, OddEntry, PlainEntry, Carried, Plain,
     Entry
<1>13. ASSUME PushFails PROVE CleanProven(p)'
  BY <1>13, <1>0 DEF PushFails, Forget, NoFiles
<1>14. ASSUME CheckPasses PROVE CleanProven(p)'
  BY <1>14, <1>0 DEF CheckPasses, Movable
<1>15. ASSUME NEW q \in Paths, Move(q) PROVE CleanProven(p)'
  BY <1>15, <1>0 DEF Move
<1>16. ASSUME PushDone PROVE CleanProven(p)'
  BY <1>16, <1>0 DEF PushDone, PushEnds, Forget, NoFiles
<1>17. ASSUME MoveFails PROVE CleanProven(p)'
  BY <1>17, <1>0 DEF MoveFails, Forget, NoFiles
<1>18. ASSUME NEW md \in Modes, PullPlan(md) PROVE CleanProven(p)'
  BY <1>18, <1>0 DEF PullPlan, Readable
<1>19. ASSUME NEW q \in Paths, PullCompare(q) PROVE CleanProven(p)'
  BY <1>19, <1>0 DEF PullCompare, PullKeep, PullChange, Overwritten, Restores, Tracked,
     Pulls, MirrorChanged, PullConflicts, BothChanged, Adopts
<1>28. ASSUME NEW q \in Paths, PullBackup(q) PROVE CleanProven(p)'
  BY <1>28, <1>0 DEF PullBackup
<1>29. ASSUME NEW q \in Paths, PullCopy(q) PROVE CleanProven(p)'
  BY <1>29, <1>0 DEF PullCopy
<1>30. ASSUME NEW q \in Paths, PullHash(q) PROVE CleanProven(p)'
  BY <1>30, <1>0 DEF PullHash
<1>20. ASSUME NEW q \in Paths, PullTorn(q) PROVE CleanProven(p)'
  BY <1>20, <1>0 DEF PullTorn, Forget, NoFiles
<1>21. ASSUME PullSave PROVE CleanProven(p)'
  BY <1>21, <1>0 DEF PullSave, Forget, NoFiles
<1>22. ASSUME IntakePlan PROVE CleanProven(p)'
  BY <1>22, <1>0 DEF IntakePlan, Staged
<1>23. ASSUME IntakeSave PROVE CleanProven(p)'
  BY <1>23, <1>0 DEF IntakeSave, Forget, NoFiles
<1>24. ASSUME IntakeFails PROVE CleanProven(p)'
  BY <1>24, <1>0 DEF IntakeFails, Forget, NoFiles
<1>25. ASSUME NEW q \in Paths, Fetch(q) PROVE CleanProven(p)'
  BY <1>25, <1>0 DEF Fetch, Readable
<1>26. ASSUME Kill PROVE CleanProven(p)'
  BY <1>26, <1>0 DEF Kill, Forget, NoFiles
<1>27. CASE UNCHANGED vars
  BY <1>27, <1>0 DEF vars
<1> QED
  BY <1>1, <1>2, <1>3, <1>4, <1>5, <1>6, <1>7, <1>8, <1>9, <1>10, <1>11, <1>12, <1>13,
     <1>14, <1>15, <1>16, <1>17, <1>18, <1>19, <1>20, <1>21, <1>22, <1>23, <1>24, <1>25,
     <1>26, <1>27, <1>28, <1>29, <1>30
     DEF Next, Outside, Push, Pull, Others

LEMMA CleanPushStep ==
  ASSUME Base, [Next]_vars, NEW p \in Paths, CleanProven(p), Proved(p),
         mode = "clean", Has(mirror, p), mirror'[p] # mirror[p], <<pc, todo>> # <<pc, todo>>'
  PROVE  <<p, mirror[p]>> \in proof
<1>0. /\ Typed /\ Ended /\ CleanProven(p) /\ Proved(p) /\ mode = "clean" /\ Has(mirror, p)
      /\ mirror'[p] # mirror[p] /\ <<pc, todo>> # <<pc, todo>>'
  BY DEF Base
<1> USE DEF Typed, Ended, CleanProven, Proved, LeftoverProven, Has, trees, store, planned,
        transfer, marks, history
<1>1. ASSUME NEW q \in Paths, User(q) PROVE <<p, mirror[p]>> \in proof
  BY <1>1, <1>0 DEF User, Edit, UserWrite, UserDelete, Rewrite, Remove
<1>2. ASSUME NEW q \in Paths, UserAccept(q) PROVE <<p, mirror[p]>> \in proof
  BY <1>2, <1>0 DEF UserAccept, Edit
<1>3. ASSUME NEW q \in Paths, Cloud(q) PROVE <<p, mirror[p]>> \in proof
  BY <1>3, <1>0 DEF Cloud, Edit, CloudWrite, CloudDelete, Evict, Rewrite, Remove
<1>4. ASSUME NEW q \in Paths, Download(q) PROVE <<p, mirror[p]>> \in proof
  BY <1>4, <1>0 DEF Download
<1>5. ASSUME PushNothing PROVE <<p, mirror[p]>> \in proof
  BY <1>5, <1>0 DEF PushNothing
<1>6. ASSUME PushRefused PROVE <<p, mirror[p]>> \in proof
  BY <1>6, <1>0 DEF PushRefused
<1>7. ASSUME NEW md \in Modes, Plan(md) PROVE <<p, mirror[p]>> \in proof
  BY <1>7, <1>0 DEF Plan
<1>8. ASSUME List PROVE <<p, mirror[p]>> \in proof
  BY <1>8, <1>0 DEF List
<1>9. ASSUME NEW q \in Paths, Send(q) PROVE <<p, mirror[p]>> \in proof
  BY <1>9, <1>0 DEF Send, Skip, Vanished, NotReceived, Transfer, Receive, Plain
<1>10. ASSUME SendEnds PROVE <<p, mirror[p]>> \in proof
  BY <1>10, <1>0 DEF SendEnds
<1>11. ASSUME DeletePass PROVE <<p, mirror[p]>> \in proof
  BY <1>11, <1>0 DEF DeletePass, Extra, Plain
<1>12. ASSUME Refresh PROVE <<p, mirror[p]>> \in proof
  BY <1>12, <1>0 DEF Refresh, RefreshIf
<1>13. ASSUME PushFails PROVE <<p, mirror[p]>> \in proof
  BY <1>13, <1>0 DEF PushFails, Forget
<1>14. ASSUME CheckPasses PROVE <<p, mirror[p]>> \in proof
  BY <1>14, <1>0 DEF CheckPasses, Movable
<1>15. ASSUME NEW q \in Paths, Move(q) PROVE <<p, mirror[p]>> \in proof
  BY <1>15, <1>0 DEF Move
<1>16. ASSUME PushDone PROVE <<p, mirror[p]>> \in proof
  BY <1>16, <1>0 DEF PushDone, PushEnds, Forget
<1>17. ASSUME MoveFails PROVE <<p, mirror[p]>> \in proof
  BY <1>17, <1>0 DEF MoveFails, Forget
<1>18. ASSUME NEW md \in Modes, PullPlan(md) PROVE <<p, mirror[p]>> \in proof
  BY <1>18, <1>0 DEF PullPlan
<1>19. ASSUME NEW q \in Paths, PullCompare(q) PROVE <<p, mirror[p]>> \in proof
  BY <1>19, <1>0 DEF PullCompare, PullKeep, PullChange, Overwritten, Restores, Tracked,
     Pulls, MirrorChanged, PullConflicts, BothChanged, Adopts
<1>28. ASSUME NEW q \in Paths, PullBackup(q) PROVE <<p, mirror[p]>> \in proof
  BY <1>28, <1>0 DEF PullBackup
<1>29. ASSUME NEW q \in Paths, PullCopy(q) PROVE <<p, mirror[p]>> \in proof
  BY <1>29, <1>0 DEF PullCopy
<1>30. ASSUME NEW q \in Paths, PullHash(q) PROVE <<p, mirror[p]>> \in proof
  BY <1>30, <1>0 DEF PullHash
<1>20. ASSUME NEW q \in Paths, PullTorn(q) PROVE <<p, mirror[p]>> \in proof
  BY <1>20, <1>0 DEF PullTorn, Forget
<1>21. ASSUME PullSave PROVE <<p, mirror[p]>> \in proof
  BY <1>21, <1>0 DEF PullSave, Forget
<1>22. ASSUME IntakePlan PROVE <<p, mirror[p]>> \in proof
  BY <1>22, <1>0 DEF IntakePlan
<1>23. ASSUME IntakeSave PROVE <<p, mirror[p]>> \in proof
  BY <1>23, <1>0 DEF IntakeSave, Forget
<1>24. ASSUME IntakeFails PROVE <<p, mirror[p]>> \in proof
  BY <1>24, <1>0 DEF IntakeFails, Forget
<1>25. ASSUME NEW q \in Paths, Fetch(q) PROVE <<p, mirror[p]>> \in proof
  BY <1>25, <1>0 DEF Fetch
<1>26. ASSUME Kill PROVE <<p, mirror[p]>> \in proof
  BY <1>26, <1>0 DEF Kill, Forget
<1>27. CASE UNCHANGED vars
  BY <1>27, <1>0 DEF vars
<1> QED
  BY <1>1, <1>2, <1>3, <1>4, <1>5, <1>6, <1>7, <1>8, <1>9, <1>10, <1>11, <1>12, <1>13,
     <1>14, <1>15, <1>16, <1>17, <1>18, <1>19, <1>20, <1>21, <1>22, <1>23, <1>24, <1>25,
     <1>26, <1>27, <1>28, <1>29, <1>30
     DEF Next, Outside, Push, Pull, Others

-----------------------------------------------------------------------------
(* Whose the mirror's files are *)

Sending == {"send", "delete", "refresh"}

\* A file of the mirror that nobody else touched is as the baseline has it, or
\* one that this push sent and has still to record.
Ours(p) ==
    policy.delete /\ p \in Plain \ touched =>
        /\ p \notin evicted
        /\ Has(mirror, p) => mirror[p] = baseline[p] \/ (pc \in Sending /\ p \in written)
        /\ Recording /\ Has(mirror, p) => manifest[p] = mirror[p]

Staging(p) == pc = "stage" /\ policy.delete /\ p \in todo => p \in touched \cup Odd

OursInv == Base /\ \A p \in Paths : Ours(p) /\ Staging(p)

LEMMA OursInit == Init => OursInv
<1> SUFFICES ASSUME Init PROVE OursInv
  OBVIOUS
<1>1. Base
  BY BaseInit
<1>2. ASSUME NEW p \in Paths PROVE Ours(p) /\ Staging(p)
  BY <1>2 DEF Init, Ours, Staging, Recording, PullPcs, Sending, Has, NoFiles, None, FirstVersion
<1> QED
  BY <1>1, <1>2 DEF OursInv

LEMMA OursStep ==
  ASSUME Base, Base', [Next]_vars, NEW p \in Paths, Ours(p), Staging(p)
  PROVE  Ours(p)' /\ Staging(p)'
<1>0. Typed /\ Typed' /\ Ended /\ Ours(p) /\ Staging(p)
  BY DEF Base
<1> USE DEF Typed, Ended, Ours, Staging, Sending, Recording, Pcs, PushPcs, PullPcs, Reading,
        Has, Reads, None, Empty, Torn, FirstVersion, trees, store, planned, transfer,
        marks, history
<1>1. ASSUME NEW q \in Paths, User(q) PROVE Ours(p)' /\ Staging(p)'
  BY <1>1, <1>0 DEF User, Edit, UserWrite, UserDelete, Rewrite, Remove
<1>2. ASSUME NEW q \in Paths, UserAccept(q) PROVE Ours(p)' /\ Staging(p)'
  BY <1>2, <1>0 DEF UserAccept, Edit
<1>3. ASSUME NEW q \in Paths, Cloud(q) PROVE Ours(p)' /\ Staging(p)'
  BY <1>3, <1>0 DEF Cloud, Edit, CloudWrite, CloudDelete, Evict, Rewrite, Remove
<1>4. ASSUME NEW q \in Paths, Download(q) PROVE Ours(p)' /\ Staging(p)'
  BY <1>4, <1>0 DEF Download
<1>5. ASSUME PushNothing PROVE Ours(p)' /\ Staging(p)'
  BY <1>5, <1>0 DEF PushNothing
<1>6. ASSUME PushRefused PROVE Ours(p)' /\ Staging(p)'
  BY <1>6, <1>0 DEF PushRefused
<1>7. ASSUME NEW md \in Modes, Plan(md) PROVE Ours(p)' /\ Staging(p)'
  BY <1>7, <1>0 DEF Plan
<1>8. ASSUME List PROVE Ours(p)' /\ Staging(p)'
  BY <1>8, <1>0 DEF List
<1>9. ASSUME NEW q \in Paths, Send(q) PROVE Ours(p)' /\ Staging(p)'
  BY <1>9, <1>0 DEF Send, Skip, Vanished, NotReceived, Transfer, Receive, Plain
<1>10. ASSUME SendEnds PROVE Ours(p)' /\ Staging(p)'
  BY <1>10, <1>0 DEF SendEnds
<1>11. ASSUME DeletePass PROVE Ours(p)' /\ Staging(p)'
  BY <1>11, <1>0 DEF DeletePass, Extra, Plain
<1>12. ASSUME Refresh PROVE Ours(p)' /\ Staging(p)'
  BY <1>12, <1>0 DEF Refresh, RefreshIf, Refreshed, PlainEntry, Carried, Plain
<1>13. ASSUME PushFails PROVE Ours(p)' /\ Staging(p)'
  BY <1>13, <1>0 DEF PushFails, Forget, NoFiles
<1>14. ASSUME CheckPasses PROVE Ours(p)' /\ Staging(p)'
  BY <1>14, <1>0 DEF CheckPasses, Movable
<1>15. ASSUME NEW q \in Paths, Move(q) PROVE Ours(p)' /\ Staging(p)'
  BY <1>15, <1>0 DEF Move, Plain
<1>16. ASSUME PushDone PROVE Ours(p)' /\ Staging(p)'
  BY <1>16, <1>0 DEF PushDone, PushEnds, Forget, NoFiles
<1>17. ASSUME MoveFails PROVE Ours(p)' /\ Staging(p)'
  BY <1>17, <1>0 DEF MoveFails, Forget, NoFiles
<1>18. ASSUME NEW md \in Modes, PullPlan(md) PROVE Ours(p)' /\ Staging(p)'
  BY <1>18, <1>0 DEF PullPlan, Readable
<1>19. ASSUME NEW q \in Paths, PullCompare(q) PROVE Ours(p)' /\ Staging(p)'
  BY <1>19, <1>0 DEF PullCompare, PullKeep, PullChange, Overwritten, Restores, Tracked,
     Pulls, MirrorChanged, PullConflicts, BothChanged, Adopts
<1>28. ASSUME NEW q \in Paths, PullBackup(q) PROVE Ours(p)' /\ Staging(p)'
  BY <1>28, <1>0 DEF PullBackup
<1>29. ASSUME NEW q \in Paths, PullCopy(q) PROVE Ours(p)' /\ Staging(p)'
  BY <1>29, <1>0 DEF PullCopy
<1>30. ASSUME NEW q \in Paths, PullHash(q) PROVE Ours(p)' /\ Staging(p)'
  BY <1>30, <1>0 DEF PullHash
<1>20. ASSUME NEW q \in Paths, PullTorn(q) PROVE Ours(p)' /\ Staging(p)'
  BY <1>20, <1>0 DEF PullTorn, Forget, NoFiles
<1>21. ASSUME PullSave PROVE Ours(p)' /\ Staging(p)'
  BY <1>21, <1>0 DEF PullSave, Forget, NoFiles
<1>22. ASSUME IntakePlan PROVE Ours(p)' /\ Staging(p)'
  BY <1>22, <1>0 DEF IntakePlan, Staged, Plain
<1>23. ASSUME IntakeSave PROVE Ours(p)' /\ Staging(p)'
  BY <1>23, <1>0 DEF IntakeSave, Forget, NoFiles
<1>24. ASSUME IntakeFails PROVE Ours(p)' /\ Staging(p)'
  BY <1>24, <1>0 DEF IntakeFails, Forget, NoFiles
<1>25. ASSUME NEW q \in Paths, Fetch(q) PROVE Ours(p)' /\ Staging(p)'
  BY <1>25, <1>0 DEF Fetch, Readable
<1>26. ASSUME Kill PROVE Ours(p)' /\ Staging(p)'
  BY <1>26, <1>0 DEF Kill, Forget, NoFiles
<1>27. CASE UNCHANGED vars
  BY <1>27, <1>0 DEF vars
<1> QED
  BY <1>1, <1>2, <1>3, <1>4, <1>5, <1>6, <1>7, <1>8, <1>9, <1>10, <1>11, <1>12, <1>13,
     <1>14, <1>15, <1>16, <1>17, <1>18, <1>19, <1>20, <1>21, <1>22, <1>23, <1>24, <1>25,
     <1>26, <1>27, <1>28, <1>29, <1>30
     DEF Next, Outside, Push, Pull, Others

-----------------------------------------------------------------------------
(* What last_push stands for *)

Failed == {12, 23, 25}

\* A file that nobody touched during the push: listed if it was there, done if
\* the pass is past it and no error stands, and gone if the plan had it deleted.
Sent(p) ==
    pc \in Sending \cup {"check", "move"} /\ p \in Plain \ busy =>
        /\ Has(local, p) <=> p \in flist
        /\ p \in flist /\ exit \notin Failed /\ (pc = "send" => p \notin todo) =>
               IF Has(mirror, p) THEN policy.update => mirror[p] = local[p] ELSE ~policy.create
        /\ pc = "move" /\ p \in doomed /\ ~Has(local, p) => ~Has(mirror, p)

SentInv == Base /\ \A p \in Paths : Sent(p)

LEMMA SentInit == Init => SentInv
<1> SUFFICES ASSUME Init PROVE SentInv
  OBVIOUS
<1>1. Base
  BY BaseInit
<1>2. ASSUME NEW p \in Paths PROVE Sent(p)
  BY <1>2 DEF Init, Sent, Sending
<1> QED
  BY <1>1, <1>2 DEF SentInv

LEMMA SentStep ==
  ASSUME Rehydrated, Base, Base', [Next]_vars, NEW p \in Paths, Sent(p)
  PROVE  Sent(p)'
<1>0. /\ Typed /\ Typed' /\ Ended /\ Sent(p)
      /\ local[p] # Empty
  BY Versions DEF Base, Typed
<1> USE DEF Typed, Ended, Sent, Sending, Failed, Pcs, PushPcs, PullPcs, Has, Reads, None, Empty,
        Torn, FirstVersion, trees, store, planned, transfer, marks, history
<1>1. ASSUME NEW q \in Paths, User(q) PROVE Sent(p)'
  BY <1>1, <1>0 DEF User, Edit, UserWrite, UserDelete, Rewrite, Remove
<1>2. ASSUME NEW q \in Paths, UserAccept(q) PROVE Sent(p)'
  BY <1>2, <1>0 DEF UserAccept, Edit
<1>3. ASSUME NEW q \in Paths, Cloud(q) PROVE Sent(p)'
  BY <1>3, <1>0 DEF Cloud, Edit, CloudWrite, CloudDelete, Evict, Rewrite, Remove
<1>4. ASSUME NEW q \in Paths, Download(q) PROVE Sent(p)'
  BY <1>4, <1>0 DEF Download
<1>5. ASSUME PushNothing PROVE Sent(p)'
  BY <1>5, <1>0 DEF PushNothing
<1>6. ASSUME PushRefused PROVE Sent(p)'
  BY <1>6, <1>0 DEF PushRefused
<1>7. ASSUME NEW md \in Modes, Plan(md) PROVE Sent(p)'
  BY <1>7, <1>0 DEF Plan
<1>8. ASSUME List PROVE Sent(p)'
  BY <1>8, <1>0 DEF List, Held, Plain
<1>9. ASSUME NEW q \in Paths, Send(q) PROVE Sent(p)'
  BY <1>9, <1>0 DEF Send, Skip, Vanished, NotReceived, Transfer, Receive, Wanted, Plain
<1>10. ASSUME SendEnds PROVE Sent(p)'
  BY <1>10, <1>0 DEF SendEnds
<1>11. ASSUME DeletePass PROVE Sent(p)'
  BY <1>11, <1>0 DEF DeletePass, Extra, Plain
<1>12. ASSUME Refresh PROVE Sent(p)'
  BY <1>12, <1>0 DEF Refresh, RefreshIf
<1>13. ASSUME PushFails PROVE Sent(p)'
  BY <1>13, <1>0 DEF PushFails, Forget, NoFiles
<1>14. ASSUME CheckPasses PROVE Sent(p)'
  BY <1>14, <1>0 DEF CheckPasses, Movable, Unapplied
<1>15. ASSUME NEW q \in Paths, Move(q) PROVE Sent(p)'
  BY <1>15, <1>0 DEF Move, Plain
<1>16. ASSUME PushDone PROVE Sent(p)'
  BY <1>16, <1>0 DEF PushDone, PushEnds, Forget, NoFiles
<1>17. ASSUME MoveFails PROVE Sent(p)'
  BY <1>17, <1>0 DEF MoveFails, Forget, NoFiles
<1>18. ASSUME NEW md \in Modes, PullPlan(md) PROVE Sent(p)'
  BY <1>18, <1>0 DEF PullPlan, Readable
<1>19. ASSUME NEW q \in Paths, PullCompare(q) PROVE Sent(p)'
  BY <1>19, <1>0 DEF PullCompare, PullKeep, PullChange, Overwritten, Restores, Tracked,
     Pulls, MirrorChanged, PullConflicts, BothChanged, Adopts
<1>28. ASSUME NEW q \in Paths, PullBackup(q) PROVE Sent(p)'
  BY <1>28, <1>0 DEF PullBackup
<1>29. ASSUME NEW q \in Paths, PullCopy(q) PROVE Sent(p)'
  BY <1>29, <1>0 DEF PullCopy
<1>30. ASSUME NEW q \in Paths, PullHash(q) PROVE Sent(p)'
  BY <1>30, <1>0 DEF PullHash
<1>20. ASSUME NEW q \in Paths, PullTorn(q) PROVE Sent(p)'
  BY <1>20, <1>0 DEF PullTorn, Forget, NoFiles
<1>21. ASSUME PullSave PROVE Sent(p)'
  BY <1>21, <1>0 DEF PullSave, Forget, NoFiles
<1>22. ASSUME IntakePlan PROVE Sent(p)'
  BY <1>22, <1>0 DEF IntakePlan, Staged
<1>23. ASSUME IntakeSave PROVE Sent(p)'
  BY <1>23, <1>0 DEF IntakeSave, Forget, NoFiles
<1>24. ASSUME IntakeFails PROVE Sent(p)'
  BY <1>24, <1>0 DEF IntakeFails, Forget, NoFiles
<1>25. ASSUME NEW q \in Paths, Fetch(q) PROVE Sent(p)'
  BY <1>25, <1>0 DEF Fetch, Readable
<1>26. ASSUME Kill PROVE Sent(p)'
  BY <1>26, <1>0 DEF Kill, Forget, NoFiles
<1>27. CASE UNCHANGED vars
  BY <1>27, <1>0 DEF vars
<1> QED
  BY <1>1, <1>2, <1>3, <1>4, <1>5, <1>6, <1>7, <1>8, <1>9, <1>10, <1>11, <1>12, <1>13,
     <1>14, <1>15, <1>16, <1>17, <1>18, <1>19, <1>20, <1>21, <1>22, <1>23, <1>24, <1>25,
     <1>26, <1>27, <1>28, <1>29, <1>30
     DEF Next, Outside, Push, Pull, Others

LEMMA StampStep ==
  ASSUME Rehydrated, Base, [Next]_vars, NEW p \in Plain \ busy, Sent(p), ~stamped, stamped'
  PROVE  IF Has(local, p)
         THEN IF Has(mirror, p) THEN policy.update => mirror[p] = local[p] ELSE ~policy.create
         ELSE p \in doomed => ~Has(mirror, p)
<1>0. /\ Typed /\ Ended /\ Sent(p) /\ ~stamped /\ stamped'
      /\ p \in Paths /\ local[p] # Empty
  BY Versions DEF Base, Typed, Plain
<1> SUFFICES ASSUME TRUE
             PROVE  /\ Has(local, p) /\ Has(mirror, p) /\ policy.update => mirror[p] = local[p]
                    /\ Has(local, p) /\ ~Has(mirror, p) => ~policy.create
                    /\ ~Has(local, p) /\ p \in doomed => ~Has(mirror, p)
  OBVIOUS
<1>1. CASE PushNothing
  <2>1. /\ p \notin Creates(local, mirror, policy)
        /\ p \notin Updates(baseline, local, mirror, evicted, policy)
        /\ p \notin PushConflicts(baseline, local, mirror, evicted, policy)
    BY <1>1 DEF PushNothing, PlanChanges, PlanConflicts, HasChanges
  <2>2. Has(local, p) /\ Has(mirror, p) /\ policy.update => mirror[p] = local[p]
    BY <1>0, <2>1 DEF PushConflicts, Updates, Differing, EmptyTwin
  <2>3. Has(local, p) /\ ~Has(mirror, p) => ~policy.create
    BY <2>1 DEF Creates
  <2>4. doomed = {}
    BY <1>0, <1>1 DEF PushNothing, Ended
  <2> QED
    BY <2>2, <2>3, <2>4
<1>2. CASE PushDone
  BY <1>0, <1>2 DEF PushDone, PushEnds, Sent, Sending, Ended, Typed, Failed
<1>3. CASE ~PushNothing /\ ~PushDone
  <2>1. stamped' = stamped \/ stamped' = FALSE
    BY <1>3 DEF Next, Outside, Push, Pull, Others, User, UserAccept, Cloud, Download,
       PushRefused, Plan, List, Send, SendEnds, DeletePass, Refresh, RefreshIf, PushFails,
       CheckPasses, Move, MoveFails, PullPlan, PullCompare, PullBackup, PullCopy, PullHash,
       PullTorn, PullSave, IntakePlan,
       IntakeSave, IntakeFails, Fetch, Kill, vars
  <2> QED
    BY <1>0, <2>1
<1> QED
  BY <1>1, <1>2, <1>3

-----------------------------------------------------------------------------

\* Every variable of the commands has its type, whatever is evicted when.
THEOREM TypeCorrect == Spec => []TypeOK
<1>1. Base => TypeOK
  BY TypedIs DEF Base
<1> QED
  BY <1>1, BaseInit, BaseStep, PTL DEF Spec

\* No push, pull, intake or fetch (Push, PullTracked, Intake, Fetch) destroys
\* content, wherever it is killed and whatever the user and the cloud client do
\* in between, with any policy, and evicted files read as empty ones, if no save
\* falls between a pull's comparison, or backup, of that file and its copy.
THEOREM ContentSurvives == Unsaved => (Spec => []NoContentLost)
<1>1. Unsaved /\ ContentInv /\ [Next]_vars => ContentInv'
  BY BaseStep, ContentStep DEF ContentInv
<1>2. ContentInv => NoContentLost
  <2> SUFFICES ASSUME ContentInv, NEW e \in live
               PROVE  e \in Entry(local, Paths) \cup Entry(mirror, Paths) \cup kept
    BY DEF NoContentLost
  <2>1. PICK p \in Paths, v \in Contents : e = <<p, v>>
    BY DEF ContentInv, Base, Typed, Entries
  <2>2. Kept(p)
    BY DEF ContentInv, Content
  <2> QED
    BY <2>1, <2>2 DEF Kept, Entry
<1> SUFFICES ASSUME Unsaved PROVE Spec => []NoContentLost
  OBVIOUS
<1> QED
  BY <1>1, <1>2, ContentInit, PTL DEF Spec

\* A content the baseline records was in the workspace, or was accepted by a
\* push (refreshBaseline, carryProvenEntry, PullTracked), for any number of
\* paths and commands, if the policy propagates updates, pulls read no evicted
\* file, and the cloud writes none between a pull's copy and its hash.
THEOREM BaselineProves == Updating /\ Rehydrated /\ Unwritten => (Spec => []BaselineProven)
<1>1. Updating /\ Rehydrated /\ Unwritten /\ ProofInv /\ [Next]_vars => ProofInv'
  BY BaseStep, ProofStep DEF ProofInv
<1>2. ProofInv => BaselineProven
  BY DEF ProofInv, Proved, RecordProven, BaselineProven, Entry, Held
<1>3. Init => ProofInv
  BY ProofInit
<1> SUFFICES ASSUME Updating, Rehydrated, Unwritten PROVE Spec => []BaselineProven
  OBVIOUS
<1> QED
  BY <1>1, <1>2, <1>3, PTL DEF Spec

\* What a clean push overwrites or removes on the mirror (rsync's transfer and
\* its deletions, MoveMirrorLeftovers) came from the workspace, arrived since
\* the plan or was evicted, if the policy propagates updates and deletions and
\* no pull meets an evicted file or a write between its copy and its hash.
THEOREM CleanPushes == Full /\ Rehydrated /\ Unwritten => (Spec => CleanPushProven)
<1>1. Full /\ Rehydrated /\ Unwritten /\ CleanInv /\ [Next]_vars => CleanInv'
  <2> SUFFICES ASSUME Full, Rehydrated, Unwritten, CleanInv, [Next]_vars PROVE CleanInv'
    OBVIOUS
  <2>1. Updating
    BY DEF Full, Updating
  <2>2. Base'
    BY BaseStep DEF CleanInv, ProofInv
  <2>3. ASSUME NEW p \in Paths
        PROVE  Proved(p)' /\ CleanProven(p)'
    BY <2>1, <2>2, ProofStep, CleanStep DEF CleanInv, ProofInv
  <2> QED
    BY <2>2, <2>3 DEF CleanInv, ProofInv
<1>2. CleanInv /\ [Next]_vars
        => [mode = "clean" /\ <<pc, todo>> # <<pc, todo>>'
              => \A p \in Held(mirror) : mirror'[p] # mirror[p] => <<p, mirror[p]>> \in proof]_vars
  BY CleanPushStep DEF CleanInv, ProofInv, Held
<1>3. Init => CleanInv
  BY ProofInit
<1> SUFFICES ASSUME Full, Rehydrated, Unwritten PROVE Spec => CleanPushProven
  OBVIOUS
<1> QED
  BY <1>1, <1>2, <1>3, PTL DEF Spec, CleanPushProven

LEMMA OursInvStep == OursInv /\ [Next]_vars => OursInv'
BY BaseStep, OursStep DEF OursInv

\* A push finds a conflict only in what the cloud client, or a killed push, did
\* to the mirror: however a run ended, it leaves no conflict of the workspace
\* with itself (refreshBaseline after a failed rsync).
THEOREM ConflictsForeign == Spec => []NoSelfConflict
<1>1. OursInv => NoSelfConflict
  <2> SUFFICES ASSUME OursInv, pc = "idle", policy.delete, NEW p \in PlanConflicts
               PROVE  p \in touched
    BY DEF NoSelfConflict
  <2>1. p \in Plain /\ p \in Paths /\ Has(mirror, p)
    BY DEF PlanConflicts, PushConflicts, MirrorOnly, Differing, Plain
  <2>2. written = {} /\ Ours(p)
    BY <2>1 DEF OursInv, Base, Ended
  <2>3. p \notin touched => p \notin evicted /\ mirror[p] = baseline[p]
    BY <2>1, <2>2 DEF Ours
  <2> QED
    BY <2>1, <2>3 DEF PlanConflicts, PushConflicts, Deletes, Updates, MirrorOnly,
       Differing, Proven, Reads, Has
<1> QED
  BY <1>1, OursInit, OursInvStep, PTL DEF Spec

\* Intake stages only files that the cloud client, or a killed push, put on the
\* mirror, and names no push sends (Intake).
THEOREM IntakeForeign == Spec => []IntakeNotOwn
<1>1. OursInv => IntakeNotOwn
  BY DEF OursInv, Base, Typed, Staging, IntakeNotOwn
<1> QED
  BY <1>1, OursInit, OursInvStep, PTL DEF Spec

\* last_push is stamped only when the mirror has what the policy sends and not
\* what the plan proved deleted (Push, its exit 23), for any policy.
THEOREM StampsTrue == Rehydrated => (Spec => StampHonest)
<1>1. Rehydrated /\ SentInv /\ [Next]_vars => SentInv'
  BY BaseStep, SentStep DEF SentInv
<1>2. Rehydrated /\ SentInv /\ [Next]_vars
        => [~stamped /\ stamped' =>
              \A p \in Plain \ busy :
                 IF Has(local, p)
                 THEN IF Has(mirror, p) THEN policy.update => mirror[p] = local[p]
                                        ELSE ~policy.create
                 ELSE p \in doomed => ~Has(mirror, p)]_vars
  BY StampStep DEF SentInv, Plain
<1> SUFFICES ASSUME Rehydrated PROVE Spec => StampHonest
  OBVIOUS
<1> QED
  BY <1>1, <1>2, SentInit, PTL DEF Spec, StampHonest
=============================================================================
