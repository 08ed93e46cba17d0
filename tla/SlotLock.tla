------------------------------ MODULE SlotLock ------------------------------
(***************************************************************************)
(* What an admission slot promises: at most one contender inside, entered  *)
(* only when free, left by its holder alone (by giving the slot back, or   *)
(* by dying).  internal/admission/slots.go implements it with directories, *)
(* leases and a reclaim lock; AdmissionSlots is shown to refine it.        *)
(***************************************************************************)
CONSTANTS Procs, Nobody

VARIABLE holder

Init == holder = Nobody

Enter(p) == holder = Nobody /\ holder' = p
Leave(p) == holder = p /\ holder' = Nobody

Next == \E p \in Procs : Enter(p) \/ Leave(p)

Spec == Init /\ [][Next]_holder
=============================================================================
