--------------------------- MODULE MCAdmissionSlots --------------------------
(***************************************************************************)
(* Model-checking instance of AdmissionSlots.                              *)
(***************************************************************************)
EXTENDS AdmissionSlots, TLC

Symmetry == Permutations(Procs)
=============================================================================
