-------------------------- MODULE MCAdmissionGate ---------------------------
(* AdmissionGate for TLC: two invocations of dot. *)
EXTENDS AdmissionGate, TLC

CONSTANTS p1, p2

Sym == Permutations({p1, p2})
=============================================================================
