-------------------------- MODULE MCHostConnection --------------------------
(* The instance of HostConnection that TLC checks. *)
EXTENDS HostConnection, TLC

Symmetry == Permutations(Proc) \cup Permutations(Edit)
=============================================================================
