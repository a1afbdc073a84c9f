---------------------------- MODULE MCJsonlStream ----------------------------
(* The instances of JsonlStream that TLC checks. *)
EXTENDS JsonlStream, TLC

Symmetry == Permutations(Proc)
=============================================================================
