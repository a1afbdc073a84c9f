----------------------------- MODULE MCKnowledge -----------------------------
(* The instance of Knowledge that TLC checks. *)
EXTENDS Knowledge, TLC

CONSTANTS p1, p2, t1, t2, t3, e1, e2

Symmetry == Permutations(Proc) \cup Permutations(Text) \cup Permutations(Entity)
=============================================================================
