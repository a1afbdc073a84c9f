---------------------------- MODULE MCLoopLedger ----------------------------
(* The instances of LoopLedger that TLC checks. *)
EXTENDS LoopLedger, TLC

CONSTANTS p1, p2, s1

(* One session. *)
OneSession == [k \in Payload |-> s1]

(* Each change is that of its event. *)
OwnChange == [k \in Marking |-> k]

Symmetry == Permutations(Proc)
=============================================================================
