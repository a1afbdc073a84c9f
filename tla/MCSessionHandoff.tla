-------------------------- MODULE MCSessionHandoff --------------------------
(* The instance of SessionHandoff that TLC checks: two sessions of the same *)
(* project, or of two; or the project's name is too long for a context.     *)
EXTENDS SessionHandoff, TLC

CONSTANTS s1, s2

Symmetry == Permutations(Proc) \cup Permutations(Entity)

MCInit ==
  /\ Init
  /\ envelope > Budget => \A s, t \in Session : home[s] = home[t]

MCSpec == MCInit /\ [][Next]_vars

(* Both sessions write handoffs; only one starts and prompts. *)
Roles == \A p \in Proc : hook[p].kind \in {"start", "prompt"} => hook[p].session # s2
=============================================================================
