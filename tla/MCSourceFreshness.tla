-------------------------- MODULE MCSourceFreshness --------------------------
(* The instance of SourceFreshness that TLC checks: a file that says a thing  *)
(* twice and another once, and then only the first, once; and a second file.  *)
EXTENDS SourceFreshness, TLC

CONSTANTS h1, h2, f1, f2, v1, v2, w1, a, b, c, d, r, t

MCSourceOf == (v1 :> f1) @@ (v2 :> f1) @@ (w1 :> f2)
TwiceThenOnce == (v1 :> {a, b, c}) @@ (v2 :> {b}) @@ (w1 :> {d})
MCTargetOf == (a :> t) @@ (b :> t) @@ (c :> r) @@ (d :> r)

(* Begin with the version that says more. *)
InitFirst == FreshInit /\ file[f1] = v1

(* A review takes the entry a, the others, or all. *)
Reviewed ==
  Len(batches') > Len(batches) =>
    LET new == batches'[Len(batches')]
        all == Fragments[new.version]
    IN  new.rows \in {{}, all, all \cap {a}, all \ {a}}

FromFirst == InitFirst /\ [][FreshNext /\ Reviewed]_freshVars /\ Fairness
=============================================================================
