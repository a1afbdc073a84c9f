-------------------------- MODULE MCImportWorkflow --------------------------
(* The instance of ImportWorkflow that TLC checks: a file whose one line     *)
(* changes, and a file of two lines, one of which may replace a fact.        *)
EXTENDS ImportWorkflow, TLC

CONSTANTS t1, t2, t3, e1, e2, s1, s2, a, b, f1, f2, v1, v2, w1, x, y, z, g

MCSourceOf == (v1 :> f1) @@ (v2 :> f1) @@ (w1 :> f2)
MCItems == (v1 :> <<x>>) @@ (v2 :> <<g>>) @@ (w1 :> <<y, z>>)
MCTextOf == (x :> t2) @@ (g :> t3) @@ (y :> t2) @@ (z :> t1)
MCKinds == (x :> {"semantic"}) @@ (g :> {"supersede", "rule"})
           @@ (y :> {"supersede", "state"})
           @@ (z :> {"semantic", "state"})
MCGivenLinks == {<<t1, e1>>, <<t1, e2>>}

(* Once another writer wrote, one session at a time, up to its second batch. *)
Bound == writes = 0 \/ (/\ Len(batches) < 2
                        /\ Cardinality({p \in Session : Holding(p)}) <= 1)

Symmetry == Permutations(Session) \cup Permutations(Entity)
=============================================================================
