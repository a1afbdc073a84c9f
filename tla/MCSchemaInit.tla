----------------------------- MODULE MCSchemaInit -----------------------------
(* The instance of SchemaInit that TLC checks. *)
EXTENDS SchemaInit, TLC

CONSTANTS p1, p2, old, kept, branch, mirror, error, legacyRow, newRow

(* Two replacements of one fact; the one that is kept comes first. *)
MCRank == (kept :> 1) @@ (branch :> 2) @@ (old :> 3)

Empty == [knowledge |-> "absent", shared |-> {}, points |-> {},
          ledger |-> "absent", rows |-> {}, aside |-> "absent", asideRows |-> {},
          index |-> FALSE, batches |-> "absent", lineage |-> FALSE, edges |-> {},
          tables |-> FALSE, columns |-> {}, version |-> 0]

(* v0.4 without imports: no ledger, no column for scope. *)
First04 == [Empty EXCEPT !.knowledge = "old", !.shared = Fact,
                         !.points = {<<kept, old>>, <<branch, old>>}]

(* v0.4 with imports. *)
Late04 == [First04 EXCEPT !.ledger = "old", !.rows = {legacyRow}, !.index = TRUE,
                          !.batches = "old"]

(* A store whose facts have their scope, before the ledger changed. *)
WithScopes == [Late04 EXCEPT !.knowledge = "new", !.shared = {old}, !.points = {}]

(* A store of an early loop release. *)
Loop == [Empty EXCEPT !.knowledge = "new", !.ledger = "new", !.rows = {legacyRow},
                      !.index = TRUE, !.batches = "new", !.lineage = TRUE,
                      !.tables = TRUE, !.version = 3]

MCStores == {Empty, First04, Late04, WithScopes, Loop}
=============================================================================
