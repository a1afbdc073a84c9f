--------------------------- MODULE SchemaInit_proofs ---------------------------
(***************************************************************************)
(* Proofs about SchemaInit, for any processes, stores and number of deaths.*)
(*                                                                         *)
(* No migration is ever taken back (Ahead), neither by a statement that    *)
(* commits itself nor by a transaction; so what a process found at one of  *)
(* its places, in its view of the database, is there at the next one.      *)
(***************************************************************************)
EXTENDS SchemaInit, TLAPS

(* The database e is at least as far as d. *)
Ahead(d, e) ==
  /\ d.knowledge = "new" => e.knowledge = "new"
  /\ d.batches # "absent" => e.batches # "absent"
  /\ d.batches = "new" => e.batches = "new"
  /\ d.ledger # "old" => e.ledger # "old"
  /\ d.lineage => e.lineage
  /\ d.tables => e.tables
  /\ d.columns \subseteq e.columns
  /\ d.version = 4 => e.version = 4

DraftAhead == writer # NoProc => Ahead(db, draft)

(* What a process at a place finds in its view, with columns left to add. *)
PlaceOK(at, d, left) ==
  /\ at # "start" => d.batches # "absent"
  /\ at \notin {"start", "scope", "addScope"} => d.knowledge = "new"
  /\ at \notin {"start", "scope", "addScope", "markScoped", "ledger", "rename"}
       => d.ledger # "old"
  /\ at \in {"commit", "backfill", "keep", "loop", "tables", "columns", "alter", "version", "ready"}
       => d.batches = "new"
  /\ at \in {"keep", "loop", "tables", "columns", "alter", "version", "ready"} => d.lineage
  /\ at \in {"columns", "alter", "version", "ready"} => d.tables
  /\ at = "alter" => Column \subseteq left \cup d.columns
  /\ at \in {"version", "ready"} => Column \subseteq d.columns
  /\ at = "ready" => d.version = 4

PlaceInv == \A p \in Proc : PlaceOK(pc[p], View(p), todo[p])

(* Receipts are where their table is. *)
Bare(d) == /\ d.ledger = "absent" => d.rows = {}
           /\ d.aside = "absent" => d.asideRows = {}

Kept(d) == /\ d.rows \cup d.asideRows = given.rows \cup made
           /\ d.rows \cap d.asideRows = {}

(* Between the copy and the drop, the draft has the receipts twice. *)
Twice(d) == /\ d.ledger = "new"
            /\ d.asideRows \subseteq d.rows /\ d.rows = given.rows \cup made

ReceiptInv ==
  /\ Bare(db) /\ Kept(db)
  /\ writer # NoProc => /\ Bare(draft)
                        /\ IF pc[writer] = "drop" THEN Twice(draft) ELSE Kept(draft)
  /\ \A p \in Proc : pc[p] = "drop" => writer = p

SchemaInv == SchemaTypeOK /\ DraftAhead /\ PlaceInv /\ ReceiptInv
-----------------------------------------------------------------------------
(* The steps of the database *)

LEMMA AheadRefl == ASSUME NEW d PROVE Ahead(d, d)
  BY DEF Ahead

LEMMA AheadTrans ==
  ASSUME NEW d, NEW e, NEW f, Ahead(d, e), Ahead(e, f)
  PROVE  Ahead(d, f)
  BY DEF Ahead

LEMMA PlaceStays ==
  ASSUME NEW at, NEW d, NEW e, NEW left, PlaceOK(at, d, left), Ahead(d, e)
  PROVE  PlaceOK(at, e, left)
  BY DEF PlaceOK, Ahead

(* What each statement changes, field by field. *)

LEMMA CreatedFormat ==
  ASSUME NEW f \in Format
  PROVE  /\ Created(f) \in Format /\ Created(f) # "absent"
         /\ f # "absent" => Created(f) = f
         /\ Created(f) = "old" => f = "old"
  BY DEF Format, Created

LEMMA ScriptFields ==
  ASSUME NEW d \in Database
  PROVE  /\ Script(d) \in Database
         /\ Script(d).knowledge = Created(d.knowledge)
         /\ Script(d).ledger = Created(d.ledger) /\ Script(d).batches = Created(d.batches)
         /\ Script(d).rows = d.rows /\ Script(d).asideRows = d.asideRows
         /\ Script(d).aside = d.aside /\ Script(d).lineage = d.lineage
         /\ Script(d).tables = d.tables /\ Script(d).columns = d.columns
         /\ Script(d).version = d.version
<1>1. /\ Created(d.knowledge) \in Format /\ Created(d.ledger) \in Format
      /\ Created(d.batches) \in Format
  BY CreatedFormat DEF Database
<1>2. Script(d) \in Database
  BY <1>1, Zenon DEF Database, Script
<1>. QED  BY <1>2, Zenon DEF Database, Script

LEMMA WithScopeFields ==
  ASSUME NEW d \in Database
  PROVE  /\ WithScope(d) \in Database
         /\ WithScope(d).knowledge = "new"  /\ WithScope(d).ledger = d.ledger
         /\ WithScope(d).rows = d.rows  /\ WithScope(d).aside = d.aside
         /\ WithScope(d).asideRows = d.asideRows  /\ WithScope(d).batches = d.batches
         /\ WithScope(d).lineage = d.lineage  /\ WithScope(d).tables = d.tables
         /\ WithScope(d).columns = d.columns  /\ WithScope(d).version = d.version
  BY Zenon DEF Database, Format, WithScope

LEMMA ScopedFields ==
  ASSUME NEW d \in Database
  PROVE  /\ Scoped(d) \in Database
         /\ Scoped(d).knowledge = d.knowledge  /\ Scoped(d).ledger = d.ledger
         /\ Scoped(d).rows = d.rows  /\ Scoped(d).aside = d.aside
         /\ Scoped(d).asideRows = d.asideRows  /\ Scoped(d).batches = d.batches
         /\ Scoped(d).lineage = d.lineage  /\ Scoped(d).tables = d.tables
         /\ Scoped(d).columns = d.columns  /\ Scoped(d).version = d.version
  BY Zenon DEF Database, Scoped, Unshared

LEMMA RenamedFields ==
  ASSUME NEW d \in Database
  PROVE  /\ Renamed(d) \in Database
         /\ Renamed(d).knowledge = d.knowledge  /\ Renamed(d).ledger = "absent"
         /\ Renamed(d).rows = {}  /\ Renamed(d).aside = d.ledger
         /\ Renamed(d).asideRows = d.rows  /\ Renamed(d).batches = d.batches
         /\ Renamed(d).lineage = d.lineage  /\ Renamed(d).tables = d.tables
         /\ Renamed(d).columns = d.columns  /\ Renamed(d).version = d.version
  BY Zenon DEF Database, Format, Renamed

LEMMA WithLedgerFields ==
  ASSUME NEW d \in Database
  PROVE  /\ WithLedger(d) \in Database
         /\ WithLedger(d).knowledge = d.knowledge  /\ WithLedger(d).ledger = "new"
         /\ WithLedger(d).rows = d.rows  /\ WithLedger(d).aside = d.aside
         /\ WithLedger(d).asideRows = d.asideRows  /\ WithLedger(d).batches = d.batches
         /\ WithLedger(d).lineage = d.lineage  /\ WithLedger(d).tables = d.tables
         /\ WithLedger(d).columns = d.columns  /\ WithLedger(d).version = d.version
  BY Zenon DEF Database, Format, WithLedger

LEMMA CopiedFields ==
  ASSUME NEW d \in Database
  PROVE  /\ Copied(d) \in Database
         /\ Copied(d).knowledge = d.knowledge  /\ Copied(d).ledger = d.ledger
         /\ Copied(d).rows = d.rows \cup d.asideRows  /\ Copied(d).aside = d.aside
         /\ Copied(d).asideRows = d.asideRows  /\ Copied(d).batches = d.batches
         /\ Copied(d).lineage = d.lineage  /\ Copied(d).tables = d.tables
         /\ Copied(d).columns = d.columns  /\ Copied(d).version = d.version
  BY Zenon DEF Database, Copied

LEMMA DroppedFields ==
  ASSUME NEW d \in Database
  PROVE  /\ Dropped(d) \in Database
         /\ Dropped(d).knowledge = d.knowledge  /\ Dropped(d).ledger = d.ledger
         /\ Dropped(d).rows = d.rows  /\ Dropped(d).aside = "absent"
         /\ Dropped(d).asideRows = {}  /\ Dropped(d).batches = d.batches
         /\ Dropped(d).lineage = d.lineage  /\ Dropped(d).tables = d.tables
         /\ Dropped(d).columns = d.columns  /\ Dropped(d).version = d.version
  BY Zenon DEF Database, Format, Dropped

LEMMA IndexedFields ==
  ASSUME NEW d \in Database, NEW there \in BOOLEAN
  PROVE  /\ Indexed(d, there) \in Database
         /\ Indexed(d, there).knowledge = d.knowledge
         /\ Indexed(d, there).ledger = d.ledger  /\ Indexed(d, there).rows = d.rows
         /\ Indexed(d, there).aside = d.aside
         /\ Indexed(d, there).asideRows = d.asideRows
         /\ Indexed(d, there).batches = d.batches
         /\ Indexed(d, there).lineage = d.lineage  /\ Indexed(d, there).tables = d.tables
         /\ Indexed(d, there).columns = d.columns
         /\ Indexed(d, there).version = d.version
  BY Zenon DEF Database, Indexed

LEMMA RebuiltFields ==
  ASSUME NEW d \in Database
  PROVE  /\ Rebuilt(d) \in Database
         /\ Rebuilt(d).knowledge = d.knowledge  /\ Rebuilt(d).ledger = d.ledger
         /\ Rebuilt(d).rows = d.rows  /\ Rebuilt(d).aside = d.aside
         /\ Rebuilt(d).asideRows = d.asideRows  /\ Rebuilt(d).batches = "new"
         /\ Rebuilt(d).lineage = d.lineage  /\ Rebuilt(d).tables = d.tables
         /\ Rebuilt(d).columns = d.columns  /\ Rebuilt(d).version = d.version
  BY Zenon DEF Database, Format, Rebuilt

LEMMA WithLineageFields ==
  ASSUME NEW d \in Database, NEW new \in SUBSET Edge
  PROVE  /\ WithLineage(d, new) \in Database
         /\ WithLineage(d, new).knowledge = d.knowledge
         /\ WithLineage(d, new).ledger = d.ledger  /\ WithLineage(d, new).rows = d.rows
         /\ WithLineage(d, new).aside = d.aside
         /\ WithLineage(d, new).asideRows = d.asideRows
         /\ WithLineage(d, new).batches = d.batches
         /\ WithLineage(d, new).lineage = TRUE  /\ WithLineage(d, new).tables = d.tables
         /\ WithLineage(d, new).columns = d.columns
         /\ WithLineage(d, new).version = d.version
  BY Zenon DEF Database, WithLineage

LEMMA WithColumnFields ==
  ASSUME NEW d \in Database, NEW c \in Column
  PROVE  /\ WithColumn(d, c) \in Database
         /\ WithColumn(d, c).knowledge = d.knowledge
         /\ WithColumn(d, c).ledger = d.ledger  /\ WithColumn(d, c).rows = d.rows
         /\ WithColumn(d, c).aside = d.aside  /\ WithColumn(d, c).asideRows = d.asideRows
         /\ WithColumn(d, c).batches = d.batches  /\ WithColumn(d, c).lineage = d.lineage
         /\ WithColumn(d, c).tables = d.tables
         /\ WithColumn(d, c).columns = d.columns \cup {c}
         /\ WithColumn(d, c).version = d.version
  BY Zenon DEF Database, WithColumn

LEMMA AtVersionFields ==
  ASSUME NEW d \in Database
  PROVE  /\ AtVersion(d) \in Database
         /\ AtVersion(d).knowledge = d.knowledge  /\ AtVersion(d).ledger = d.ledger
         /\ AtVersion(d).rows = d.rows  /\ AtVersion(d).aside = d.aside
         /\ AtVersion(d).asideRows = d.asideRows  /\ AtVersion(d).batches = d.batches
         /\ AtVersion(d).lineage = d.lineage  /\ AtVersion(d).tables = d.tables
         /\ AtVersion(d).columns = d.columns  /\ AtVersion(d).version = 4
<1>. 4 \in 0 .. 4
  BY SMT
<1>. QED  BY Zenon DEF Database, AtVersion

LEMMA ReceiptedFields ==
  ASSUME NEW d \in Database, NEW r \in Row
  PROVE  /\ Receipted(d, r) \in Database
         /\ Receipted(d, r).knowledge = d.knowledge  /\ Receipted(d, r).ledger = d.ledger
         /\ Receipted(d, r).rows = d.rows \cup {r}  /\ Receipted(d, r).aside = d.aside
         /\ Receipted(d, r).asideRows = d.asideRows
         /\ Receipted(d, r).batches = d.batches  /\ Receipted(d, r).lineage = d.lineage
         /\ Receipted(d, r).tables = d.tables  /\ Receipted(d, r).columns = d.columns
         /\ Receipted(d, r).version = d.version
  BY Zenon DEF Database, Receipted

LEMMA SupersededFields ==
  ASSUME NEW d \in Database, NEW old \in Fact, NEW new \in Fact
  PROVE  /\ Superseded(d, old, new) \in Database
         /\ Superseded(d, old, new).knowledge = d.knowledge
         /\ Superseded(d, old, new).ledger = d.ledger
         /\ Superseded(d, old, new).rows = d.rows
         /\ Superseded(d, old, new).aside = d.aside
         /\ Superseded(d, old, new).asideRows = d.asideRows
         /\ Superseded(d, old, new).batches = d.batches
         /\ Superseded(d, old, new).lineage = d.lineage
         /\ Superseded(d, old, new).tables = d.tables
         /\ Superseded(d, old, new).columns = d.columns
         /\ Superseded(d, old, new).version = d.version
<1>. DEFINE P == IF \E x \in d.points : x[1] = new THEN d.points
                 ELSE d.points \cup {<<new, old>>}
            E == d.edges \cup {[old |-> old, new |-> new, status |-> "own"]}
<1>1. Superseded(d, old, new) = [d EXCEPT !.points = P, !.edges = E]
  BY Zenon DEF Superseded
<1>2. P \in SUBSET (Fact \X Fact) /\ E \in SUBSET Edge
  BY SMT DEF Database, Edge
<1>. HIDE DEF P, E
<1>. QED  BY <1>1, <1>2, Zenon DEF Database

-----------------------------------------------------------------------------
(* What the steps do to the database *)

(* e is d, further on, with the same receipts. *)
Neutral(d, e) ==
  /\ e \in Database /\ Ahead(d, e)
  /\ e.rows = d.rows /\ e.asideRows = d.asideRows
  /\ Bare(d) => Bare(e)

Effect(p) ==
  \/ UNCHANGED stored
  \/ \E d : Neutral(View(p), d) /\ Define(p, d)
  \/ \E d : Neutral(View(p), d) /\ Modify(p, d)
  \/ Commit(p)
  \/ Rollback(p)

(* A step of p that touches no receipt, and leads to a place where p finds *)
(* what it should. *)
Plain(p) ==
  /\ Effect(p)
  /\ pc'[p] # "drop" /\ (pc[p] = "drop" => Rollback(p))
  /\ writer' = p => pc'[p] \in InTransaction
  /\ PlaceOK(pc'[p], View(p)', todo'[p])

LEMMA ViewType ==
  ASSUME SchemaTypeOK, NEW p \in Proc
  PROVE  View(p) \in Database /\ (pc[p] \notin InTransaction => View(p) = db)
  BY SchemaAssumption DEF SchemaTypeOK, View

LEMMA NeutralSteps ==
  ASSUME NEW d \in Database
  PROVE  /\ Neutral(d, d)
         /\ Neutral(d, Script(d)) /\ Neutral(d, WithScope(d)) /\ Neutral(d, Scoped(d))
         /\ Neutral(d, WithLedger(d)) /\ Neutral(d, Rebuilt(d)) /\ Neutral(d, AtVersion(d))
         /\ \A there \in BOOLEAN : Neutral(d, Indexed(d, there))
         /\ \A new \in SUBSET Edge : Neutral(d, WithLineage(d, new))
         /\ \A c \in Column : Neutral(d, WithColumn(d, c))
         /\ \A old, new \in Fact : Neutral(d, Superseded(d, old, new))
<1>0. d.ledger \in Format /\ d.knowledge \in Format /\ d.batches \in Format
      /\ d.columns \subseteq Column
  BY DEF Database
<1>1. Neutral(d, d)
  BY DEF Neutral, Ahead
<1>2. Neutral(d, Script(d))
  BY <1>0, ScriptFields, CreatedFormat DEF Neutral, Ahead, Bare, Format
<1>3. Neutral(d, WithScope(d)) /\ Neutral(d, Scoped(d)) /\ Neutral(d, AtVersion(d))
  BY <1>0, WithScopeFields, ScopedFields, AtVersionFields DEF Neutral, Ahead, Bare
<1>4. Neutral(d, WithLedger(d)) /\ Neutral(d, Rebuilt(d))
  BY <1>0, WithLedgerFields, RebuiltFields DEF Neutral, Ahead, Bare
<1>5. \A there \in BOOLEAN : Neutral(d, Indexed(d, there))
  BY IndexedFields DEF Neutral, Ahead, Bare
<1>6. \A new \in SUBSET Edge : Neutral(d, WithLineage(d, new))
  BY WithLineageFields DEF Neutral, Ahead, Bare
<1>7. \A c \in Column : Neutral(d, WithColumn(d, c))
  BY WithColumnFields DEF Neutral, Ahead, Bare
<1>8. \A old, new \in Fact : Neutral(d, Superseded(d, old, new))
  BY SupersededFields DEF Neutral, Ahead, Bare
<1>. QED  BY <1>1, <1>2, <1>3, <1>4, <1>5, <1>6, <1>7, <1>8

LEMMA WithTablesStep ==
  ASSUME NEW d \in Database
  PROVE  Neutral(d, WithTables(d)) /\ WithTables(d).tables
<1>. DEFINE e == [d EXCEPT !.tables = TRUE, !.columns = Column]
<1>1. CASE d.tables
  BY <1>1, NeutralSteps DEF WithTables
<1>2. CASE ~ d.tables
  <2>1. /\ e \in Database /\ e.knowledge = d.knowledge /\ e.ledger = d.ledger
        /\ e.rows = d.rows /\ e.aside = d.aside /\ e.asideRows = d.asideRows
        /\ e.batches = d.batches /\ e.lineage = d.lineage /\ e.tables = TRUE
        /\ e.columns = Column /\ e.version = d.version
    BY Zenon DEF Database
  <2>2. d.columns \subseteq Column
    BY DEF Database
  <2>. HIDE DEF e
  <2>3. Neutral(d, e)
    BY <2>1, <2>2 DEF Neutral, Ahead, Bare
  <2>4. WithTables(d) = e
    BY <1>2, Zenon DEF WithTables, e
  <2>. QED  BY <2>1, <2>3, <2>4
<1>. QED  BY <1>1, <1>2

(* Where a step of p leads, and what it leaves to the others. *)
Locals(p) ==
  /\ pc' \in [Proc -> Place] /\ todo' \in [Proc -> SUBSET Column]
  /\ \A q \in Proc \ {p} : pc'[q] = pc[q] /\ todo'[q] = todo[q]
  /\ deaths' \in 0 .. MaxDeaths /\ torn' \in BOOLEAN /\ given' = given

LEMMA GoLocals ==
  ASSUME SchemaTypeOK, NEW p \in Proc, NEW from, NEW to
  PROVE  /\ to \in Place /\ Go(p, from, to) /\ Quiet => Locals(p) /\ made' = made
         /\ Refused(p, from) => Locals(p) /\ made' = made
<1>1. to \in Place /\ Go(p, from, to) /\ Quiet => Locals(p) /\ made' = made
  BY DEF Go, Quiet, Locals, SchemaTypeOK, history
<1>2. Refused(p, from) => Locals(p) /\ made' = made
  BY DEF Go, Refused, Locals, SchemaTypeOK, history, Place
<1>. QED  BY <1>1, <1>2

LEMMA StepLocals ==
  ASSUME SchemaTypeOK, NEW p \in Proc, Step(p)
  PROVE  Locals(p) /\ made' = made
<1>1. CASE CreateTables(p)
  BY <1>1, GoLocals DEF CreateTables, Read, Alter, Place
<1>2. CASE CheckScope(p)
  BY <1>2, GoLocals DEF CheckScope, Read, Alter, Place
<1>3. CASE AddScope(p)
  BY <1>3, GoLocals DEF AddScope, Read, Alter, Place
<1>4. CASE MarkScoped(p)
  BY <1>4, GoLocals DEF MarkScoped, Read, Alter, Place
<1>5. CASE CheckLedger(p)
  BY <1>5, GoLocals DEF CheckLedger, Read, Alter, Place
<1>6. CASE Rename(p)
  BY <1>6, GoLocals DEF Rename, Read, Alter, Place
<1>7. CASE CreateLedger(p)
  BY <1>7, GoLocals DEF CreateLedger, Read, Alter, Place
<1>8. CASE Copy(p)
  BY <1>8, GoLocals DEF Copy, Read, Alter, Place
<1>9. CASE Drop(p)
  BY <1>9, GoLocals DEF Drop, Read, Alter, Place
<1>10. CASE DropIndex(p)
  BY <1>10, GoLocals DEF DropIndex, Read, Alter, Place
<1>11. CASE MakeIndex(p)
  BY <1>11, GoLocals DEF MakeIndex, Read, Alter, Place
<1>12. CASE CheckReviews(p)
  BY <1>12, GoLocals DEF CheckReviews, Read, Alter, Place
<1>13. CASE Rebuild(p)
  BY <1>13, GoLocals DEF Rebuild, Read, Alter, Place
<1>14. CASE CheckLineage(p)
  BY <1>14, GoLocals DEF CheckLineage, Read, Alter, Place
<1>15. CASE Backfill(p)
  BY <1>15, GoLocals DEF Backfill, Read, Alter, Place
<1>16. CASE Keep(p)
  BY <1>16, GoLocals DEF Keep, Read, Alter, Place
<1>17. CASE CheckLoop(p)
  BY <1>17, GoLocals DEF CheckLoop, Read, Alter, Place
<1>18. CASE LoopTables(p)
  BY <1>18, GoLocals DEF LoopTables, Read, Alter, Place
<1>19. CASE CheckColumns(p)
  BY <1>19 DEF CheckColumns, Go, Locals, Missing, SchemaTypeOK, history, Place
<1>20. ASSUME NEW c \in Column, AddColumn(p, c) PROVE Locals(p) /\ made' = made
  BY <1>20, GoLocals DEF AddColumn, Locals, SchemaTypeOK, history
<1>21. CASE ColumnsDone(p) \/ SetVersion(p)
  BY <1>21, GoLocals DEF ColumnsDone, SetVersion, Read, Alter, Place
<1>. QED  BY <1>1, <1>2, <1>3, <1>4, <1>5, <1>6, <1>7, <1>8, <1>9, <1>10, <1>11, <1>12, <1>13, <1>14, <1>15, <1>16, <1>17, <1>18, <1>19, <1>20, <1>21 DEF Step

LEMMA UseLocals ==
  ASSUME SchemaTypeOK, NEW p \in Proc, Use(p)
  PROVE  Locals(p) /\ pc' = pc
  BY DEF Use, Import, Supersede, SchemaTypeOK, Locals, history

LEMMA DieLocals ==
  ASSUME SchemaTypeOK, NEW p \in Proc, Die(p)
  PROVE  Locals(p) /\ made' = made
  BY SchemaAssumption DEF Die, SchemaTypeOK, Place, history, Locals

(* The five forms that a plain step has. *)

LEMMA AlterPlain ==
  ASSUME SchemaTypeOK, NEW p \in Proc, NEW d, Neutral(View(p), d),
         Define(p, d), NEW to \in Place, pc'[p] = to, to # "drop", pc[p] # "drop",
         pc[p] \in InTransaction => to \in InTransaction,
         PlaceOK(to, d, todo'[p])
  PROVE  Plain(p)
<1>1. View(p)' = d /\ writer' = writer
  BY DEF Define, View
<1>2. writer' = p => to \in InTransaction
  BY <1>1, SchemaAssumption DEF SchemaTypeOK
<1>. QED  BY <1>1, <1>2 DEF Plain, Effect

LEMMA ModifyPlain ==
  ASSUME SchemaTypeOK, NEW p \in Proc, NEW d, Neutral(View(p), d),
         Modify(p, d), NEW to \in InTransaction, pc'[p] = to, to # "drop", pc[p] # "drop",
         PlaceOK(to, d, todo'[p])
  PROVE  Plain(p)
<1>1. View(p)' = d
  BY DEF Modify, View
<1>. QED  BY <1>1 DEF Plain, Effect

LEMMA ReadPlain ==
  ASSUME SchemaTypeOK, NEW p \in Proc, UNCHANGED stored,
         NEW to \in Place, pc'[p] = to, to # "drop", pc[p] # "drop",
         pc[p] \in InTransaction => to \in InTransaction,
         PlaceOK(to, View(p), todo'[p])
  PROVE  Plain(p)
<1>1. View(p)' = View(p) /\ writer' = writer
  BY DEF stored, View
<1>2. writer' = p => to \in InTransaction
  BY <1>1, SchemaAssumption DEF SchemaTypeOK
<1>. QED  BY <1>1, <1>2 DEF Plain, Effect

LEMMA CommitPlain ==
  ASSUME SchemaTypeOK, NEW p \in Proc, Commit(p),
         NEW to \in Place, pc'[p] = to, to # "drop", pc[p] # "drop",
         PlaceOK(to, View(p), todo'[p])
  PROVE  Plain(p)
<1>1. View(p)' = View(p) /\ writer' # p
  BY SchemaAssumption DEF Commit, stored, View
<1>. QED  BY <1>1 DEF Plain, Effect

LEMMA RollbackPlain ==
  ASSUME SchemaTypeOK, NEW p \in Proc, Rollback(p), pc'[p] = "start"
  PROVE  Plain(p)
<1>1. writer' # p
  BY SchemaAssumption DEF Rollback
<1>2. PlaceOK("start", View(p)', todo'[p])
  BY DEF PlaceOK
<1>. QED  BY <1>1, <1>2 DEF Plain, Effect

LEMMA RefusedPlain ==
  ASSUME SchemaTypeOK, NEW p \in Proc, NEW from, Refused(p, from)
  PROVE  Plain(p)
  BY RollbackPlain DEF Refused, Go, SchemaTypeOK

LEMMA BackfilledEdges ==
  ASSUME NEW d \in Database
  PROVE  Backfilled(d) \in SUBSET Edge
<1>. SUFFICES ASSUME NEW x \in Pointers(d)
              PROVE  [old |-> x[2], new |-> x[1],
                      status |-> Status(x[1], x[2], Pointers(d))] \in Edge
  BY Zenon DEF Backfilled
<1>1. x[1] \in Fact /\ x[2] \in Fact
  BY DEF Pointers, Database
<1>2. Status(x[1], x[2], Pointers(d)) \in {"active", "legacy_conflict", "own"}
  BY DEF Status
<1>. QED  BY <1>1, <1>2, Zenon DEF Edge

(* Every step of an opening but three is plain. *)
LEMMA StepPlain ==
  ASSUME SchemaTypeOK, PlaceInv, NEW p \in Proc, Step(p)
  PROVE  Plain(p) \/ Rename(p) \/ Copy(p) \/ Drop(p)
<1>. DEFINE v == View(p)
<1>1. /\ v \in Database /\ Neutral(v, v) /\ PlaceOK(pc[p], v, todo[p])
      /\ pc[p] \notin InTransaction => v = db
  BY ViewType, NeutralSteps DEF PlaceInv
<1>2. /\ v.knowledge \in Format /\ v.batches \in Format /\ v.ledger \in Format
      /\ v.columns \subseteq Column
  BY <1>1 DEF Database
<1>3. pc \in [Proc -> Place] /\ todo \in [Proc -> SUBSET Column]
  BY DEF SchemaTypeOK
<1>. HIDE DEF v
<1>4. v = View(p)
  BY DEF v
<1>5. CASE CreateTables(p)
  <2>1. /\ Go(p, "start", "scope") /\ Define(p, Script(v)) /\ Quiet
    BY <1>1, <1>5 DEF CreateTables, Alter, Go, InTransaction
  <2>2. PlaceOK("scope", Script(v), todo'[p])
    BY <1>1, <1>2, ScriptFields, CreatedFormat DEF PlaceOK
  <2>. QED  BY <1>1, <1>3, <1>4, <2>1, <2>2, NeutralSteps, AlterPlain DEF Go, Place, InTransaction
<1>6. CASE CheckScope(p)
  <2>. DEFINE to == IF v.knowledge = "new" THEN "ledger" ELSE "addScope"
  <2>1. Go(p, "scope", to) /\ UNCHANGED stored /\ Quiet
    BY <1>4, <1>6 DEF CheckScope, Read
  <2>2. PlaceOK(to, v, todo'[p])
    BY <1>1, <2>1 DEF PlaceOK, Go
  <2>. QED  BY <1>1, <1>3, <1>4, <2>1, <2>2, ReadPlain DEF Go, Place, InTransaction
<1>7. CASE AddScope(p)
  <2>1. CASE Refused(p, "addScope")
    BY <2>1, RefusedPlain
  <2>2. CASE ~ Refused(p, "addScope")
    <3>1. Go(p, "addScope", "markScoped") /\ Define(p, WithScope(v)) /\ Quiet
      BY <1>1, <1>7, <2>2 DEF AddScope, Alter, Go, InTransaction
    <3>2. PlaceOK("markScoped", WithScope(v), todo'[p])
      BY <1>1, <3>1, WithScopeFields DEF PlaceOK, Go
    <3>. QED  BY <1>1, <1>3, <1>4, <3>1, <3>2, NeutralSteps, AlterPlain DEF Go, Place, InTransaction
  <2>. QED  BY <2>1, <2>2
<1>8. CASE MarkScoped(p)
  <2>1. Go(p, "markScoped", "ledger") /\ Modify(p, Scoped(v)) /\ Quiet
    BY <1>1, <1>8 DEF MarkScoped, Go, InTransaction
  <2>2. PlaceOK("ledger", Scoped(v), todo'[p])
    BY <1>1, <2>1, ScopedFields DEF PlaceOK, Go
  <2>. QED  BY <1>1, <1>3, <1>4, <2>1, <2>2, NeutralSteps, ModifyPlain DEF Go, InTransaction
<1>9. CASE CheckLedger(p)
  <2>. DEFINE to == IF v.ledger = "new" THEN "dropIndex" ELSE "rename"
  <2>1. Go(p, "ledger", to) /\ UNCHANGED stored /\ Quiet
    BY <1>4, <1>9 DEF CheckLedger, Read
  <2>2. PlaceOK(to, v, todo'[p])
    BY <1>1, <2>1 DEF PlaceOK, Go
  <2>. QED  BY <1>1, <1>3, <1>4, <2>1, <2>2, ReadPlain DEF Go, Place, InTransaction
<1>10. CASE CreateLedger(p)
  <2>1. CASE Refused(p, "create")
    BY <2>1, RefusedPlain
  <2>2. CASE ~ Refused(p, "create")
    <3>1. Go(p, "create", "copy") /\ Define(p, WithLedger(v)) /\ Quiet
      BY <1>4, <1>10, <2>2 DEF CreateLedger, Alter
    <3>2. PlaceOK("copy", WithLedger(v), todo'[p])
      BY <1>1, <3>1, WithLedgerFields DEF PlaceOK, Go
    <3>. QED  BY <1>1, <1>3, <1>4, <3>1, <3>2, NeutralSteps, AlterPlain DEF Go, Place, InTransaction
  <2>. QED  BY <2>1, <2>2
<1>11. CASE DropIndex(p)
  <2>1. Go(p, "dropIndex", "makeIndex") /\ Define(p, Indexed(v, FALSE)) /\ Quiet
    BY <1>4, <1>11 DEF DropIndex, Alter
  <2>2. PlaceOK("makeIndex", Indexed(v, FALSE), todo'[p])
    BY <1>1, <2>1, IndexedFields DEF PlaceOK, Go
  <2>. QED  BY <1>1, <1>3, <1>4, <2>1, <2>2, NeutralSteps, AlterPlain DEF Go, Place, InTransaction
<1>12. CASE MakeIndex(p)
  <2>1. CASE Refused(p, "makeIndex")
    BY <2>1, RefusedPlain
  <2>2. CASE ~ Refused(p, "makeIndex")
    <3>1. Go(p, "makeIndex", "review") /\ Define(p, Indexed(v, TRUE)) /\ Quiet
      BY <1>4, <1>12, <2>2 DEF MakeIndex, Alter
    <3>2. PlaceOK("review", Indexed(v, TRUE), todo'[p])
      BY <1>1, <3>1, IndexedFields DEF PlaceOK, Go
    <3>. QED  BY <1>1, <1>3, <1>4, <3>1, <3>2, NeutralSteps, AlterPlain DEF Go, Place, InTransaction
  <2>. QED  BY <2>1, <2>2
<1>13. CASE CheckReviews(p)
  <2>1. CASE v.batches = "old"
    <3>1. Go(p, "review", "rebuild") /\ Commit(p) /\ Quiet
      BY <1>4, <1>13, <2>1 DEF CheckReviews
    <3>2. PlaceOK("rebuild", v, todo'[p])
      BY <1>1, <3>1 DEF PlaceOK, Go
    <3>. QED  BY <1>3, <1>4, <3>1, <3>2, CommitPlain DEF Go, Place
  <2>2. CASE v.batches # "old"
    <3>1. Go(p, "review", "commit") /\ UNCHANGED stored /\ Quiet
      BY <1>4, <1>13, <2>2 DEF CheckReviews
    <3>2. PlaceOK("commit", v, todo'[p])
      BY <1>1, <1>2, <2>2, <3>1 DEF PlaceOK, Go, Format
    <3>. QED  BY <1>3, <1>4, <3>1, <3>2, ReadPlain DEF Go, Place, InTransaction
  <2>. QED  BY <2>1, <2>2
<1>14. CASE Rebuild(p)
  <2>1. Go(p, "rebuild", "commit") /\ Define(p, Rebuilt(v)) /\ Quiet
    BY <1>1, <1>14 DEF Rebuild, Alter, Go, InTransaction
  <2>2. PlaceOK("commit", Rebuilt(v), todo'[p])
    BY <1>1, <2>1, RebuiltFields DEF PlaceOK, Go
  <2>. QED  BY <1>1, <1>3, <1>4, <2>1, <2>2, NeutralSteps, AlterPlain DEF Go, Place, InTransaction
<1>15. CASE CheckLineage(p)
  <2>. DEFINE to == IF v.lineage THEN "keep" ELSE "backfill"
  <2>1. Go(p, "commit", to) /\ Commit(p) /\ Quiet
    BY <1>4, <1>15 DEF CheckLineage
  <2>2. PlaceOK(to, v, todo'[p])
    BY <1>1, <2>1 DEF PlaceOK, Go
  <2>. QED  BY <1>3, <1>4, <2>1, <2>2, CommitPlain DEF Go, Place
<1>16. CASE Backfill(p)
  <2>1. CASE Refused(p, "backfill")
    BY <2>1, RefusedPlain
  <2>2. CASE ~ Refused(p, "backfill")
    <3>1. Go(p, "backfill", "loop") /\ Define(p, WithLineage(v, Backfilled(v))) /\ Quiet
      BY <1>1, <1>16, <2>2 DEF Backfill, Alter, Go, InTransaction
    <3>2. PlaceOK("loop", WithLineage(v, Backfilled(v)), todo'[p])
      BY <1>1, <3>1, WithLineageFields, BackfilledEdges DEF PlaceOK, Go
    <3>. QED  BY <1>1, <1>3, <1>4, <3>1, <3>2, NeutralSteps, BackfilledEdges, AlterPlain DEF Go, Place, InTransaction
  <2>. QED  BY <2>1, <2>2
<1>17. CASE Keep(p)
  <2>1. Go(p, "keep", "loop") /\ Define(p, v) /\ Quiet
    BY <1>1, <1>17 DEF Keep, Alter, Go, InTransaction
  <2>2. PlaceOK("loop", v, todo'[p])
    BY <1>1, <2>1 DEF PlaceOK, Go
  <2>. QED  BY <1>1, <1>3, <1>4, <2>1, <2>2, AlterPlain DEF Go, Place, InTransaction
<1>18. CASE CheckLoop(p)
  <2>. DEFINE to == IF Migrated(v) THEN "ready" ELSE "tables"
  <2>1. Go(p, "loop", to) /\ UNCHANGED stored /\ Quiet
    BY <1>1, <1>18 DEF CheckLoop, Read, Go, InTransaction
  <2>2. PlaceOK(to, v, todo'[p])
    BY <1>1, <2>1 DEF PlaceOK, Go, Migrated, Missing
  <2>. QED  BY <1>1, <1>3, <1>4, <2>1, <2>2, ReadPlain DEF Go, Place, InTransaction
<1>19. CASE LoopTables(p)
  <2>1. Go(p, "tables", "columns") /\ Define(p, WithTables(v)) /\ Quiet
    BY <1>1, <1>19 DEF LoopTables, Alter, Go, InTransaction
  <2>2. Neutral(v, WithTables(v)) /\ WithTables(v).tables
    BY <1>1, WithTablesStep
  <2>3. PlaceOK("columns", WithTables(v), todo'[p])
    BY <1>1, <2>1, <2>2 DEF PlaceOK, Go, Neutral, Ahead
  <2>. QED  BY <1>1, <1>3, <1>4, <2>1, <2>2, <2>3, AlterPlain DEF Go, Place, InTransaction
<1>20. CASE CheckColumns(p)
  <2>1. Go(p, "columns", "alter") /\ UNCHANGED stored /\ todo'[p] = Missing(v)
    BY <1>1, <1>3, <1>20 DEF CheckColumns, Go, InTransaction
  <2>2. PlaceOK("alter", v, todo'[p])
    BY <1>1, <2>1 DEF PlaceOK, Go, Missing
  <2>. QED  BY <1>1, <1>3, <1>4, <2>1, <2>2, ReadPlain DEF Go, Place, InTransaction
<1>21. ASSUME NEW c \in Column, AddColumn(p, c) PROVE Plain(p)
  <2>1. CASE Refused(p, "alter")
    BY <2>1, RefusedPlain
  <2>2. CASE ~ Refused(p, "alter")
    <3>1. /\ pc[p] = "alter" /\ pc' = pc /\ Define(p, WithColumn(v, c))
          /\ todo'[p] = todo[p] \ {c}
      BY <1>1, <1>3, <1>21, <2>2 DEF AddColumn, InTransaction
    <3>2. PlaceOK("alter", WithColumn(v, c), todo'[p])
      BY <1>1, <3>1, WithColumnFields DEF PlaceOK
    <3>. QED  BY <1>1, <1>4, <3>1, <3>2, NeutralSteps, AlterPlain DEF Place, InTransaction
  <2>. QED  BY <2>1, <2>2
<1>22. CASE ColumnsDone(p)
  <2>1. Go(p, "alter", "version") /\ UNCHANGED stored /\ Quiet /\ todo[p] = {}
    BY <1>22 DEF ColumnsDone, Read
  <2>2. PlaceOK("version", v, todo'[p])
    BY <1>1, <2>1 DEF PlaceOK, Go
  <2>. QED  BY <1>1, <1>3, <1>4, <2>1, <2>2, ReadPlain DEF Go, Place, InTransaction
<1>23. CASE SetVersion(p)
  <2>1. Go(p, "version", "ready") /\ Define(p, AtVersion(v)) /\ Quiet
    BY <1>1, <1>23 DEF SetVersion, Alter, Go, InTransaction
  <2>2. PlaceOK("ready", AtVersion(v), todo'[p])
    BY <1>1, <2>1, AtVersionFields DEF PlaceOK, Go
  <2>. QED  BY <1>1, <1>3, <1>4, <2>1, <2>2, NeutralSteps, AlterPlain DEF Go, Place, InTransaction
<1>. QED  BY <1>5, <1>6, <1>7, <1>8, <1>9, <1>10, <1>11, <1>12, <1>13, <1>14, <1>15, <1>16, <1>17, <1>18, <1>19, <1>20, <1>21, <1>22, <1>23 DEF Step
-----------------------------------------------------------------------------
(* What every step does to the database *)

Moves(p) ==
  \/ UNCHANGED stored
  \/ \E d \in Database : Ahead(View(p), d) /\ (Define(p, d) \/ Modify(p, d))
  \/ Commit(p)
  \/ Rollback(p)

(* A step that moves the database, leads p to where it finds what it should, *)
(* and ends no transaction of another process.                               *)
Proper(p) ==
  /\ Moves(p)
  /\ writer' = p => pc'[p] \in InTransaction
  /\ PlaceOK(pc'[p], View(p)', todo'[p])

LEMMA MovesStored ==
  ASSUME SchemaTypeOK, DraftAhead, NEW p \in Proc, Moves(p)
  PROVE  /\ db' \in Database /\ draft' \in Database \cup {NoDraft}
         /\ writer' \in {writer, p, NoProc} /\ (draft' = NoDraft <=> writer' = NoProc)
         /\ DraftAhead' /\ Ahead(db, db')
         /\ \A q \in Proc \ {p} : Ahead(View(q), View(q)')
<1>1. /\ db \in Database /\ View(p) \in Database
      /\ draft \in Database \cup {NoDraft} /\ (draft = NoDraft <=> writer = NoProc)
      /\ p # NoProc /\ NoDraft \notin Database
  BY ViewType, SchemaAssumption DEF SchemaTypeOK
<1>2. \A q \in Proc \ {p} : writer = p => View(q) = db
  BY SchemaAssumption DEF View
<1>3. CASE UNCHANGED stored
  <2>1. \A q \in Proc \ {p} : View(q)' = View(q)
    BY <1>3 DEF stored, View
  <2>. QED  BY <1>1, <1>3, <2>1, AheadRefl DEF stored, DraftAhead
<1>4. ASSUME NEW d \in Database, Ahead(View(p), d), Define(p, d)
      PROVE  /\ db' \in Database /\ draft' \in Database \cup {NoDraft}
             /\ writer' = writer /\ (draft' = NoDraft <=> writer' = NoProc)
             /\ DraftAhead' /\ Ahead(db, db')
             /\ \A q \in Proc \ {p} : Ahead(View(q), View(q)')
  <2>1. CASE writer = p
    <3>1. db' = db /\ draft' = d /\ writer' = writer /\ View(p) = draft
      BY <1>4, <2>1 DEF Define, View
    <3>2. Ahead(db, d)
      BY <1>1, <1>4, <2>1, <3>1, AheadTrans DEF DraftAhead
    <3>3. \A q \in Proc \ {p} : View(q)' = View(q)
      BY <2>1, <3>1 DEF View
    <3>. QED  BY <1>1, <2>1, <3>1, <3>2, <3>3, AheadRefl DEF DraftAhead
  <2>2. CASE writer # p
    <3>1. db' = d /\ draft' = draft /\ writer' = writer /\ writer = NoProc /\ View(p) = db
      BY <1>4, <2>2 DEF Define, MayWrite, View
    <3>2. \A q \in Proc \ {p} : View(q) = db /\ View(q)' = d
      BY <3>1, SchemaAssumption DEF View
    <3>. QED  BY <1>1, <1>4, <3>1, <3>2 DEF DraftAhead
  <2>. QED  BY <2>1, <2>2
<1>5. ASSUME NEW d \in Database, Ahead(View(p), d), Modify(p, d)
      PROVE  /\ db' = db /\ draft' \in Database \cup {NoDraft}
             /\ writer' = p /\ (draft' = NoDraft <=> writer' = NoProc)
             /\ DraftAhead' /\ Ahead(db, db')
             /\ \A q \in Proc \ {p} : Ahead(View(q), View(q)')
  <2>1. db' = db /\ draft' = d /\ writer' = p /\ writer \in {NoProc, p}
    BY <1>5 DEF Modify, MayWrite
  <2>2. Ahead(db, d)
    BY <1>1, <1>5, AheadTrans DEF View, DraftAhead
  <2>3. \A q \in Proc \ {p} : View(q) = db /\ View(q)' = db
    BY <2>1, SchemaAssumption DEF View
  <2>. QED  BY <1>1, <2>1, <2>2, <2>3, AheadRefl DEF DraftAhead
<1>6. CASE Commit(p)
  <2>1. CASE writer = p
    <3>1. db' = draft /\ writer' = NoProc /\ draft' = NoDraft
      BY <1>6, <2>1 DEF Commit
    <3>2. Ahead(db, draft)
      BY <1>1, <2>1 DEF DraftAhead
    <3>3. \A q \in Proc \ {p} : View(q) = db /\ View(q)' = draft
      BY <2>1, <3>1, SchemaAssumption DEF View
    <3>. QED  BY <1>1, <2>1, <3>1, <3>2, <3>3 DEF DraftAhead
  <2>2. CASE writer # p
    BY <1>3, <1>6, <2>2 DEF Commit
  <2>. QED  BY <2>1, <2>2
<1>7. CASE Rollback(p)
  <2>1. \A q \in Proc \ {p} : View(q)' = View(q)
    BY <1>7, SchemaAssumption DEF Rollback, View
  <2>. QED  BY <1>1, <1>7, <2>1, AheadRefl DEF Rollback, DraftAhead
<1>. QED  BY <1>1, <1>3, <1>4, <1>5, <1>6, <1>7 DEF Moves

LEMMA ProperStep ==
  ASSUME SchemaTypeOK, DraftAhead, PlaceInv, NEW p \in Proc, Locals(p), made' \subseteq Row,
         Proper(p)
  PROVE  SchemaTypeOK' /\ DraftAhead' /\ PlaceInv' /\ Ahead(db, db')
<1>1. /\ db' \in Database /\ draft' \in Database \cup {NoDraft}
      /\ writer' \in {writer, p, NoProc} /\ (draft' = NoDraft <=> writer' = NoProc)
      /\ DraftAhead' /\ Ahead(db, db')
      /\ \A q \in Proc \ {p} : Ahead(View(q), View(q)')
  BY MovesStored DEF Proper
<1>2. writer' # NoProc => pc'[writer'] \in InTransaction
  BY <1>1 DEF Proper, Locals, SchemaTypeOK
<1>3. SchemaTypeOK'
  BY <1>1, <1>2 DEF SchemaTypeOK, Locals
<1>4. ASSUME NEW q \in Proc PROVE PlaceOK(pc'[q], View(q)', todo'[q])
  <2>1. CASE q = p
    BY <2>1 DEF Proper
  <2>2. CASE q # p
    <3>1. PlaceOK(pc[q], View(q), todo[q]) /\ pc'[q] = pc[q] /\ todo'[q] = todo[q]
      BY <2>2 DEF PlaceInv, Locals
    <3>2. Ahead(View(q), View(q)')
      BY <1>1, <2>2
    <3>. QED  BY <3>1, <3>2, PlaceStays
  <2>. QED  BY <2>1, <2>2
<1>5. PlaceInv'
  BY <1>4 DEF PlaceInv
<1>. QED  BY <1>1, <1>3, <1>5

LEMMA PlainProper ==
  ASSUME NEW p \in Proc, Plain(p)
  PROVE  Proper(p)
  BY DEF Plain, Effect, Neutral, Proper, Moves

(* A plain step keeps the receipts where they are. *)
LEMMA PlainReceipts ==
  ASSUME SchemaTypeOK, ReceiptInv, NEW p \in Proc, Locals(p), made' = made, Plain(p)
  PROVE  ReceiptInv'
<1>1. /\ p # NoProc /\ pc'[p] # "drop" /\ given' = given /\ made' = made
      /\ \A q \in Proc \ {p} : pc'[q] = pc[q]
      /\ writer \in Proc \cup {NoProc}
  BY SchemaAssumption DEF Plain, Locals, SchemaTypeOK
<1>2. CASE Rollback(p)
  <2>1. db' = db
    BY <1>2 DEF Rollback
  <2>2. CASE writer = p
    <3>1. writer' = NoProc
      BY <1>2, <2>2 DEF Rollback
    <3>. QED  BY <1>1, <2>1, <2>2, <3>1 DEF ReceiptInv, Kept, Bare
  <2>3. CASE writer # p
    <3>1. writer' = writer /\ draft' = draft
      BY <1>2, <2>3 DEF Rollback
    <3>. QED  BY <1>1, <2>1, <2>3, <3>1 DEF ReceiptInv, Kept, Bare, Twice
  <2>. QED  BY <2>2, <2>3
<1>3. CASE pc[p] # "drop"
  <2>1. Bare(View(p)) /\ Kept(View(p))
    BY <1>1, <1>3 DEF View, ReceiptInv
  <2>2. \A d : Neutral(View(p), d) => Bare(d) /\ Kept(d)
    BY <2>1 DEF Neutral, Kept
  <2>3. CASE UNCHANGED stored
    BY <1>1, <1>3, <2>3 DEF stored, ReceiptInv, Kept, Bare, Twice
  <2>4. ASSUME NEW d, Neutral(View(p), d), Define(p, d) PROVE ReceiptInv'
    <3>1. Bare(d) /\ Kept(d)
      BY <2>2, <2>4
    <3>2. CASE writer = p
      <4>1. db' = db /\ draft' = d /\ writer' = p
        BY <2>4, <3>2 DEF Define
      <4>. QED  BY <1>1, <1>3, <3>1, <3>2, <4>1 DEF ReceiptInv, Kept, Bare
    <3>3. CASE writer # p
      <4>1. db' = d /\ writer' = NoProc /\ writer = NoProc
        BY <2>4, <3>3 DEF Define, MayWrite
      <4>. QED  BY <1>1, <3>1, <4>1, SchemaAssumption DEF ReceiptInv, Kept, Bare
    <3>. QED  BY <3>2, <3>3
  <2>5. ASSUME NEW d, Neutral(View(p), d), Modify(p, d) PROVE ReceiptInv'
    <3>1. Bare(d) /\ Kept(d)
      BY <2>2, <2>5
    <3>2. db' = db /\ draft' = d /\ writer' = p /\ writer \in {NoProc, p}
      BY <2>5 DEF Modify, MayWrite
    <3>. QED  BY <1>1, <3>1, <3>2, SchemaAssumption DEF ReceiptInv, Kept, Bare
  <2>6. CASE Commit(p)
    <3>1. CASE writer = p
      <4>1. db' = draft /\ writer' = NoProc /\ View(p) = draft
        BY <2>6, <3>1 DEF Commit, View
      <4>. QED  BY <1>1, <2>1, <3>1, <4>1 DEF ReceiptInv, Kept, Bare
    <3>2. CASE writer # p
      BY <2>3, <2>6, <3>2 DEF Commit
    <3>. QED  BY <3>1, <3>2
  <2>. QED  BY <1>2, <2>3, <2>4, <2>5, <2>6 DEF Plain, Effect
<1>. QED  BY <1>2, <1>3 DEF Plain
-----------------------------------------------------------------------------
(* The steps that move receipts *)

LEMMA ViewReceipts ==
  ASSUME ReceiptInv, NEW p \in Proc, pc[p] # "drop"
  PROVE  Bare(View(p)) /\ Kept(View(p))
  BY SchemaAssumption DEF View, ReceiptInv

(* d is the database that p leaves. *)
LEMMA MoveProper ==
  ASSUME SchemaTypeOK, NEW p \in Proc, NEW d \in Database, Ahead(View(p), d),
         Define(p, d) \/ Modify(p, d), writer' = p => pc'[p] \in InTransaction,
         PlaceOK(pc'[p], d, todo'[p])
  PROVE  Proper(p)
<1>1. View(p)' = d
  BY DEF Define, Modify, View
<1>. QED  BY <1>1 DEF Proper, Moves

LEMMA MoveReceipts ==
  ASSUME SchemaTypeOK, ReceiptInv, NEW p \in Proc, Locals(p), made' = made,
         NEW d, Bare(d), Kept(d), Define(p, d), pc'[p] # "drop", pc[p] = "drop" => writer = p
  PROVE  ReceiptInv'
<1>1. /\ p # NoProc /\ writer \in Proc \cup {NoProc} /\ given' = given
      /\ \A q \in Proc \ {p} : pc'[q] = pc[q]
  BY SchemaAssumption DEF SchemaTypeOK, Locals
<1>2. CASE writer = p
  <2>1. db' = db /\ draft' = d /\ writer' = p
    BY <1>2 DEF Define
  <2>. QED  BY <1>1, <1>2, <2>1 DEF ReceiptInv, Kept, Bare
<1>3. CASE writer # p
  <2>1. db' = d /\ writer' = NoProc /\ writer = NoProc
    BY <1>3 DEF Define, MayWrite
  <2>. QED  BY <1>1, <2>1, SchemaAssumption DEF ReceiptInv, Kept, Bare
<1>. QED  BY <1>2, <1>3

LEMMA RenameStep ==
  ASSUME SchemaTypeOK, PlaceInv, ReceiptInv, NEW p \in Proc, Locals(p), made' = made, Rename(p),
         ~ Refused(p, "rename")
  PROVE  Proper(p) /\ ReceiptInv'
<1>. DEFINE v == View(p)
           e == Renamed(v)
<1>1. /\ pc[p] = "rename" /\ pc'[p] = "create" /\ Define(p, e) /\ todo' = todo
      /\ v.ledger # "absent" /\ v.aside = "absent"
  BY DEF Rename, Alter, Go, Quiet, SchemaTypeOK
<1>2. v \in Database /\ PlaceOK("rename", v, todo[p]) /\ Bare(v) /\ Kept(v)
  BY <1>1, ViewType, ViewReceipts DEF PlaceInv
<1>. HIDE DEF v
<1>3. /\ e \in Database /\ e.knowledge = v.knowledge /\ e.ledger = "absent" /\ e.rows = {}
      /\ e.aside = v.ledger /\ e.asideRows = v.rows /\ e.batches = v.batches
      /\ e.lineage = v.lineage /\ e.tables = v.tables /\ e.columns = v.columns
      /\ e.version = v.version
  BY <1>2, RenamedFields
<1>. HIDE DEF e
<1>4. Ahead(v, e) /\ PlaceOK("create", e, todo'[p]) /\ Bare(e) /\ Kept(e)
  BY <1>1, <1>2, <1>3 DEF Ahead, PlaceOK, Bare, Kept
<1>5. Proper(p)
  BY <1>1, <1>3, <1>4, MoveProper DEF InTransaction, v
<1>6. ReceiptInv'
  BY <1>1, <1>4, MoveReceipts
<1>. QED  BY <1>5, <1>6

LEMMA CopyStep ==
  ASSUME SchemaTypeOK, PlaceInv, ReceiptInv, NEW p \in Proc, Locals(p), made' = made, Copy(p),
         ~ Refused(p, "copy")
  PROVE  Proper(p) /\ ReceiptInv'
<1>. DEFINE v == View(p)
           e == Copied(v)
<1>1. /\ pc[p] = "copy" /\ pc'[p] = "drop" /\ Modify(p, e) /\ todo' = todo
      /\ v.ledger # "absent"
  BY DEF Copy, Go, Quiet, SchemaTypeOK
<1>2. v \in Database /\ PlaceOK("copy", v, todo[p]) /\ Bare(v) /\ Kept(v)
  BY <1>1, ViewType, ViewReceipts DEF PlaceInv
<1>. HIDE DEF v
<1>3. /\ e \in Database /\ e.knowledge = v.knowledge /\ e.ledger = v.ledger
      /\ e.rows = v.rows \cup v.asideRows /\ e.aside = v.aside /\ e.asideRows = v.asideRows
      /\ e.batches = v.batches /\ e.lineage = v.lineage /\ e.tables = v.tables
      /\ e.columns = v.columns /\ e.version = v.version
  BY <1>2, CopiedFields
<1>4. v.ledger = "new"
  BY <1>1, <1>2 DEF PlaceOK, Database, Format
<1>. HIDE DEF e
<1>5. Ahead(v, e) /\ PlaceOK("drop", e, todo'[p]) /\ Bare(e) /\ Twice(e)
  BY <1>1, <1>2, <1>3, <1>4 DEF Ahead, PlaceOK, Bare, Kept, Twice
<1>6. Proper(p)
  BY <1>1, <1>3, <1>5, MoveProper DEF InTransaction, v
<1>7. ReceiptInv'
  <2>1. /\ db' = db /\ draft' = e /\ writer' = p /\ writer \in {NoProc, p} /\ p # NoProc
        /\ given' = given /\ \A q \in Proc \ {p} : pc'[q] = pc[q]
    BY <1>1, SchemaAssumption DEF Modify, MayWrite, Locals
  <2>2. \A q \in Proc : pc'[q] = "drop" => writer' = q
    BY <2>1, SchemaAssumption DEF ReceiptInv
  <2>. QED  BY <1>1, <1>5, <2>1, <2>2 DEF ReceiptInv, Kept, Bare, Twice
<1>. QED  BY <1>6, <1>7

LEMMA DropStep ==
  ASSUME SchemaTypeOK, PlaceInv, ReceiptInv, NEW p \in Proc, Locals(p), made' = made, Drop(p)
  PROVE  Proper(p) /\ ReceiptInv'
<1>. DEFINE v == View(p)
           e == Dropped(v)
<1>1. pc[p] = "drop" /\ pc'[p] = "dropIndex" /\ Define(p, e) /\ todo' = todo
  BY DEF Drop, Alter, Go, Quiet, SchemaTypeOK
<1>2. /\ v \in Database /\ PlaceOK("drop", v, todo[p]) /\ writer = p
      /\ Bare(v) /\ Twice(v)
  BY <1>1, ViewType, SchemaAssumption DEF PlaceInv, ReceiptInv, View
<1>. HIDE DEF v
<1>3. /\ e \in Database /\ e.knowledge = v.knowledge /\ e.ledger = v.ledger
      /\ e.rows = v.rows /\ e.aside = "absent" /\ e.asideRows = {}
      /\ e.batches = v.batches /\ e.lineage = v.lineage /\ e.tables = v.tables
      /\ e.columns = v.columns /\ e.version = v.version
  BY <1>2, DroppedFields
<1>. HIDE DEF e
<1>4. Ahead(v, e) /\ PlaceOK("dropIndex", e, todo'[p]) /\ Bare(e) /\ Kept(e)
  BY <1>1, <1>2, <1>3 DEF Ahead, PlaceOK, Bare, Kept, Twice
<1>5. Proper(p)
  BY <1>1, <1>3, <1>4, MoveProper DEF InTransaction, v
<1>6. ReceiptInv'
  BY <1>1, <1>2, <1>4, MoveReceipts
<1>. QED  BY <1>5, <1>6

LEMMA ImportStep ==
  ASSUME SchemaTypeOK, PlaceInv, ReceiptInv, NEW p \in Proc, Locals(p), NEW r \in Row, Import(p, r)
  PROVE  Proper(p) /\ ReceiptInv' /\ made' \subseteq Row
<1>. DEFINE e == Receipted(db, r)
<1>1. /\ pc[p] = "ready" /\ pc' = pc /\ todo' = todo /\ Define(p, e) /\ db.ledger = "new"
      /\ r \notin given.rows \cup made /\ made' = made \cup {r} /\ given' = given
  BY DEF Import
<1>2. /\ View(p) = db /\ db \in Database /\ PlaceOK("ready", db, todo[p]) /\ Bare(db) /\ Kept(db)
      /\ writer # p /\ p # NoProc
  BY <1>1, ViewType, SchemaAssumption DEF PlaceInv, ReceiptInv, InTransaction, SchemaTypeOK
<1>3. /\ e \in Database /\ e.knowledge = db.knowledge /\ e.ledger = db.ledger
      /\ e.rows = db.rows \cup {r} /\ e.aside = db.aside /\ e.asideRows = db.asideRows
      /\ e.batches = db.batches /\ e.lineage = db.lineage /\ e.tables = db.tables
      /\ e.columns = db.columns /\ e.version = db.version
  BY <1>2, ReceiptedFields
<1>. HIDE DEF e
<1>4. Ahead(db, e) /\ PlaceOK("ready", e, todo'[p])
  BY <1>1, <1>2, <1>3 DEF Ahead, PlaceOK
<1>5. db' = e /\ writer' = NoProc /\ writer = NoProc
  BY <1>1, <1>2 DEF Define, MayWrite
<1>6. Proper(p)
  BY <1>1, <1>2, <1>3, <1>4, <1>5, MoveProper
<1>7. ReceiptInv'
  BY <1>1, <1>2, <1>3, <1>5 DEF ReceiptInv, Kept, Bare
<1>. QED  BY <1>1, <1>6, <1>7 DEF SchemaTypeOK

LEMMA SupersedePlain ==
  ASSUME SchemaTypeOK, PlaceInv, NEW p \in Proc, NEW old \in Fact, NEW new \in Fact,
         Supersede(p, old, new)
  PROVE  Plain(p) /\ made' = made
<1>. DEFINE e == Superseded(db, old, new)
<1>1. pc[p] = "ready" /\ pc' = pc /\ todo' = todo /\ Define(p, e) /\ made' = made
  BY DEF Supersede, history
<1>2. View(p) = db /\ db \in Database /\ PlaceOK("ready", db, todo[p])
  BY <1>1, ViewType DEF PlaceInv, InTransaction, SchemaTypeOK
<1>3. Neutral(db, e)
  BY <1>2, NeutralSteps
<1>. HIDE DEF e
<1>4. PlaceOK("ready", e, todo'[p])
  BY <1>1, <1>2, <1>3, PlaceStays DEF Neutral
<1>5. "ready" \in Place /\ "ready" \notin InTransaction
  BY DEF Place, InTransaction
<1>. QED  BY <1>1, <1>2, <1>3, <1>4, <1>5, AlterPlain

LEMMA DiePlain ==
  ASSUME SchemaTypeOK, NEW p \in Proc, Die(p)
  PROVE  Plain(p)
  BY RollbackPlain DEF Die, SchemaTypeOK
-----------------------------------------------------------------------------
(* The invariant *)

LEMMA SchemaStart == Init => SchemaInv
<1>. SUFFICES ASSUME Init PROVE SchemaInv
  OBVIOUS
<1>1. /\ given = db /\ writer = NoProc /\ draft = NoDraft
      /\ pc = [p \in Proc |-> "start"] /\ todo = [p \in Proc |-> {}]
      /\ deaths = 0 /\ made = {} /\ torn = FALSE
  BY DEF Init
<1>2. /\ db \in Database /\ db.aside = "absent" /\ db.asideRows = {}
      /\ db.ledger = "absent" => db.rows = {}
  <2>1. db \in Stores
    BY DEF Init
  <2>. QED  BY <2>1, SchemaAssumption
<1>3. SchemaTypeOK
  <2>1. pc \in [Proc -> Place] /\ todo \in [Proc -> SUBSET Column]
    BY <1>1 DEF Place
  <2>2. deaths \in 0 .. MaxDeaths
    BY <1>1, SchemaAssumption
  <2>. QED  BY <1>1, <1>2, <2>1, <2>2 DEF SchemaTypeOK
<1>4. DraftAhead
  BY <1>1 DEF DraftAhead
<1>5. PlaceInv
  <2>1. \A d, left : PlaceOK("start", d, left)
    BY DEF PlaceOK
  <2>. QED  BY <1>1, <2>1 DEF PlaceInv
<1>6. ReceiptInv
  <2>1. Bare(db) /\ Kept(db)
    BY <1>1, <1>2 DEF Bare, Kept
  <2>2. \A p \in Proc : pc[p] # "drop"
    BY <1>1
  <2>. QED  BY <1>1, <2>1, <2>2 DEF ReceiptInv
<1>. QED  BY <1>3, <1>4, <1>5, <1>6 DEF SchemaInv

LEMMA SchemaStep ==
  ASSUME SchemaInv, [Next]_vars
  PROVE  SchemaInv' /\ Ahead(db, db')
<1>. USE DEF SchemaInv
<1>1. ASSUME NEW p \in Proc, Step(p) PROVE SchemaInv' /\ Ahead(db, db')
  <2>1. Locals(p) /\ made' = made /\ made' \subseteq Row
    BY <1>1, StepLocals DEF SchemaTypeOK
  <2>2. CASE Plain(p)
    BY <2>1, <2>2, PlainProper, PlainReceipts, ProperStep
  <2>3. CASE Rename(p)
    <3>1. CASE Refused(p, "rename")
      BY <2>1, <3>1, RefusedPlain, PlainProper, PlainReceipts, ProperStep
    <3>. QED  BY <2>1, <2>3, <3>1, RenameStep, ProperStep
  <2>4. CASE Copy(p)
    <3>1. CASE Refused(p, "copy")
      BY <2>1, <3>1, RefusedPlain, PlainProper, PlainReceipts, ProperStep
    <3>. QED  BY <2>1, <2>4, <3>1, CopyStep, ProperStep
  <2>5. CASE Drop(p)
    BY <2>1, <2>5, DropStep, ProperStep
  <2>. QED  BY <1>1, <2>2, <2>3, <2>4, <2>5, StepPlain
<1>2. ASSUME NEW p \in Proc, Use(p) PROVE SchemaInv' /\ Ahead(db, db')
  <2>1. Locals(p)
    BY <1>2, UseLocals
  <2>2. ASSUME NEW r \in Row, Import(p, r) PROVE SchemaInv' /\ Ahead(db, db')
    BY <2>1, <2>2, ImportStep, ProperStep
  <2>3. ASSUME NEW old \in Fact, NEW new \in Fact, Supersede(p, old, new)
        PROVE  SchemaInv' /\ Ahead(db, db')
    <3>1. Plain(p) /\ made' = made /\ made' \subseteq Row
      BY <2>3, SupersedePlain DEF SchemaTypeOK
    <3>. QED  BY <2>1, <3>1, PlainProper, PlainReceipts, ProperStep
  <2>. QED  BY <1>2, <2>2, <2>3 DEF Use
<1>3. ASSUME NEW p \in Proc, Die(p) PROVE SchemaInv' /\ Ahead(db, db')
  <2>1. Locals(p) /\ made' = made /\ made' \subseteq Row /\ Plain(p)
    BY <1>3, DieLocals, DiePlain DEF SchemaTypeOK
  <2>. QED  BY <2>1, PlainProper, PlainReceipts, ProperStep
<1>4. CASE UNCHANGED vars
  BY <1>4, AheadRefl DEF vars, stored, SchemaTypeOK, DraftAhead, PlaceInv, View, ReceiptInv, Bare, Kept, Twice
<1>. QED  BY <1>1, <1>2, <1>3, <1>4 DEF Next

(* SchemaInv holds in every reachable state. *)
THEOREM SchemaInvariant == Spec => []SchemaInv
<1>1. SchemaInv /\ [Next]_vars => SchemaInv'
  BY SchemaStep
<1>. QED  BY SchemaStart, <1>1, PTL DEF Spec

(* The state of the store and of its openings is always well formed, and a  *)
(* transaction is open only between its first write and its commit.         *)
THEOREM SchemaTypeCorrect == Spec => []SchemaTypeOK
<1>1. SchemaInv => SchemaTypeOK
  BY DEF SchemaInv
<1>. QED  BY SchemaInvariant, <1>1, PTL

(* No receipt is lost or doubled, in whatever step of the ledger migration a *)
(* process dies and whoever else is at it.                                   *)
THEOREM ReceiptsAreKept == Spec => []ReceiptsKept
<1>1. SchemaInv => ReceiptsKept
  BY DEF SchemaInv, ReceiptInv, Kept, ReceiptsKept
<1>. QED  BY SchemaInvariant, <1>1, PTL

(* A process that was let through works with current tables, for good. *)
THEOREM ReadyIsAlwaysCurrent == Spec => []ReadyIsCurrent
<1>1. SchemaInv => ReadyIsCurrent
  <2>. SUFFICES ASSUME SchemaInv, NEW p \in Proc, pc[p] = "ready"
                PROVE  /\ db.knowledge = "new" /\ db.batches = "new" /\ db.ledger # "old"
                       /\ db.lineage /\ Migrated(db) /\ db.columns = Column
    BY DEF ReadyIsCurrent
  <2>1. db \in Database /\ PlaceOK("ready", db, todo[p])
    BY ViewType DEF SchemaInv, PlaceInv, InTransaction, SchemaTypeOK
  <2>2. db.columns \subseteq Column
    BY <2>1 DEF Database
  <2>. QED  BY <2>1, <2>2 DEF PlaceOK, Migrated, Missing
<1>. QED  BY SchemaInvariant, <1>1, PTL

(* No step, a death or a roll back included, takes a migration back. *)
THEOREM NeverGoesBack == Spec => [][Ahead(db, db')]_vars
<1>1. SchemaInv /\ [Next]_vars => [Ahead(db, db')]_vars
  BY SchemaStep
<1>. QED  BY SchemaInvariant, <1>1, PTL DEF Spec
-----------------------------------------------------------------------------
(* Lineage.  Between the opening of a transaction and its commit no pointer  *)
(* and no edge changes, and until there is a table of lineage none at all.   *)

SameLines(d, e) == e.points = d.points /\ e.edges = d.edges /\ e.lineage = d.lineage

FromMigration(edges) == {f \in edges : f.status # "own"}

LineageInv ==
  /\ writer # NoProc => SameLines(db, draft)
  /\ ~ given.lineage =>
       /\ given.points \subseteq db.points
       /\ ~ db.lineage => db.points = given.points /\ db.edges = {}
       /\ db.lineage /\ Pointers(given) # {} => FromMigration(db.edges) = Backfilled(given)

Lines(p) ==
  \/ UNCHANGED stored
  \/ \E d : SameLines(View(p), d) /\ (Define(p, d) \/ Modify(p, d))
  \/ Commit(p)
  \/ Rollback(p)

LEMMA LineSteps ==
  ASSUME NEW d \in Database
  PROVE  /\ SameLines(d, d)
         /\ SameLines(d, Script(d)) /\ SameLines(d, WithScope(d)) /\ SameLines(d, Scoped(d))
         /\ SameLines(d, Renamed(d)) /\ SameLines(d, WithLedger(d)) /\ SameLines(d, Copied(d))
         /\ SameLines(d, Dropped(d)) /\ SameLines(d, Rebuilt(d)) /\ SameLines(d, AtVersion(d))
         /\ SameLines(d, WithTables(d))
         /\ \A there \in BOOLEAN : SameLines(d, Indexed(d, there))
         /\ \A c \in Column : SameLines(d, WithColumn(d, c))
         /\ \A r \in Row : SameLines(d, Receipted(d, r))
<1>1. SameLines(d, d)
  BY DEF SameLines
<1>2. SameLines(d, Script(d)) /\ SameLines(d, WithScope(d)) /\ SameLines(d, Scoped(d))
  BY Zenon DEF SameLines, Database, Script, WithScope, Scoped
<1>3. SameLines(d, Renamed(d)) /\ SameLines(d, WithLedger(d)) /\ SameLines(d, Copied(d))
  BY Zenon DEF SameLines, Database, Renamed, WithLedger, Copied
<1>4. SameLines(d, Dropped(d)) /\ SameLines(d, Rebuilt(d)) /\ SameLines(d, AtVersion(d))
  BY Zenon DEF SameLines, Database, Dropped, Rebuilt, AtVersion
<1>5. SameLines(d, WithTables(d))
  <2>1. SameLines(d, [d EXCEPT !.tables = TRUE, !.columns = Column])
    BY Zenon DEF SameLines, Database
  <2>. QED  BY <1>1, <2>1, Zenon DEF WithTables
<1>6. \A there \in BOOLEAN : SameLines(d, Indexed(d, there))
  BY Zenon DEF SameLines, Database, Indexed
<1>7. \A c \in Column : SameLines(d, WithColumn(d, c))
  BY Zenon DEF SameLines, Database, WithColumn
<1>8. \A r \in Row : SameLines(d, Receipted(d, r))
  BY Zenon DEF SameLines, Database, Receipted
<1>. QED  BY <1>1, <1>2, <1>3, <1>4, <1>5, <1>6, <1>7, <1>8

LEMMA StepLines ==
  ASSUME SchemaTypeOK, NEW p \in Proc, Step(p)
  PROVE  \/ Lines(p)
         \/ pc[p] = "backfill" /\ ~ Duplicate(db) /\ Define(p, WithLineage(db, Backfilled(db)))
<1>. DEFINE v == View(p)
<1>1. v \in Database /\ (pc[p] \notin InTransaction => v = db)
  BY ViewType
<1>. HIDE DEF v
<1>2. v = View(p)
  BY DEF v
<1>3. \A from : Refused(p, from) => Lines(p)
  BY DEF Refused, Lines
<1>4. \A d : SameLines(v, d) /\ (Define(p, d) \/ Modify(p, d)) => Lines(p)
  BY <1>2 DEF Lines
<1>5. CASE CheckScope(p) \/ CheckLedger(p) \/ CheckReviews(p) \/ CheckLineage(p) \/ CheckLoop(p)
           \/ CheckColumns(p) \/ ColumnsDone(p)
  BY <1>5 DEF CheckScope, CheckLedger, CheckReviews, CheckLineage, CheckLoop, CheckColumns, ColumnsDone, Read, Lines, stored
<1>6. CASE CreateTables(p)
  BY <1>1, <1>4, <1>6, LineSteps DEF CreateTables, Alter, Go, InTransaction
<1>7. CASE AddScope(p) \/ MarkScoped(p)
  BY <1>1, <1>3, <1>4, <1>7, LineSteps DEF AddScope, MarkScoped, Alter, Go, InTransaction
<1>8. CASE Rename(p) \/ CreateLedger(p)
  BY <1>1, <1>2, <1>3, <1>4, <1>8, LineSteps DEF Rename, CreateLedger, Alter
<1>9. CASE Copy(p) \/ Drop(p)
  BY <1>1, <1>2, <1>3, <1>4, <1>9, LineSteps DEF Copy, Drop, Alter
<1>10. CASE DropIndex(p) \/ MakeIndex(p)
  BY <1>1, <1>2, <1>3, <1>4, <1>10, LineSteps DEF DropIndex, MakeIndex, Alter
<1>11. CASE Rebuild(p) \/ Keep(p)
  BY <1>1, <1>3, <1>4, <1>11, LineSteps DEF Rebuild, Keep, Alter, Go, InTransaction
<1>12. CASE Backfill(p)
  BY <1>3, <1>12 DEF Backfill, Alter, Go
<1>13. CASE LoopTables(p) \/ SetVersion(p)
  BY <1>1, <1>3, <1>4, <1>13, LineSteps DEF LoopTables, SetVersion, Alter, Go, InTransaction
<1>14. ASSUME NEW c \in Column, AddColumn(p, c) PROVE Lines(p)
  BY <1>1, <1>3, <1>4, <1>14, LineSteps DEF AddColumn, InTransaction
<1>. QED  BY <1>5, <1>6, <1>7, <1>8, <1>9, <1>10, <1>11, <1>12, <1>13, <1>14 DEF Step

(* An edge of the migration is what its pair makes it. *)
LEMMA BackfilledIs ==
  ASSUME NEW d
  PROVE  /\ \A x \in Pointers(d) : \E e \in Backfilled(d) : e.old = x[2] /\ e.new = x[1]
         /\ \A e \in Backfilled(d) : /\ e.status = Status(e.new, e.old, Pointers(d))
                                     /\ e.status # "own"
<1>1. ASSUME NEW x \in Pointers(d)
      PROVE  \E e \in Backfilled(d) : e.old = x[2] /\ e.new = x[1]
  <2>. DEFINE e == [old |-> x[2], new |-> x[1], status |-> Status(x[1], x[2], Pointers(d))]
  <2>1. e \in Backfilled(d)
    BY Zenon DEF Backfilled
  <2>2. e.old = x[2] /\ e.new = x[1]
    BY Zenon
  <2>. QED  BY <2>1, <2>2, Zenon
<1>2. ASSUME NEW e \in Backfilled(d)
      PROVE  e.status = Status(e.new, e.old, Pointers(d)) /\ e.status # "own"
  <2>1. PICK x \in Pointers(d) : e = [old |-> x[2], new |-> x[1],
                                      status |-> Status(x[1], x[2], Pointers(d))]
    BY Zenon DEF Backfilled
  <2>2. e.old = x[2] /\ e.new = x[1] /\ e.status = Status(x[1], x[2], Pointers(d))
    BY <2>1, Zenon
  <2>3. Status(x[1], x[2], Pointers(d)) # "own"
    BY DEF Status
  <2>. QED  BY <2>2, <2>3
<1>. QED  BY <1>1, <1>2

LEMMA LinesKept ==
  ASSUME SchemaTypeOK, LineageInv, NEW p \in Proc, given' = given, Lines(p)
  PROVE  LineageInv'
<1>1. /\ SameLines(db, db')
      /\ writer' # NoProc => SameLines(db', draft')
  <2>1. SameLines(db, View(p)) /\ SameLines(db, db) /\ p # NoProc
    BY SchemaAssumption DEF View, LineageInv, SameLines
  <2>2. CASE UNCHANGED stored
    BY <2>1, <2>2 DEF stored, LineageInv
  <2>3. ASSUME NEW d, SameLines(View(p), d), Define(p, d) 
        PROVE  SameLines(db, db') /\ (writer' # NoProc => SameLines(db', draft'))
    BY <2>1, <2>3 DEF Define, MayWrite, SameLines
  <2>4. ASSUME NEW d, SameLines(View(p), d), Modify(p, d) 
        PROVE  SameLines(db, db') /\ (writer' # NoProc => SameLines(db', draft'))
    BY <2>1, <2>4 DEF Modify, SameLines
  <2>5. CASE Commit(p)
    <3>1. CASE writer = p
      BY <2>1, <2>5, <3>1 DEF Commit, LineageInv
    <3>. QED  BY <2>2, <2>5, <3>1 DEF Commit
  <2>6. CASE Rollback(p)
    BY <2>1, <2>6 DEF Rollback, LineageInv
  <2>. QED  BY <2>2, <2>3, <2>4, <2>5, <2>6 DEF Lines
<1>. QED  BY <1>1 DEF LineageInv, SameLines

LEMMA BackfillKeeps ==
  ASSUME SchemaTypeOK, LineageInv, NEW p \in Proc, given' = given,
         pc[p] = "backfill", ~ Duplicate(db), Define(p, WithLineage(db, Backfilled(db)))
  PROVE  LineageInv'
<1>. DEFINE new == Backfilled(db)
<1>1. /\ db' = WithLineage(db, new) /\ writer' = NoProc /\ db \in Database
  BY SchemaAssumption DEF Define, MayWrite, SchemaTypeOK, InTransaction
<1>2. db'.points = db.points /\ db'.edges = db.edges \cup new /\ db'.lineage = TRUE
  BY <1>1, Zenon DEF WithLineage, Database
<1>3. ASSUME ~ given.lineage, ~ db.lineage
      PROVE  FromMigration(db'.edges) = Backfilled(given)
  <2>1. db.points = given.points /\ db.edges = {}
    BY <1>3 DEF LineageInv
  <2>2. new = Backfilled(given)
    BY <2>1, Zenon DEF Backfilled, Pointers
  <2>3. db'.edges = Backfilled(given)
    BY <1>2, <2>1, <2>2
  <2>. QED  BY <2>3, BackfilledIs DEF FromMigration
<1>4. ASSUME ~ given.lineage, db.lineage, Pointers(given) # {}
      PROVE  FALSE
  <2>1. FromMigration(db.edges) = Backfilled(given) /\ given.points \subseteq db.points
    BY <1>4 DEF LineageInv
  <2>2. PICK x \in Pointers(given) : TRUE
    BY <1>4
  <2>3. x \in Pointers(db)
    BY <2>1 DEF Pointers
  <2>4. PICK e \in Backfilled(db) : e.old = x[2] /\ e.new = x[1]
    BY <2>3, BackfilledIs
  <2>5. PICK f \in Backfilled(given) : f.old = x[2] /\ f.new = x[1]
    BY BackfilledIs
  <2>6. f \in db.edges /\ f.status # "own"
    BY <2>1 DEF FromMigration
  <2>. QED  BY <2>4, <2>5, <2>6 DEF Duplicate
<1>. QED  BY <1>1, <1>2, <1>3, <1>4 DEF LineageInv

LEMMA SupersedeKeeps ==
  ASSUME SchemaTypeOK, PlaceInv, LineageInv, NEW p \in Proc, NEW old \in Fact, NEW new \in Fact,
         Supersede(p, old, new)
  PROVE  LineageInv'
<1>. DEFINE own == [old |-> old, new |-> new, status |-> "own"]
<1>1. /\ pc[p] = "ready" /\ Define(p, Superseded(db, old, new)) /\ given' = given
  BY DEF Supersede, history
<1>2. db \in Database /\ db.lineage /\ writer # p
  BY <1>1, ViewType, SchemaAssumption DEF PlaceInv, PlaceOK, InTransaction, SchemaTypeOK
<1>3. db' = Superseded(db, old, new) /\ writer' = NoProc
  BY <1>1, <1>2 DEF Define, MayWrite
<1>4. /\ db'.lineage = db.lineage /\ db'.edges = db.edges \cup {own}
      /\ db'.points = IF \E x \in db.points : x[1] = new THEN db.points
                      ELSE db.points \cup {<<new, old>>}
  BY <1>2, <1>3, Zenon DEF Superseded, Database
<1>5. own.status = "own"
  BY Zenon
<1>. HIDE DEF own
<1>6. FromMigration(db'.edges) = FromMigration(db.edges) /\ db.points \subseteq db'.points
  BY <1>4, <1>5 DEF FromMigration
<1>. QED  BY <1>1, <1>2, <1>3, <1>4, <1>6 DEF LineageInv

LEMMA LineageStep ==
  ASSUME SchemaInv, LineageInv, [Next]_vars
  PROVE  LineageInv'
<1>. USE DEF SchemaInv
<1>1. ASSUME NEW p \in Proc, Step(p) PROVE LineageInv'
  <2>1. given' = given
    BY <1>1, StepLocals DEF Locals
  <2>. QED  BY <1>1, <2>1, StepLines, LinesKept, BackfillKeeps
<1>2. ASSUME NEW p \in Proc, Use(p) PROVE LineageInv'
  <2>1. ASSUME NEW r \in Row, Import(p, r) PROVE LineageInv'
    <3>1. given' = given /\ View(p) = db /\ db \in Database /\ Define(p, Receipted(db, r))
      BY <2>1, ViewType DEF Import, InTransaction
    <3>2. Lines(p)
      BY <3>1, LineSteps DEF Lines
    <3>. QED  BY <3>1, <3>2, LinesKept
  <2>2. ASSUME NEW old \in Fact, NEW new \in Fact, Supersede(p, old, new) PROVE LineageInv'
    BY <2>2, SupersedeKeeps
  <2>. QED  BY <1>2, <2>1, <2>2 DEF Use
<1>3. ASSUME NEW p \in Proc, Die(p) PROVE LineageInv'
  BY <1>3, LinesKept DEF Die, Lines, history
<1>4. CASE UNCHANGED vars
  BY <1>4 DEF vars, stored, LineageInv
<1>. QED  BY <1>1, <1>2, <1>3, <1>4 DEF Next

LEMMA LineageInit == Init => LineageInv
<1>. SUFFICES ASSUME Init PROVE LineageInv
  OBVIOUS
<1>1. db \in Stores /\ given = db /\ writer = NoProc
  BY DEF Init
<1>2. ~ db.lineage => db.edges = {}
  BY <1>1, SchemaAssumption
<1>. QED  BY <1>1, <1>2 DEF LineageInv

(* A pointer of an old store becomes one edge, however often, and however   *)
(* concurrently with supersessions, the store is opened.                    *)
THEOREM PointersMigrateOnlyOnce == Spec => []PointersMigrateOnce
<1>1. LineageInv => PointersMigrateOnce
  <2>. SUFFICES ASSUME LineageInv, db.lineage, ~ given.lineage, NEW x \in Pointers(given)
                PROVE  {e.status : e \in {f \in db.edges : f.old = x[2] /\ f.new = x[1]
                                                           /\ f.status # "own"}}
                         = {Status(x[1], x[2], Pointers(given))}
    BY Zenon DEF PointersMigrateOnce, Status
  <2>1. FromMigration(db.edges) = Backfilled(given)
    BY DEF LineageInv
  <2>2. PICK e \in Backfilled(given) : e.old = x[2] /\ e.new = x[1]
    BY BackfilledIs
  <2>3. e \in db.edges /\ e.status # "own" /\ e.status = Status(x[1], x[2], Pointers(given))
    BY <2>1, <2>2, BackfilledIs DEF FromMigration
  <2>4. ASSUME NEW f \in db.edges, f.old = x[2], f.new = x[1], f.status # "own"
        PROVE  f.status = Status(x[1], x[2], Pointers(given))
    <3>1. f \in Backfilled(given)
      BY <2>1, <2>4 DEF FromMigration
    <3>. QED  BY <2>4, <3>1, BackfilledIs
  <2>. QED  BY <2>2, <2>3, <2>4
<1>2. SchemaInv /\ LineageInv /\ [Next]_vars => LineageInv'
  BY LineageStep
<1>. QED  BY SchemaInvariant, LineageInit, <1>1, <1>2, PTL DEF Spec
-----------------------------------------------------------------------------
(* Scope.  Only the two statements that fill global_scope change who sees a  *)
(* fact; between them the facts of entities are in sight.                    *)

Hidden(d) == d.shared \cap Linked = {}

Marking == \E p \in Proc : pc[p] = "markScoped"

ScopeInv ==
  given.knowledge = "old" =>
    /\ db.knowledge # "absent"
    /\ db.knowledge = "new" => Hidden(db) \/ torn \/ Marking \/ writer # NoProc
    /\ writer # NoProc => Hidden(draft) \/ torn \/ Marking

SameFacts(d, e) ==
  /\ e.shared = d.shared
  /\ d.knowledge # "absent" => e.knowledge = d.knowledge

Facts(p) ==
  \/ UNCHANGED <<stored, torn>>
  \/ \E d : SameFacts(View(p), d) /\ (Define(p, d) \/ Modify(p, d)) /\ torn' = torn
  \/ Commit(p) /\ torn' = torn
  \/ Rollback(p) /\ (torn \/ writer = p => torn')

LEMMA FactSteps ==
  ASSUME NEW d \in Database
  PROVE  /\ SameFacts(d, d) /\ SameFacts(d, Script(d))
         /\ SameFacts(d, Renamed(d)) /\ SameFacts(d, WithLedger(d)) /\ SameFacts(d, Copied(d))
         /\ SameFacts(d, Dropped(d)) /\ SameFacts(d, Rebuilt(d)) /\ SameFacts(d, AtVersion(d))
         /\ SameFacts(d, WithTables(d))
         /\ \A there \in BOOLEAN : SameFacts(d, Indexed(d, there))
         /\ \A new : SameFacts(d, WithLineage(d, new))
         /\ \A c \in Column : SameFacts(d, WithColumn(d, c))
         /\ \A r \in Row : SameFacts(d, Receipted(d, r))
         /\ \A old, new \in Fact : SameFacts(d, Superseded(d, old, new))
<1>1. SameFacts(d, d)
  BY DEF SameFacts
<1>2. SameFacts(d, Script(d))
  <2>1. Script(d).shared = d.shared /\ Script(d).knowledge = Created(d.knowledge)
    BY Zenon DEF Database, Script
  <2>. QED  BY <2>1 DEF SameFacts, Created
<1>3. SameFacts(d, Renamed(d)) /\ SameFacts(d, WithLedger(d)) /\ SameFacts(d, Copied(d))
  BY Zenon DEF SameFacts, Database, Renamed, WithLedger, Copied
<1>4. SameFacts(d, Dropped(d)) /\ SameFacts(d, Rebuilt(d)) /\ SameFacts(d, AtVersion(d))
  BY Zenon DEF SameFacts, Database, Dropped, Rebuilt, AtVersion
<1>5. SameFacts(d, WithTables(d))
  <2>1. SameFacts(d, [d EXCEPT !.tables = TRUE, !.columns = Column])
    BY Zenon DEF SameFacts, Database
  <2>. QED  BY <1>1, <2>1, Zenon DEF WithTables
<1>6. \A there \in BOOLEAN : SameFacts(d, Indexed(d, there))
  BY Zenon DEF SameFacts, Database, Indexed
<1>7. \A new : SameFacts(d, WithLineage(d, new))
  BY Zenon DEF SameFacts, Database, WithLineage
<1>8. \A c \in Column : SameFacts(d, WithColumn(d, c))
  BY Zenon DEF SameFacts, Database, WithColumn
<1>9. \A r \in Row : SameFacts(d, Receipted(d, r))
  BY Zenon DEF SameFacts, Database, Receipted
<1>10. \A old, new \in Fact : SameFacts(d, Superseded(d, old, new))
  BY Zenon DEF SameFacts, Database, Superseded
<1>. QED  BY <1>1, <1>2, <1>3, <1>4, <1>5, <1>6, <1>7, <1>8, <1>9, <1>10

LEMMA StepFacts ==
  ASSUME SchemaTypeOK, NEW p \in Proc, Step(p)
  PROVE  \/ pc[p] # "markScoped" /\ Facts(p)
         \/ /\ Go(p, "addScope", "markScoped") /\ db.knowledge # "new"
            /\ Define(p, WithScope(db)) /\ torn' = torn
         \/ MarkScoped(p)
<1>. DEFINE v == View(p)
<1>1. v \in Database /\ (pc[p] \notin InTransaction => v = db)
  BY ViewType
<1>. HIDE DEF v
<1>2. v = View(p)
  BY DEF v
<1>3. \A from : Refused(p, from) => Facts(p) /\ pc[p] = from
  BY DEF Refused, Facts, Go
<1>4. \A d : SameFacts(v, d) /\ (Define(p, d) \/ Modify(p, d)) /\ torn' = torn => Facts(p)
  BY <1>2 DEF Facts
<1>5. CASE CheckScope(p) \/ CheckLedger(p) \/ CheckReviews(p) \/ CheckLineage(p) \/ CheckLoop(p)
           \/ CheckColumns(p) \/ ColumnsDone(p)
  BY <1>5 DEF CheckScope, CheckLedger, CheckReviews, CheckLineage, CheckLoop, CheckColumns,
              ColumnsDone, Read, Go, Quiet, Facts
<1>6. CASE CreateTables(p)
  BY <1>1, <1>4, <1>6, FactSteps DEF CreateTables, Alter, Go, Quiet, InTransaction
<1>7. CASE AddScope(p)
  BY <1>3, <1>7 DEF AddScope, Alter, Quiet
<1>8. CASE Rename(p) \/ CreateLedger(p)
  BY <1>1, <1>2, <1>3, <1>4, <1>8, FactSteps DEF Rename, CreateLedger, Alter, Go, Quiet
<1>9. CASE Copy(p) \/ Drop(p)
  BY <1>1, <1>2, <1>3, <1>4, <1>9, FactSteps DEF Copy, Drop, Alter, Go, Quiet
<1>10. CASE DropIndex(p) \/ MakeIndex(p)
  <2>1. \A there \in BOOLEAN : SameFacts(v, Indexed(v, there))
    BY <1>1, FactSteps
  <2>2. CASE DropIndex(p)
    <3>1. pc[p] = "dropIndex" /\ Define(p, Indexed(v, FALSE)) /\ torn' = torn
      BY <1>2, <2>2 DEF DropIndex, Alter, Go, Quiet
    <3>. QED  BY <1>4, <2>1, <3>1
  <2>3. CASE MakeIndex(p)
    <3>1. \/ Refused(p, "makeIndex")
          \/ pc[p] = "makeIndex" /\ Define(p, Indexed(v, TRUE)) /\ torn' = torn
      BY <1>2, <2>3 DEF MakeIndex, Alter, Go, Quiet
    <3>2. CASE Refused(p, "makeIndex")
      <4>1. Facts(p) /\ pc[p] = "makeIndex"
        BY <1>3, <3>2
      <4>. QED  BY <4>1
    <3>3. CASE pc[p] = "makeIndex" /\ Define(p, Indexed(v, TRUE)) /\ torn' = torn
      <4>1. SameFacts(v, Indexed(v, TRUE))
        BY <2>1
      <4>2. Facts(p)
        BY <1>4, <3>3, <4>1
      <4>. QED  BY <3>3, <4>2
    <3>. QED  BY <3>1, <3>2, <3>3
  <2>. QED  BY <1>10, <2>2, <2>3
<1>11. CASE Rebuild(p) \/ Keep(p)
  BY <1>1, <1>3, <1>4, <1>11, FactSteps DEF Rebuild, Keep, Alter, Go, Quiet, InTransaction
<1>12. CASE Backfill(p)
  BY <1>1, <1>3, <1>4, <1>12, FactSteps DEF Backfill, Alter, Go, Quiet, InTransaction
<1>13. CASE LoopTables(p) \/ SetVersion(p)
  BY <1>1, <1>3, <1>4, <1>13, FactSteps DEF LoopTables, SetVersion, Alter, Go, Quiet, InTransaction
<1>14. ASSUME NEW c \in Column, AddColumn(p, c) PROVE pc[p] # "markScoped" /\ Facts(p)
  BY <1>1, <1>3, <1>4, <1>14, FactSteps DEF AddColumn, InTransaction
<1>. QED  BY <1>5, <1>6, <1>7, <1>8, <1>9, <1>10, <1>11, <1>12, <1>13, <1>14 DEF Step

(* A transaction is opened on a table that has the column. *)
LEMMA DraftScoped ==
  ASSUME SchemaInv, writer # NoProc
  PROVE  draft.knowledge = "new"
<1>1. writer \in Proc /\ pc[writer] \in InTransaction /\ View(writer) = draft
  BY DEF SchemaInv, SchemaTypeOK, View
<1>. QED  BY <1>1 DEF SchemaInv, PlaceInv, PlaceOK, InTransaction

LEMMA FactsKept ==
  ASSUME SchemaInv, SchemaInv', ScopeInv, NEW p \in Proc, Locals(p), pc[p] # "markScoped", Facts(p)
  PROVE  ScopeInv'
<1>. SUFFICES ASSUME given.knowledge = "old" PROVE ScopeInv'
  BY DEF Locals, ScopeInv
<1>1. Marking => Marking'
  BY DEF Marking, Locals
<1>2. p # NoProc /\ db.knowledge # "absent" /\ (writer # NoProc => draft.knowledge = "new")
      /\ (writer' # NoProc => draft'.knowledge = "new")
  <2>1. writer' # NoProc => draft'.knowledge = "new"
    <3>. SUFFICES ASSUME writer' # NoProc PROVE draft'.knowledge = "new"
      OBVIOUS
    <3>1. writer' \in Proc /\ pc'[writer'] \in InTransaction
      BY DEF SchemaInv, SchemaTypeOK
    <3>2. \A q \in Proc : q = writer' => PlaceOK(pc'[q], draft', todo'[q])
      BY DEF SchemaInv, PlaceInv, View
    <3>. QED  BY <3>1, <3>2 DEF PlaceOK, InTransaction
  <2>. QED  BY <2>1, DraftScoped, SchemaAssumption DEF ScopeInv
<1>3. CASE UNCHANGED <<stored, torn>>
  BY <1>1, <1>3 DEF ScopeInv, stored, Hidden, Locals
<1>4. ASSUME NEW d, SameFacts(View(p), d), Define(p, d), torn' = torn PROVE ScopeInv'
  <2>1. CASE writer = p
    <3>1. SameFacts(draft, d) /\ draft' = d /\ db' = db /\ writer' = writer
      BY <1>4, <2>1 DEF Define, View
    <3>. QED  BY <1>1, <1>2, <1>4, <2>1, <3>1 DEF ScopeInv, Hidden, SameFacts, Locals
  <2>2. CASE writer # p
    <3>1. SameFacts(db, d) /\ db' = d /\ writer = NoProc /\ writer' = NoProc
      BY <1>4, <2>2 DEF Define, MayWrite, View
    <3>. QED  BY <1>1, <1>2, <1>4, <3>1 DEF ScopeInv, Hidden, SameFacts, Locals
  <2>. QED  BY <2>1, <2>2
<1>5. ASSUME NEW d, SameFacts(View(p), d), Modify(p, d), torn' = torn PROVE ScopeInv'
  <2>1. writer \in {NoProc, p} /\ db' = db /\ writer' = p /\ draft' = d
    BY <1>5 DEF Modify, MayWrite
  <2>2. SameFacts(IF writer = p THEN draft ELSE db, d)
    BY <1>5 DEF View
  <2>. QED  BY <1>1, <1>2, <1>5, <2>1, <2>2 DEF ScopeInv, Hidden, SameFacts, Locals
<1>6. CASE Commit(p) /\ torn' = torn
  <2>1. CASE writer = p
    BY <1>1, <1>2, <1>6, <2>1 DEF Commit, ScopeInv, Hidden, Locals
  <2>. QED  BY <1>3, <1>6, <2>1 DEF Commit
<1>7. CASE Rollback(p) /\ (torn \/ writer = p => torn')
  BY <1>1, <1>2, <1>7 DEF Rollback, ScopeInv, Hidden, Locals
<1>. QED  BY <1>3, <1>4, <1>5, <1>6, <1>7 DEF Facts

LEMMA FillKeeps ==
  ASSUME SchemaInv, SchemaInv', ScopeInv, NEW p \in Proc, Locals(p),
         \/ Go(p, "addScope", "markScoped") /\ db.knowledge # "new" /\ Define(p, WithScope(db))
         \/ MarkScoped(p)
  PROVE  ScopeInv'
<1>1. db \in Database /\ p # NoProc /\ writer # p
  BY SchemaAssumption DEF SchemaInv, SchemaTypeOK, Go, MarkScoped, InTransaction
<1>2. CASE Go(p, "addScope", "markScoped") /\ Define(p, WithScope(db))
  <2>1. db' = WithScope(db) /\ writer' = NoProc
    BY <1>1, <1>2 DEF Define, MayWrite
  <2>2. db'.knowledge = "new"
    BY <1>1, <2>1, WithScopeFields
  <2>3. Marking'
    BY <1>2 DEF Go, Marking, SchemaInv, SchemaTypeOK
  <2>. QED  BY <2>1, <2>2, <2>3 DEF ScopeInv
<1>3. CASE MarkScoped(p)
  <2>1. db' = db /\ draft' = Scoped(db) /\ writer' = p
    BY <1>3 DEF MarkScoped, Modify
  <2>2. Hidden(draft')
    <3>1. Scoped(db).shared = db.shared \ Linked
      BY <1>1, Zenon DEF Scoped, Unshared, Database
    <3>. QED  BY <2>1, <3>1 DEF Hidden
  <2>. QED  BY <1>1, <2>1, <2>2 DEF ScopeInv, Locals
<1>. QED  BY <1>2, <1>3

LEMMA ScopeStep ==
  ASSUME SchemaInv, ScopeInv, [Next]_vars
  PROVE  ScopeInv'
<1>0. SchemaInv' /\ SchemaTypeOK
  BY SchemaStep DEF SchemaInv
<1>1. ASSUME NEW p \in Proc, Step(p) PROVE ScopeInv'
  BY <1>0, <1>1, StepLocals, StepFacts, FactsKept, FillKeeps
<1>2. ASSUME NEW p \in Proc, Use(p) PROVE ScopeInv'
  <2>1. View(p) = db /\ db \in Database /\ pc[p] = "ready" /\ torn' = torn
    BY <1>0, <1>2, ViewType DEF Use, Import, Supersede, InTransaction, SchemaTypeOK
  <2>2. \E d : SameFacts(db, d) /\ Define(p, d)
    BY <1>2, <2>1, FactSteps DEF Use, Import, Supersede
  <2>3. Facts(p)
    BY <2>1, <2>2 DEF Facts
  <2>. QED  BY <1>0, <1>2, <2>1, <2>3, UseLocals, FactsKept
<1>3. ASSUME NEW p \in Proc, Die(p) PROVE ScopeInv'
  <2>1. Rollback(p) /\ torn' = (torn \/ pc[p] = "markScoped" \/ writer = p) /\ Locals(p)
    BY <1>0, <1>3, DieLocals DEF Die
  <2>2. CASE pc[p] = "markScoped"
    <3>1. torn' /\ db' = db /\ given' = given
      BY <2>1, <2>2 DEF Rollback, Locals
    <3>. QED  BY <3>1 DEF ScopeInv
  <2>3. CASE pc[p] # "markScoped"
    <3>1. Facts(p)
      BY <2>1, <2>3 DEF Facts
    <3>. QED  BY <1>0, <2>1, <2>3, <3>1, FactsKept
  <2>. QED  BY <2>2, <2>3
<1>4. CASE UNCHANGED vars
  BY <1>4 DEF vars, stored, history, ScopeInv, Hidden, Marking
<1>. QED  BY <1>1, <1>2, <1>3, <1>4 DEF Next

(* For any stores, processes and deaths: an upgrade leaves a fact of an     *)
(* entity in sight of the others only while global_scope is being filled,   *)
(* or when a process died or was refused by then.                           *)
THEOREM ScopedUnlessTornHolds == Spec => []ScopedUnlessTorn
<1>1. Init => ScopeInv
  BY SchemaAssumption DEF Init, ScopeInv
<1>2. SchemaInv /\ ScopeInv => ScopedUnlessTorn
  <2>. SUFFICES ASSUME SchemaInv, ScopeInv, NEW p \in Proc, pc[p] = "ready",
                       given.knowledge = "old"
                PROVE  \/ Hidden(db) \/ torn
                       \/ \E q \in Proc : pc[q] = "markScoped" \/ writer = q
    BY DEF ScopedUnlessTorn, Hidden
  <2>1. db.knowledge = "new"
    BY ViewType DEF SchemaInv, PlaceInv, PlaceOK, InTransaction
  <2>2. writer \in Proc \cup {NoProc}
    BY DEF SchemaInv, SchemaTypeOK
  <2>. QED  BY <2>1, <2>2 DEF ScopeInv, Marking
<1>3. SchemaInv /\ ScopeInv /\ [Next]_vars => ScopeInv'
  BY ScopeStep
<1>. QED  BY SchemaInvariant, <1>1, <1>2, <1>3, PTL DEF Spec
=============================================================================
