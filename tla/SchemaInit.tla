------------------------------ MODULE SchemaInit ------------------------------
(***************************************************************************)
(* The opening of a store: every process runs MemoryStore.initialize, and  *)
(* with it the loop migration, before anything else.  Stores of earlier    *)
(* releases are brought up to date on the way, while other processes open  *)
(* or already use the same database.                                       *)
(*                                                                         *)
(* Python's sqlite3 commits a schema statement at once, unless an INSERT   *)
(* or UPDATE before it has opened a transaction.  Readers see what is      *)
(* committed; a process with an open transaction sees its own draft and    *)
(* keeps every other writer waiting.  A wait may end in an error, which is *)
(* a death here.  Tables that no step alters, and the quarantine of rules  *)
(* that follows the migrations, are left out, and so is a database of a    *)
(* later release, which is refused.                                        *)
(***************************************************************************)
EXTENDS Integers, FiniteSets

CONSTANTS Proc,
          Fact,
          Linked,    \* the facts of memory_entities
          Rank,      \* the order in which replacements of a fact are migrated
          Row,       \* receipts of the import ledger
          Column,    \* the columns that the loop's tables got later
          Stores,    \* the databases that may be found
          MaxDeaths, \* bound: deaths and expired waits
          NoProc, NoDraft

Format == {"absent", "old", "new"}

(* An edge of lineage: from the migration, or from a supersession since. *)
Edge == [old : Fact, new : Fact, status : {"active", "legacy_conflict", "own"}]

Database ==
  [knowledge : Format, shared : SUBSET Fact,  \* global_scope
   points : SUBSET (Fact \X Fact),            \* supersedes: the new, the old
   ledger : Format, rows : SUBSET Row,
   aside : Format, asideRows : SUBSET Row,    \* import_ledger_legacy
   index : BOOLEAN,                           \* idx_import_ledger_batch
   batches : Format,                          \* old: one batch of each review
   lineage : BOOLEAN, edges : SUBSET Edge,
   tables : BOOLEAN, columns : SUBSET Column, version : 0 .. 4]

ASSUME SchemaAssumption ==
  /\ Linked \subseteq Fact
  /\ Rank \in [Fact -> Nat] /\ \A f, g \in Fact : Rank[f] = Rank[g] => f = g
  /\ Stores \subseteq Database
  /\ \A d \in Stores : /\ d.aside = "absent" /\ d.asideRows = {}
                       /\ d.ledger = "absent" => d.rows = {}
                       /\ ~ d.lineage => d.edges = {}
  /\ MaxDeaths \in Nat
  /\ NoProc \notin Proc /\ NoDraft \notin Database

VARIABLES db,      \* what is committed
          writer,  \* the process that has a transaction open
          draft,   \* the database as that process sees it
          pc, todo,\* how far each process is, and the columns it has to add
          deaths,  \* the spent bound
          given, made, torn  \* history: the store found, the receipts
                   \* imported since, and whether a backfill was cut off

stored == <<db, writer, draft>>
vars == <<stored, pc, todo, deaths, given, made, torn>>

Place == {"start", "scope", "addScope", "markScoped", "ledger", "rename", "create",
          "copy", "drop", "dropIndex", "makeIndex", "review", "rebuild", "commit",
          "backfill", "keep", "loop", "tables", "columns", "alter", "version", "ready"}

(* The places that may be reached with a transaction open. *)
InTransaction == {"ledger", "rename", "create", "drop", "copy", "dropIndex",
                  "makeIndex", "review", "commit"}

SchemaTypeOK ==
  /\ db \in Database
  /\ writer \in Proc \cup {NoProc}
  /\ draft \in Database \cup {NoDraft} /\ (draft = NoDraft <=> writer = NoProc)
  /\ pc \in [Proc -> Place]
  /\ writer # NoProc => pc[writer] \in InTransaction
  /\ todo \in [Proc -> SUBSET Column]
  /\ deaths \in 0 .. MaxDeaths
  /\ given \in Database /\ made \subseteq Row /\ torn \in BOOLEAN

Init ==
  /\ db \in Stores /\ given = db
  /\ writer = NoProc /\ draft = NoDraft
  /\ pc = [p \in Proc |-> "start"] /\ todo = [p \in Proc |-> {}]
  /\ deaths = 0 /\ made = {} /\ torn = FALSE
-----------------------------------------------------------------------------
(* SQLite as Python drives it *)

View(p) == IF writer = p THEN draft ELSE db

MayWrite(p) == writer \in {NoProc, p}

(* A schema statement. *)
Define(p, d) ==
  /\ MayWrite(p)
  /\ IF writer = p THEN draft' = d /\ UNCHANGED db ELSE db' = d /\ UNCHANGED draft
  /\ UNCHANGED writer

(* An INSERT or UPDATE, which opens a transaction. *)
Modify(p, d) == MayWrite(p) /\ writer' = p /\ draft' = d /\ UNCHANGED db

Commit(p) ==
  IF writer = p THEN db' = draft /\ writer' = NoProc /\ draft' = NoDraft
  ELSE UNCHANGED stored

Rollback(p) ==
  /\ UNCHANGED db
  /\ IF writer = p THEN writer' = NoProc /\ draft' = NoDraft ELSE UNCHANGED <<writer, draft>>

history == <<given, made>>

Go(p, from, to) == pc[p] = from /\ pc' = [pc EXCEPT ![p] = to]

Quiet == UNCHANGED <<todo, deaths, history, torn>>

(* A statement is refused: initialize ends, and the next run starts again. *)
Refused(p, from) == /\ Go(p, from, "start") /\ Rollback(p)
                    /\ torn' = (torn \/ writer = p)
                    /\ UNCHANGED <<todo, deaths, history>>

(* A step that reads, or that writes without a way to fail. *)
Read(p, from, to) == Go(p, from, to) /\ UNCHANGED stored /\ Quiet

Alter(p, from, to, d) == Go(p, from, to) /\ Define(p, d) /\ Quiet
-----------------------------------------------------------------------------
(* MemoryStore.initialize: the tables of semantic memory and of imports *)

Created(format) == IF format = "absent" THEN "new" ELSE format

BugScript(d) ==  \* the ledger is created only with the store
  [d EXCEPT !.ledger = IF d.knowledge = "absent" THEN Created(@) ELSE @,
            !.knowledge = Created(@), !.batches = Created(@)]

(* CREATE TABLE IF NOT EXISTS. *)
Script(d) == [d EXCEPT !.knowledge = Created(@), !.ledger = Created(@),
                       !.batches = Created(@)]

CreateTables(p) == Alter(p, "start", "scope", Script(db))

CheckScope(p) ==
  Read(p, "scope", IF View(p).knowledge = "new" THEN "ledger" ELSE "addScope")

(* Every fact is global at first. *)
WithScope(d) == [d EXCEPT !.knowledge = "new", !.shared = Fact]

AddScope(p) ==
  IF db.knowledge = "new" THEN MayWrite(p) /\ Refused(p, "addScope")
  ELSE Alter(p, "addScope", "markScoped", WithScope(db))

BugUnshared(shared) == shared \cap Linked  \* the wrong rows

(* The facts that stay global. *)
Unshared(shared) == shared \ Linked

Scoped(d) == [d EXCEPT !.shared = Unshared(@)]

MarkScoped(p) == Go(p, "markScoped", "ledger") /\ Modify(p, Scoped(db)) /\ Quiet

CheckLedger(p) ==
  Read(p, "ledger", IF View(p).ledger = "new" THEN "dropIndex" ELSE "rename")

(* The ledger becomes import_ledger_legacy, whatever its format. *)
Renamed(d) == [d EXCEPT !.ledger = "absent", !.rows = {},
                        !.aside = d.ledger, !.asideRows = d.rows]

(* Another process may have made the ledger new, or be between this step and the next. *)
Rename(p) ==
  LET d == View(p) IN
    IF d.ledger = "absent" \/ d.aside # "absent" THEN MayWrite(p) /\ Refused(p, "rename")
    ELSE Alter(p, "rename", "create", Renamed(d))

WithLedger(d) == [d EXCEPT !.ledger = "new"]

CreateLedger(p) ==
  LET d == View(p) IN
    IF d.ledger # "absent" THEN MayWrite(p) /\ Refused(p, "create")
    ELSE Alter(p, "create", "copy", WithLedger(d))

Copied(d) == [d EXCEPT !.rows = @ \cup d.asideRows]

BugCopy(p) ==  \* the copy is committed by itself
  View(p).aside = "old" /\ Alter(p, "copy", "drop", Copied(View(p)))

(* Only rows of the old format have a fingerprint to copy. *)
Copy(p) ==
  LET d == View(p) IN
    IF d.aside # "old" \/ d.ledger = "absent" THEN MayWrite(p) /\ Refused(p, "copy")
    ELSE Go(p, "copy", "drop") /\ Modify(p, Copied(d)) /\ Quiet

Dropped(d) == [d EXCEPT !.aside = "absent", !.asideRows = {}]

Drop(p) == Alter(p, "drop", "dropIndex", Dropped(View(p)))

Indexed(d, there) == [d EXCEPT !.index = there]

DropIndex(p) == Alter(p, "dropIndex", "makeIndex", Indexed(View(p), FALSE))

(* CREATE INDEX, without IF NOT EXISTS. *)
MakeIndex(p) ==
  LET d == View(p) IN
    IF d.index \/ d.ledger = "absent" THEN MayWrite(p) /\ Refused(p, "makeIndex")
    ELSE Alter(p, "makeIndex", "review", Indexed(d, TRUE))

CheckReviews(p) ==
  /\ Go(p, "review", IF View(p).batches = "old" THEN "rebuild" ELSE "commit")
  /\ IF View(p).batches = "old" THEN Commit(p) ELSE UNCHANGED stored
  /\ Quiet

Rebuilt(d) == [d EXCEPT !.batches = "new"]

(* One script in a transaction of its own; a second process does it again. *)
Rebuild(p) == Alter(p, "rebuild", "commit", Rebuilt(db))

(* Whether there is a table of lineage is read before the lock is taken. *)
CheckLineage(p) ==
  /\ Go(p, "commit", IF View(p).lineage THEN "keep" ELSE "backfill")
  /\ Commit(p)
  /\ Quiet

(* The replacement of a fact that is migrated first. *)
First(old, points) ==
  CHOOSE n \in {x[1] : x \in {y \in points : y[2] = old}} :
    \A m \in {x[1] : x \in {y \in points : y[2] = old}} : Rank[n] <= Rank[m]

Status(new, old, points) == IF new = First(old, points) THEN "active" ELSE "legacy_conflict"

Pointers(d) == {x \in d.points : x[1] # x[2]}

Backfilled(d) == {[old |-> x[2], new |-> x[1], status |-> Status(x[1], x[2], Pointers(d))] :
                    x \in Pointers(d)}

(* A row has the id of its pair, and a fact one active migrated edge. *)
Duplicate(d) ==
  \E e \in Backfilled(d), f \in d.edges :
    /\ f.status # "own" /\ e.old = f.old
    /\ \/ e.new = f.new
       \/ e.status = "active" /\ f.status = "active"

WithLineage(d, edges) == [d EXCEPT !.lineage = TRUE, !.edges = @ \cup edges]

BugBackfill(p) ==  \* the table is committed, and filled afterwards
  IF db.lineage THEN Alter(p, "backfill", "loop", WithLineage(db, Backfilled(db)))
  ELSE Alter(p, "backfill", "backfill", WithLineage(db, {}))

Backfill(p) ==
  IF Duplicate(db) THEN MayWrite(p) /\ Refused(p, "backfill")
  ELSE Alter(p, "backfill", "loop", WithLineage(db, Backfilled(db)))

Keep(p) == Alter(p, "keep", "loop", db)
-----------------------------------------------------------------------------
(* migrate_loop_schema *)

BugMissing(d) == {}  \* the version is believed

Missing(d) == Column \ d.columns

Migrated(d) == d.version = 4 /\ d.tables /\ Missing(d) = {}

CheckLoop(p) == Read(p, "loop", IF Migrated(db) THEN "ready" ELSE "tables")

WithTables(d) == IF d.tables THEN d ELSE [d EXCEPT !.tables = TRUE, !.columns = Column]

LoopTables(p) == Alter(p, "tables", "columns", WithTables(db))

CheckColumns(p) ==
  /\ Go(p, "columns", "alter") /\ UNCHANGED <<stored, deaths, history, torn>>
  /\ todo' = [todo EXCEPT ![p] = Missing(db)]

WithColumn(d, c) == [d EXCEPT !.columns = @ \cup {c}]

AddColumn(p, c) ==
  /\ pc[p] = "alter" /\ c \in todo[p]
  /\ IF c \in db.columns THEN MayWrite(p) /\ Refused(p, "alter")
     ELSE /\ Define(p, WithColumn(db, c))
          /\ todo' = [todo EXCEPT ![p] = @ \ {c}]
          /\ UNCHANGED <<pc, deaths, history, torn>>

ColumnsDone(p) == todo[p] = {} /\ Read(p, "alter", "version")

AtVersion(d) == [d EXCEPT !.version = 4]

SetVersion(p) == Alter(p, "version", "ready", AtVersion(db))
-----------------------------------------------------------------------------
(* What a process does with an open store, and deaths *)

Receipted(d, r) == [d EXCEPT !.rows = @ \cup {r}]

(* apply_review adds a receipt. *)
Import(p, r) ==
  /\ pc[p] = "ready" /\ db.ledger = "new"
  /\ r \notin given.rows \cup made
  /\ Define(p, Receipted(db, r))
  /\ made' = made \cup {r}
  /\ UNCHANGED <<pc, todo, deaths, given, torn>>

(* A scoped edge, and the pointer of a fact that has none. *)
Superseded(d, old, new) ==
  [d EXCEPT !.points = IF \E x \in @ : x[1] = new THEN @ ELSE @ \cup {<<new, old>>},
            !.edges = @ \cup {[old |-> old, new |-> new, status |-> "own"]}]

(* supersede_knowledge_for_entity, for one entity. *)
Supersede(p, old, new) ==
  /\ pc[p] = "ready" /\ old # new /\ old \notin db.shared
  /\ \A e \in db.edges : e.status = "own" /\ e.old = old => e.new = new
  /\ Define(p, Superseded(db, old, new))
  /\ UNCHANGED <<pc, todo, deaths, history, torn>>

(* A process dies, or gives up waiting for another writer. *)
Die(p) ==
  /\ deaths < MaxDeaths /\ deaths' = deaths + 1
  /\ pc[p] \notin {"start", "ready"}
  /\ pc' = [pc EXCEPT ![p] = "start"]
  /\ Rollback(p)
  /\ torn' = (torn \/ pc[p] = "markScoped" \/ writer = p)
  /\ UNCHANGED <<todo, history>>

Step(p) ==
  \/ CreateTables(p) \/ CheckScope(p) \/ AddScope(p) \/ MarkScoped(p)
  \/ CheckLedger(p) \/ Rename(p) \/ CreateLedger(p) \/ Copy(p) \/ Drop(p)
  \/ DropIndex(p) \/ MakeIndex(p) \/ CheckReviews(p) \/ Rebuild(p)
  \/ CheckLineage(p) \/ Backfill(p) \/ Keep(p)
  \/ CheckLoop(p) \/ LoopTables(p) \/ CheckColumns(p)
  \/ (\E c \in Column : AddColumn(p, c)) \/ ColumnsDone(p) \/ SetVersion(p)

Use(p) == (\E r \in Row : Import(p, r)) \/ \E old, new \in Fact : Supersede(p, old, new)

Next == \E p \in Proc : Step(p) \/ Use(p) \/ Die(p)

Spec == Init /\ [][Next]_vars

(* Hooks and commands keep opening the store. *)
FairSpec == Spec /\ \A p \in Proc : WF_vars(Step(p))
-----------------------------------------------------------------------------
(* Properties *)

(* A v0.4 pointer becomes one edge, and exactly one replacement of a fact,  *)
(* the first in the order, gets the active edge, however often and however  *)
(* concurrently the store is opened (initialize, lineage migration).        *)
PointersMigrateOnce ==
  db.lineage /\ ~ given.lineage =>
    \A x \in Pointers(given) :
      {e.status : e \in {f \in db.edges : f.old = x[2] /\ f.new = x[1] /\ f.status # "own"}}
        = {IF x[1] = First(x[2], Pointers(given)) THEN "active" ELSE "legacy_conflict"}

(* No receipt is lost or doubled: each is in the ledger or still in the    *)
(* table set aside, whichever step of the ledger migration a process died  *)
(* in and whoever else was at it (initialize, legacy ledger).              *)
ReceiptsKept ==
  /\ db.rows \cup db.asideRows = given.rows \cup made
  /\ db.rows \cap db.asideRows = {}

(* A process that was let through works with current tables: the claim of  *)
(* user_version is never ahead of the columns (initialize as a whole).     *)
ReadyIsCurrent ==
  \A p \in Proc : pc[p] = "ready" =>
    /\ db.knowledge = "new" /\ db.batches = "new" /\ db.ledger # "old"
    /\ db.lineage /\ Migrated(db) /\ db.columns = Column

(* Nobody else sees the facts of an entity, except while global_scope is   *)
(* being filled, or after the process that fills it died or was refused by *)
(* then: the column is committed before the rows are marked (initialize,   *)
(* global_scope).                                                          *)
ScopedUnlessTorn ==
  (\E p \in Proc : pc[p] = "ready") /\ given.knowledge = "old" =>
    \/ db.shared \cap Linked = {}
    \/ torn
    \/ \E p \in Proc : pc[p] = "markScoped" \/ writer = p

(* Every process gets to open the store, also a store that another one     *)
(* left in the middle of a migration (initialize as a whole).              *)
StartupSucceeds == \A p \in Proc : <>(pc[p] = "ready")
=============================================================================
