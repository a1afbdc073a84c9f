# Formal models of brain-ai-memory

TLA+ modules of the parts of brain-ai-memory in which several processes, crashes and retries
meet, the TLC instances that check them, and proofs that hold for every size of the system.
Paths such as `storage.py:669` are below `src/brain_ai_memory/`.

Run TLC on an `MC*.tla` with one of its `.cfg` files, and `tlapm` on a `*_proofs.tla`.
`PROJECT.json` lists the components, the runs, for each property a plausible bug that breaks it,
the lines each definition stands for, the findings, the hazards and the theorems.

## 1. The system

The program gives an AI agent a memory in one directory: a SQLite database (`state.sqlite3`),
three append-only JSONL streams (`events`, `audit`, `checkpoints`), lock files and generated
receipts. There is no server process. Host hooks, the MCP server and the command line each
construct a runtime, which first runs `MemoryStore.initialize`, and then work on the same files;
hooks live for a fraction of a second, may run at the same time, and may be killed by the host's
time limit. All coordination goes through SQLite's write lock, `flock` on sidecar files, and
stable ids that make a repeated step harmless.

| component | state | operations | what makes it hard | what makes it right | module |
|---|---|---|---|---|---|
| JSONL streams (`storage.py`, `privacy.py`) | lines, torn tail, quarantine files, lock | append, append once, read, repair the tail | death in the middle of a line or of a repair; retries by several processes | one line for one id; nothing acknowledged is lost; no evidence is cut off unkept | `JsonlStream`, `AppendLog` |
| Lifecycle loop (`loop.py`, `hook_cli.py`) | `loop_sessions`, `loop_events`, `loop_candidates`, `loop_checkpoints`, mirrors in the streams | claim, finish, mark dirty, admit, reserve, save, mirror; four recovery passes at the start of every hook | hooks overlap; a hook dies between SQLite and the stream; events are delivered again | work is counted once, is closed by a checkpoint that names it, mirrors follow the ledger, interrupted work is finished | `LoopLedger`, `WorkReceipts` |
| Semantic memory (`storage.py`) | `knowledge`, `memory_entities`, `knowledge_supersessions` | put, supersede for an entity, link, archive, delete | `put_knowledge` reads before its transaction begins | one replacement per fact and scope; a change for one entity leaves the others alone | `Knowledge` |
| Reviewed import (`workspace.py`) | `import_batches`, `import_ledger`, `import_dependencies`, review files | audit, review, apply, roll back | the store or the file moves on between review and apply; batches build on one another | an applied review is in effect; a rollback restores, or is refused | `ImportWorkflow` |
| Source freshness (`workspace.py`, `loop.py`) | `loop_source_freshness` | refresh, publish, clear, hold a command | a refresh reads batches, rows and files at different moments, without a lock | nothing is withheld without reason; the cache settles on what is stale | `SourceFreshness` |
| Opening a store (`storage.py`, `migrations.py`) | the schema and `user_version` | create, migrate, backfill | every process does it, two at once do too; only some steps share a transaction | receipts survive, pointers are migrated once, nobody gets in before the tables are current | `SchemaInit` |
| Host connection (`integrations.py`, `workspace.py`) | a host's MCP file and hook file, the ownership record, four locks | connect, disconnect, each a preview and up to four transactions | files are replaced one after the other beside a user's editor; a write, a flush or an undo fails | hooks and record agree; all of a command or nothing; foreign entries stay | `HostConnection` |
| Rules and gate (`storage.py`, `runtime.py`, `loop.py`) | `rules`, their links, `rule_admin_events`, the audit stream | add, link, quarantine, disable, enable, roll back, gate | the gate reads in separate transactions; the audit line is written after the change | nothing forbidden all along is allowed; one receipt for each change, and it reaches the audit | `RuleGate` |
| Search adapters (`adapters.py`) | one child process, its pending answers, the reader's queue | search, start, request, read, close | an answer after its deadline; a server that exits, is silent or speaks unasked | an answer goes to its own search; one child; every search ends | `McpClient` |
| Handoff and context (`loop.py`, `runtime.py`, `context.py`) | `loop_checkpoints`, the checkpoint stream, `handoff_deliveries`, a byte budget | hand off, recover, resume, deliver, assemble, acknowledge | lines are appended late, and in another order than their times; the delivery is recorded before the context is made | a session resumes the newest handoff; one that counts as delivered was shown | `SessionHandoff` |
| Entities, ontology, text ranking, configuration, MCP server, command line, control page, benchmarks | | | | | not modelled, see section 7 |

How they meet: the loop appends to the streams what the ledger has admitted, so
`LoopLedger` takes an append once as one atomic step, which is what `JsonlStream` shows it to be.
An import writes semantic memory beside its other writers, so `ImportWorkflow` EXTENDS
`Knowledge` and uses its rows and actions. Freshness compares what imports recorded with the
files. `SessionHandoff` takes the ledger's rows and the stream's appends as the atomic steps that
`LoopLedger` and `JsonlStream` show them to be, and adds who reads them. `RuleGate` begins each
command with the end of `initialize`, of which `SchemaInit` has the rest, and its rollback is the
one of `ImportWorkflow`, seen from the rules. `HostConnection` installs the hooks that all of
this is started by. Everything runs on tables `SchemaInit` brings up to date.

## 2. The modules

### JsonlStream, AppendLog

`JsonlStream` is one stream. `lines` are the complete physical lines, `tail` the unterminated one
a dead writer left (it may lack only its newline), `quarantine` the evidence file of each
possible tail. `_append_jsonl`, `_append_jsonl_once` and `_read_jsonl` are the actions
`StartAppend`/`StartRead`, `Lock`/`LockRead`, `Inspect`, `CreateQuarantine`, `FillQuarantine`,
`Truncate`, `Scan`, `Write`, `Read` and `Release`, one for each point at which a process can die
(`Crash`), write half a line (`TornWrite`) or get an I/O error (`IOError`). `AppendLog` is what
callers rely on: a log that only grows, in which a stable id is committed once and out of which
nobody learns of a record that is not there. `ImplementsAppendLog` says that every step of the
stream is a step of that log or changes nothing it speaks of.

### LoopLedger, WorkReceipts

One process per hook. `pc` and `stage` follow `LoopCoordinator.handle`: the passes over pending
candidates, interrupted PostToolUse events, interrupted terminal events and pending checkpoints
(`Take`, `Load...`, `EndPass`), then the hook's own event. One action is one SQLite transaction
or one stream append: `Claim`, `MarkNote`, `RecordCandidate`, `Acknowledge`, `Reserve`,
`SaveRecord`, `AppendCheckpoint`, `AppendAudit`, `MarkWritten`, `Finish`, `FinishError`. `Crash`
leaves at any of them; `Fail` is an exception inside a recovery, which the code swallows.
`dirty`/`covered` are the generations of `loop_sessions`, `outbox` is `loop_checkpoints`,
`marked`, `changes` and `status` are the other columns. `WorkReceipts` is the promise: each piece
of work is opened once and closed by one receipt together with all open work of its session, and
only an issued receipt is published.

### Knowledge

A row is its text (the content hash is unique). `put_knowledge` is three steps, because Python's
sqlite3 opens a transaction only at the first write: `StartPut` (the target of the replacement),
`ReadExisting` (the row with the same text), `WritePut`/`FailPut`. The other writers begin with
`BEGIN IMMEDIATE` and are one action each (`SupersedeFor`, `LinkEntity`, `Retire`).

### ImportWorkflow

EXTENDS `Knowledge`. A review is a record of the file's version, the entity, the store's revision
and the decisions; `apply_review` is `StartApply` (under the locks of the source) followed by
`CommitApply` or `RefuseApply`, `rollback_batch` is `StartRollback` (its reads) and
`CommitRollback` or `RefuseRollback`. `ImportItem` and `Undo` are what the two loops do with one
item; the loops themselves are the recursive functions `Progress` and `Retreat`, from the number
of items done to the rows by then. The revision, a digest in the code, is a number that no two different states of the tables
share. Files change (`EditFile`) and other writers write (`OtherDirect`, `SetState`) at any time.

### SourceFreshness

A refresh is `StartRefresh` (batches), `ReadRows` (ledger), then for each source `Observe` and,
when the file changed, `Audit` (the second read), and `Publish`. `Apply` commits, and `Clear`
deletes the cached row later. `LatestVersions` is the query for the latest batch of each source,
the source imported last first. The history variables `ever` and `always` keep, for a watched
refresh, what was gone at some moment it ran, and what was due at every one. `Gone` is what no
entry of the file supports any more; `Due` is that without the targets of a file that
`PassesAsCurrent` because it is the version applied last, which the code makes an exception of.

### SchemaInit

`db` is what is committed, `writer` and `draft` the one open transaction. `Define` is a schema
statement, which commits itself unless a transaction is open, `Modify` an INSERT or UPDATE, which
opens one. Each statement of `initialize` on which a migration depends is an action; a statement
that SQLite would refuse (a column, table or index that is already there, a table that is not)
ends in `Refused`, and the process starts again. Processes that are through import and supersede
(`Import`, `Supersede`) while others still migrate.

### HostConnection

`disk` is the three files: our entry in each (known by the package version that wrote it), the
entries of others, and, in the record, which files a connection created. A command is `Begin` (the
previews, which refuse), `ReadMcp`, `ReadHook`, `ReadBinding`, and for each of its transactions
(`Job`: the MCP entry, the removal of an MCP file we created, hooks and record, putting the MCP
file back) `Compare` or `Conflict` under the transaction's lock, one `Write` for each file,
`Verify` or `VerifyFails`, and `Undo`/`Undone`. `WriteFails` fails before the rename, `SyncFails`
after it, `UndoFails` in the middle of an undo; `Die` frees the locks and leaves the files.
`EditFile` is an editor, which takes no lock. The history variables keep what reached a file since
it was compared (`late`), the disk a command began with as long as nobody else writes (`ground`),
and whether a change was cut short for good (`torn`). An absent file and an empty one
differ, but for `connection_change`, which compares texts: there an absent file is the `Same` as a
TOML file without an entry (`Blank`; `Toml` says which kind the host has).

### RuleGate

A command is a process that opens the store (`Open`: quarantine; `MirrorOnOpen`: the audit) and
does one thing: `AddRule`, `LinkRule`, `Disable` and `Enable` with their `MirrorChange`, or a
question to the gate: `ReadQuarantines`, a `ReadScope` for the links of each row, `Review`,
`ReadRules`, a `ReadScope` for each of those rows, `Verdict`, each a read of its own.
`LegacyAdd` is a process of a version that admitted more, `RollBack` the rollback of an import. A
rule is what the gate makes of it: it blocks, warns or cannot be evaluated. `held` is history:
the rules that have forbidden an action at every moment since it was asked about, for one reason
or, now and then, for another.

### McpClient

A search takes the lock, uses the client that is there (`Reuse`) or starts one (`Start`,
`initialize`), sends its request (`Send`) and looks for the answer in the queue (`Get`), which the
reader thread fills (`ReadMessage`), until the deadline (`TimesOut`) or the exit of the child
(`SeesExit`). `Close` is what every failure ends in. The server is external and may do anything:
answer in any order or not at all, with a result or an error, say a line nobody asked for with any
id, exit.

### SessionHandoff

A hook process handles a start, prompt, stop or explicit handoff of a session. All but the last
begin with the recovery of the rows that are not in the stream (`Load`, `Mirror`, `Mark`); then a
stop reserves a row (`Stamp`, `Reserve`) and mirrors it, a start takes the latest handoff
(`Resume`), records the delivery (`Deliver`) and assembles the context (`Assemble`), and a prompt
acknowledges. The clock is its own actor, because a handoff is stamped before it is written.
Records are short or too long, `Fills` is the budget's loop as a relation between the bytes used
before and after each record. `shown` and `lost` are history.

Operators whose name begins with `Bug` are no part of a model: each is what a definition would be
if the code had a particular bug, kept beside the definition it replaces, and shows that the
property named in `PROJECT.json` notices it.

## 3. The runs

| run | question | bounds and why they are enough |
|---|---|---|
| `stream` | safety, refinement, and commitment of retries | two processes, a stable-id record and a plain one, three faults: two suffice to leave a tail and break its repair, a third to break the repair of that |
| `ledger` | safety of ledger, outbox and mirrors | two hooks, an edit, a note and a terminal payload that may come again with a newer generation, one fault, `MaxChanges` = 1 so that the cap is reached |
| `ledger_live` | interrupted work finishes, reported errors go; the ledger implements `WorkReceipts` | the same with an explicit checkpoint in place of the note |
| `ledger_retry` | do old retries leave newer work alone, as CHANGELOG.md says? violated | one edit, one explicit checkpoint |
| `knowledge` | do overlapping writers keep one replacement, recorded, in its scope? | two processes inside `put_knowledge`, three texts, two entities, four writes: a replacement, a competing one, a link and a mark in between |
| `import` | imports and rollbacks beside other writers | two sessions, two files (one changes), two entities, two batches, one other write; `Bound` lets only one session go on, to one batch, after the other write |
| `freshness` | fairness of a verdict, convergence of the cache | two refreshes, two files, `MaxTracked` = 1 so that one source is one too many, three changes; begins with a version that says one thing twice and another once, goes on to one that says the first once; a review takes one of the two, the rest, all or nothing, so that an entry whose line went away is reached beside an applied current version |
| `schema` | do two processes, of which one may die, open a store of any age? | an empty store, v0.4 with and without imports, a store with scopes and the old ledger, and one of an early loop release; two competing replacements of one fact; one old and one new receipt |
| `host` | do commands, an editor and failures leave the host's files right? | two processes that go on connecting and disconnecting, one edit of a host file, one failing write, flush or undo, any deaths: two commands and an edit already meet in each pair of files |
| `rules` | do receipts, audit and gate agree while everybody writes? | two processes, a rule of an older version that came with an import and a blocking rule of today's, one entity, two receipts a rule, one fault; `MaxActiveRules` = 1 so that two rules are one too many |
| `client` | does each search get its own answer, and end? | two threads, three searches (a child, a reuse, a restart), one unasked line with any id |
| `handoff` | does the next session get the newest handoff, and see it? | two processes, two sessions of one project or of two, two handoffs, two times, one fault; a budget of one long record and one short, or an envelope that fills it; `Roles` lets one session write only |

What the properties say is written above each of them. In short:

* **stream** `OnceCommittedOnce`, `KnownStaysReadable`, `EvidenceKept`, `ImplementsAppendLog`,
  `RetriesCommitUnlessEvidenceTorn`.
* **ledger** `EachGenerationIsOneEvent` (a generation is one event's work),
  `CheckpointNamesItsWork` (a checkpoint racing an edit neither drops nor doubles it),
  `MirrorsFollowLedger`, `StopCoversObservedWork`,
  `InterruptedWorkFinishes`, `HealthRecovers` (a session does not name a repaired error for good),
  `ImplementsWorkReceipts`.
* **knowledge** `OneReplacement`, `SupersededIsReplaced`, `GlobalIsUnlinked`, `ScopeIsolation`.
* **import** `ImportTakesEffect`, `RollbackRestores`, `RollbackSparesOthers`,
  `ImportStaysInScope`.
* **freshness** `VerdictIsFair`, `CacheSettles`.
* **schema** `PointersMigrateOnce`, `ReceiptsKept`, `ReadyIsCurrent`, `ScopedUnlessTorn`,
  `StartupSucceeds`.
* **host** `HooksMatchRecord` (else every later command is refused), `AllOrNothing`,
  `EditsSurvive` (an entry of somebody else goes only if it came after the comparison).
* **rules** `OneReceiptPerChange`, `NothingHeldIsAllowed`, `ReceiptsReachAudit`.
* **client** `OwnAnswer`, `OneServer`, `EverySearchEnds`.
* **handoff** `ResumesTheLatest`, `HandoffIsShown`.

Every bound is a constant whose comment says so, but for two state constraints, `Bound` and
`Roles`. Deadlock is checked wherever processes go on for ever; the other runs stop when their
bounded work is done and say so.

## 4. Fairness

* `JsonlStream`: a process in its critical section goes on (WF); `flock` lets every waiter in in
  the end, and a caller whose record is not acknowledged comes again, which is what the pending
  rows of the ledger make each hook do (SF, since the lock is free only now and then).
* `LoopLedger`: a hook that runs goes on, and hooks keep coming: `handle` runs the recovery passes
  on every event, whatever the event is. Nothing is assumed about any particular event.
* `SourceFreshness`: a started refresh goes on, hooks keep starting refreshes, and the deletion at
  the end of an apply happens unless its process dies.
* `SchemaInit`: a process that was refused, or died, is run again; a waiting writer gets its turn.
  Expired waits are among the bounded deaths.
* `RuleGate`: a command that runs goes on, and commands keep being run; each opens the store.
* `McpClient`: threads run, and a deadline passes. The server owes nothing.

## 5. The proofs

Every safety invariant and action property that a run checks, and both refinements, are theorems,
for any sets of processes and data and any bound. They are in eight modules, `X_proofs` beside `X`;
`ImportWorkflow_proofs` has those of `Knowledge` too, which it rests on, and
`GateAndFreshness_proofs` those of `RuleGate` and `SourceFreshness`. They assume no more than the
named assumptions of the modules (distinct sentinels, disjoint kinds of payloads, bounds in `Nat`),
with one exception, a finite set of payloads in the refinement of `LoopLedger`, see there.

* **JsonlStream.** `StreamInv` says, for each place of the critical section, what its holder
  knows of the file (`HolderInv`: there is a tail to repair, its evidence is in full, the record
  was not found), and that only one process is there (`LockInv`). What was learned under the lock
  stays true since no other process writes without it. `OnceCommittedOnce`, `KnownStaysReadable`
  and `EvidenceKept` are not inductive without it; with it, each step also maps to a step of
  `AppendLog` or a stutter, which is `StreamImplementsAppendLog`.
* **LoopLedger.** Nothing is locked between two transactions here, so what a hook learned holds
  later only because the tables and mirrors only grow (`LedgerGrows`, an action property of its
  own). `PlaceInv` says what each place has behind it: the row before the record, the record
  before the line, the line before the audit. `KeyInv` and `SeenInv` relate the generation in a
  terminal key to the session's counters, from which `StopCoversObservedWork` follows whoever
  claims the event. `NamesInv` is behind `CheckpointNamesItsWork`: the changes a session holds name
  each open piece of work once (`HeldInv`), and the newest receipt is the generation the session
  is covered up to (`ReceiptInv`), so what it holds is what was done since the last receipt.
  `LoopImplementsWorkReceipts` maps each step to one of `WorkReceipts` or a stutter. It is the one
  theorem with a hypothesis of its own, that the payloads that mark work are finitely many: the
  keys of the abstract module are given up to their number, which `dirty` never exceeds.
* **Knowledge.** What `put_knowledge` read may be out of date when it writes; `CallInv` is the
  part of it that cannot change: an existing row does not go away, and a row once seen scoped is
  never global again. `ScopeIsolationHolds` is the action property, proved from the invariant.
* **ImportWorkflow.** The loops are over a review of any length, so an invariant is proved of the
  `n`-th rows for each `n`. The prover cannot use an induction theorem whose argument is an
  operator, but a set of numbers that is not empty has a least one (`LeastNatural`, by the
  well-founded order), and so what holds at 0 and at successors holds `UpTo` the last item; that a
  recursive function equals its definition is proved in the same way (`ProgressIs`, `RetreatIs`).
  `Holds` is what an item leaves true for the rest of the loop, which is `ImportTakesEffect`.
  A rollback compares two revisions and then undoes the rows; what makes that enough is
  `HistoryInv`: there is a history with one picture of the tables for each revision, every batch
  lies between the pictures of its two revisions, and its rows are a `Chain` of pictures from one
  to the other. A store at the revision after the batch therefore has the picture after it, and
  undoing the chain, the last row first, ends in what is like the picture before it. Like it and
  not it, because a fact the import made is archived and not deleted; nobody sees it
  (`RollbackRestores`). `LedgerInv` says that each decision of a live batch has its row there or
  in a batch it depends on, so a batch that nobody depends on takes nothing from another
  (`RollbackSparesOthers`). `BareInv` says that a text that is not there has no links.
* **SchemaInit.** No step takes a committed migration back (`Ahead`, a preorder on databases;
  `NeverGoesBack`), so what a process found in its view at one place (`PlaceOK`) is still there at
  the next, whoever else migrates: that is `ReadyIsCurrent`. `ReceiptInv` adds that between the
  copy and the drop the receipts are there twice, but only in the draft of the process that
  copies. `LineageInv` says that a transaction changes no pointer, and that no pointer changes
  before there is a table of lineage; a second backfill is then refused by the indexes whenever
  there was a pointer to migrate, which is `PointersMigrateOnce`. `ScopeInv` says why the facts of
  entities may be in sight: some process is filling the column, holds the transaction that does,
  or did not get to its end; that is `ScopedUnlessTorn`. A step is classified once (`Plain`,
  `Lines`, `Facts`) by what it does to the database; each invariant then has a few cases.
* **HostConnection.** `PlanOK` says that the two changes of a lifecycle transaction lead from one
  owner to another in both files, and `HoldInv` that, while it holds its lock, each of the files
  has the owner that the number of writes done says it has: so whoever releases the lock, after
  all of the writes or none, leaves `HooksMatchRecord`. Edits keep the owner, and other commands
  compare under the same lock. For `EditsSurvive`, `Keep` says that every plan has the same
  entries of others before and after, a restore's and a clean-up's included, and that a file under
  comparison can differ from what was read only by what is in `late`. For `AllOrNothing`, which
  compares a whole run of a command with one step, `AloneInv` says at each of its places what the
  three files hold, in terms of what they held when it began; it speaks of commands that nobody
  disturbs and of disks on which no change was cut short, as the property does. `PlainInv` says
  that the hook file is never one that a connection created, so an undo puts back what was there.
* **RuleGate.** `RuleInv` relates a rule's last receipt to its status, from which
  `OneReceiptPerChange` follows for the next one. `HeldInv` follows a rule that is
  in `held`: it forbids in the scope now; once the reviews are read it is among the rows or those
  found, or else enforced; at the read of the rules it is enforced, since a review found ends the
  question; at the verdict it is among the rows or those found. A step that ends the enforcement of
  a rule between the two reads ends its review too (`StaysEnforced`), but for `RollBack`, which
  `BetweenReads` takes out of the history. That is `NothingHeldIsAllowedHolds`.
* **SourceFreshness.** `LatestVersions` chooses a source for each place; that there is exactly one
  is a counting argument: sources have different latest batches, a later one has a smaller place,
  and an injection between finite sets of one size is onto (`LatestVersionsAre`). Even the type
  of a refresh needs it, and that it audits a file only among the first `MaxTracked` (`Fits`). `FairInv`
  says of a refresh that is `Steady`, with no import changed since it began, that it goes through
  what the tables say now, and that each verdict so far lies between `always` and `ever`. An edit
  moves those two apart, never a verdict out of them. Of any other refresh nothing is owed
  (`Excused`).
* **McpClient.** `ChildInv`: whatever runs is the adapter's, or the lock holder's. `MatchInv`: a
  line about a search carries an id that was given out for it (`Belongs`), and an id is given out
  once for each child; a queue and its ids end with the child. Noise carries no hits.
* **SessionHandoff.** Tables, stream and deliveries only grow, and a durable handoff does not
  change (`Grows`). `DueInv` follows a handoff that was durable when a start began: it is in the
  stream, or a row still to be mirrored by this recovery, and by `Resume` in the stream.
  `HandoffIsShown` needs that the handoff comes first, so that a record no longer than the limit
  fits behind an envelope that leaves room for it.

Only model-checked is liveness: `RetriesCommitUnlessEvidenceTorn`, `InterruptedWorkFinishes`,
`HealthRecovers`, `CacheSettles`, `StartupSucceeds`, `ReceiptsReachAudit` and `EverySearchEnds`.
The prover has no support for liveness under fairness, for ENABLED, for induction with an operator as parameter or
for RECURSIVE operators; the modules it is used on have none.

## 6. What was found

One sentence of the documents has a run whose counterexample shows that it does not hold, and an
entry under `findings`: an explicit checkpoint that a later hook replays covers edits made after
it (`ledger_retry`, `loop.py:447`; CHANGELOG.md says that old retries cannot clear newer work).

What else was met while modelling, and is behaviour of the models without a property of its own:

1. A process that dies while it fills a quarantine file leaves a stream that refuses every later
   append (`storage.py:642`; SECURITY.md:90 says that interrupted mirrors are replayed).
2. A slow hook's error report can land after the work was repaired (`loop.py:274`). For a
   PostToolUse event the next recovery takes it back; for a terminal event whose checkpoint
   another hook has mirrored by then nothing does, and the session names that event as its error
   for good, although `loop.py:554` is there so that health does not remain stuck.
   `HealthRecovers` names this case, and without the exception TLC finds it.
3. Records of a line that went away become available again once any entry of the new version is
   applied (`workspace.py:788`; docs/08-autonomous-loop.md:44 says they are withheld).
   `PassesAsCurrent` is that exception, in `VerdictIsFair` and `CacheSettles`; the instance reaches it, and with `Gone`
   in the place of `Due` TLC finds the cache empty beside it.
4. The deletion at the end of an apply, outside its lock, lifts a hold that was published after
   its commit (`workspace.py:1813`).
5. A command that dies, or whose undo fails, between the hook file and the record leaves hooks that
   no record owns: every later connect and disconnect is refused until somebody edits the file. A
   rename whose directory flush fails is not put back either. An undo puts back what was read,
   over an edit that arrived after the comparison (`integrations.py:322`).
6. `reserve_checkpoint` reads its time before it takes the write lock, so a handoff reserved later
   may carry an earlier time (`loop.py:579`); `ResumesTheLatest` goes by the times.
7. A session start whose process dies while it assembles leaves a delivery that the next prompt
   acknowledges although nothing was shown, and so does a project name that fills the context;
   `HandoffIsShown` names both.
8. A request of the server's own that carries the id waited for is taken for an answer without
   hits; and a last answer between the child's exit and the reader thread is lost
   (`adapters.py:193`). Both end in the vault's own search.
9. A session-start or prompt event whose hook dies stays in status `processing`, since the
   recoveries look for others (`loop.py:350`). `put_knowledge` skips the link of a row it saw
   global although another writer may have narrowed it since (`storage.py:1078`).
10. A batch whose state decision was reported as imported already can still be overwritten:
   `seen_state_keys` (`workspace.py:1697`) has only the states a batch writes itself, and an entry
   found in an earlier batch goes on to the next one before it (`workspace.py:1540`), so a later
   state of the same file is written over it.
11. An enabled rule that an opening process puts under review after the gate has read the reviews
   (`runtime.py:97`), and that the rollback of its import disables (`workspace.py:1968`) before the
   gate reads the enabled rules (`runtime.py:111`), is in neither read: the action is allowed
   although the rule forbids it throughout. `NothingHeldIsAllowed` leaves out this rule; without
   the exception TLC finds the ten steps.
12. The pointer of a supersession that is made between the look for a table of lineage
   (`storage.py:469`) and the filling of it (`storage.py:522`) is taken for one of v0.4 and gets a
   second, unscoped edge; `PointersMigrateOnce` is about the pointers of v0.4 only.

Several properties name an exception because the code has it. `RetriesCommitUnlessEvidenceTorn`:
see 1. `HealthRecovers`: 2. `VerdictIsFair` and `CacheSettles`: 3. `HooksMatchRecord` and
`AllOrNothing`: 5. `HandoffIsShown`: 7. `ImportTakesEffect`: 10. `NothingHeldIsAllowed`: 11.
`ScopedUnlessTorn`: the column `global_scope` is committed with every fact global, and only
then are the facts of entities marked, in the transaction that also migrates the ledger. If the
process dies there, or is refused later in that transaction because another one migrated the
ledger at the same time, the mark is rolled back and the column, which is there, is never filled
again. In the same way a receipt in the table set aside stays there after a death
(`ReceiptsKept` says it is kept, not that it is migrated), and a process that found the old ledger
may rename the new one after another process made it.

## 7. What is not modelled

* Ranking and vector arithmetic (`text.py`, parts of `adapters.py`): floating-point.
* `cli.py`, `mcp_server.py`, `control.py`, `config.py`: arguments, formats and calls of one
  operation each.
* Entities and relations: single statements under unique indexes.
* Wording, digests and encodings, everywhere: a digest is its argument, a text a model value.
* In the loop: prompts' audit lines. In the import: episodes, the receipt
  file and the audit line, which nothing reads later. In the schema: tables no step alters, and
  databases of later releases, which are refused.
* In host connections: symbolic links, a configuration directory that is replaced during a
  command, backups, file modes, entries that are malformed. In the gate: patterns and matching, the
  builtin rules, the exclusion of rules from stale sources, the execution of an approved command.
  In contexts: what records say, duplicates, the context of a prompt.
* File permissions, symbolic links and the contents of the runtime directory.

## 8. Plan

In the order of what the system stands on: `JsonlStream`, `LoopLedger`, `Knowledge`,
`ImportWorkflow`, `SourceFreshness`, `SchemaInit`, `HostConnection`, `RuleGate`, `McpClient` and
`SessionHandoff` are there, and with them every part in which processes meet. What could come:
the episodes and receipts of an import; the exclusion of stale rules by the gate, composing
`RuleGate` with `SourceFreshness`; `SessionHandoff` over the ledger of `LoopLedger`.

Further theorems worth proving are those about what could come. What is left of the present
properties is liveness, for which the lemmas a proof by hand would need, that each step of a
recovery or a refresh makes progress, could be proved one by one.
