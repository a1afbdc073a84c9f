---------------------------- MODULE ImportWorkflow ----------------------------
(***************************************************************************)
(* The reviewed import of Markdown files and its rollback, over the        *)
(* semantic memory of Knowledge and against its other writers.             *)
(*                                                                         *)
(* A review is tied to the version of its source file and to the revision  *)
(* of the store.  apply_review looks for an earlier batch of the review    *)
(* first and decides again inside one transaction.  rollback_batch reads   *)
(* the batch before its transaction begins.  The receipt and the audit     *)
(* line, which follow the commit and decide nothing later, are left out,   *)
(* and so is the cached freshness row the next apply clears.               *)
(*                                                                         *)
(* The revision is the digest of the logical rows.  Every row a write      *)
(* touches carries the time of that write, which never recurs, so a write  *)
(* makes a revision that was never seen; only an undo that restores each   *)
(* row it touched as it was goes back to an old revision.  Episodes are    *)
(* imported like rules and left out; put_knowledge has made the facts that *)
(* are there from the start.                                               *)
(***************************************************************************)
EXTENDS Knowledge, Sequences

CONSTANTS Session,  \* processes that review, apply and roll back
          Source, Version, \* Markdown files, and the contents they may have
          Entry,    \* the entries of all versions; an entry is its fingerprint,
                    \* the version and its place in it
          SourceOf, \* the file of each version
          Items,    \* the entries of each version, in the order of their ids
          TextOf,   \* the text of each entry
          Kinds,    \* the actions a reviewer may choose for each entry
          MaxBatches, \* bound: no batch begins after so many
          GivenGlobal, GivenLinks, \* facts that are there from the start
          Unset, Said, \* no state, and a state set by another writer
          NoJob

Action == {"semantic", "supersede", "state", "rule"}

Decision == [entry : Entry, action : Action \cup {"skip"}, old : Text \cup {NoText}]

(* A review's identity is all of it. *)
Review == [version : Version, entity : Entity, revision : Nat,
           decisions : Seq(Decision)]

(* What the ledger keeps of an imported item, for its undo. *)
Row == [entry : Entry, action : Action, old : Text \cup {NoText},
        created : BOOLEAN, reactivated : BOOLEAN, linked : BOOLEAN,
        emptied : BOOLEAN, before : Entry \cup {Unset, Said}]

Job == [at : {"apply"}, review : Review]
       \cup [at : {"rollback"}, by : {"batch", "review"}, batch : Nat]

ASSUME ImportAssumption ==
  /\ SourceOf \in [Version -> Source]
  /\ Items \in [Version -> Seq(Entry)]
  /\ \A v, w \in Version : \A m \in DOMAIN Items[v], n \in DOMAIN Items[w] :
       Items[v][m] = Items[w][n] => <<v, m>> = <<w, n>>
  /\ TextOf \in [Entry -> Text]
  /\ Kinds \in [Entry -> SUBSET Action]
  /\ MaxBatches \in Nat
  /\ GivenGlobal \subseteq Text /\ GivenLinks \subseteq Text \X Entity
  /\ \A l \in GivenLinks : l[1] \notin GivenGlobal
  /\ NoJob \notin Job

VARIABLES file,    \* the version of each source file
          clock,   \* how many revisions the store has had
          revision, \* the present one
          state,   \* entity_state: one key, by the entry that set it
          rules,   \* enabled imported rules: batch and entry
          batches, \* import_batches with their ledger rows
          live,    \* batches whose ledger rows are active
          deps,    \* import_dependencies: dependent and provider batch
          job      \* what each session is doing

imports == <<clock, revision, state, rules, batches, live, deps>>
importVars == <<file, imports, job>>
allVars == <<vars, importVars>>

ImportTypeOK ==
  /\ TypeOK
  /\ file \in [Source -> Version]
  /\ clock \in Nat /\ revision \in 0 .. clock
  /\ state \in [Entity -> Entry \cup {Unset, Said}]
  /\ rules \subseteq (DOMAIN batches) \X Entry
  /\ \A k \in DOMAIN batches :
       /\ batches[k].review \in Review
       /\ batches[k].status \in {"applied", "rolled_back"}
       /\ batches[k].after \in Nat
       /\ batches[k].rows \in Seq(Row)
  /\ live \subseteq DOMAIN batches
  /\ deps \subseteq (DOMAIN batches) \X (DOMAIN batches)
  /\ job \in [Session -> Job \cup {NoJob}]

ImportInit ==
  /\ status = [t \in Text |->
       IF t \in GivenGlobal \/ \E e \in Entity : <<t, e>> \in GivenLinks
       THEN "active" ELSE "absent"]
  /\ global = GivenGlobal /\ links = GivenLinks /\ edges = {}
  /\ pc = [p \in Proc |-> "idle"] /\ call = [p \in Proc |-> NoCall]
  /\ writes = 0
  /\ file \in [Source -> Version] /\ \A s \in Source : SourceOf[file[s]] = s
  /\ clock = 0 /\ revision = 0
  /\ state = [e \in Entity |-> Unset]
  /\ rules = {} /\ live = {} /\ deps = {}
  /\ batches = <<>>
  /\ job = [p \in Session |-> NoJob]

Applied(k) == batches[k].status = "applied"

-----------------------------------------------------------------------------
(* Applying one decision, on a copy of the rows: rows are lost when any item *)
(* of the review fails.                                                      *)

Store == [status |-> status, global |-> global, links |-> links, edges |-> edges,
          state |-> state, rules |-> rules, rows |-> <<>>, deps |-> {}, ok |-> TRUE]

Failed(S) == [S EXCEPT !.ok = FALSE]

BugRuleId(k, entry) == <<entry, k>>  \* the wrong way round

RuleId(k, entry) == <<k, entry>>

(* The batches that hold the same decision about the same entry; the unique *)
(* index on active ledger rows allows one, and this lookup leaves it nothing *)
(* to refuse.                                                               *)
Priors(d, e) ==
  {k \in live : /\ batches[k].review.entity = e
                /\ \E n \in DOMAIN batches[k].rows :
                     LET row == batches[k].rows[n] IN
                       row.entry = d.entry /\ row.action = d.action /\ row.old = d.old}

BugCurrent(S, d, e, k) ==  \* the fact need not be linked to the entity
  LET t == TextOf[d.entry] IN
  \/ d.action \in {"semantic", "supersede"} /\ S.status[t] = "active"
  \/ d.action = "rule" /\ RuleId(k, d.entry) \in S.rules
  \/ d.action = "state" /\ S.state[e] = d.entry

(* _prior_import_is_current *)
Current(S, d, e, k) ==
  LET t == TextOf[d.entry] IN
  \/ /\ d.action \in {"semantic", "supersede"}
     /\ S.status[t] = "active" /\ (t \in S.global \/ <<t, e>> \in S.links)
     /\ d.action = "supersede" => /\ <<d.old, e>> \notin S.links
                                  /\ <<d.old, t, e>> \in S.edges
  \/ d.action = "rule" /\ RuleId(k, d.entry) \in S.rules
  \/ d.action = "state" /\ S.state[e] = d.entry

(* The texts an item may not be imported onto or may not replace. *)
Refused(S, d, e) ==
  LET t == TextOf[d.entry] IN
  \/ /\ d.action \in {"semantic", "supersede"}
     /\ S.status[t] \notin {"absent", "active"}
     /\ \/ S.status[t] # "archived" \/ t \in S.global
        \/ \E l \in S.links : l[1] = t
  \/ /\ d.action = "supersede"
     /\ \/ S.status[d.old] # "active" \/ d.old \in S.global
        \/ <<d.old, e>> \notin S.links \/ d.old = t
        \/ \E edge \in S.edges : edge[1] = d.old /\ edge[3] = e /\ edge[2] # t
  \/ d.action = "state" /\ \E n \in DOMAIN S.rows : S.rows[n].action = "state"

NeedsLink(S, t, e, kept) == t \notin S.global /\ <<t, e>> \notin kept

BugEmptied(old, kept) == TRUE  \* other entities' links are not counted

Emptied(old, kept) == \A l \in kept : l[1] # old

(* A semantic row is inserted, revived or reused, and linked unless global; *)
(* a superseded one loses this entity's link, and goes with its last link.  *)
ImportFact(S, d, e) ==
  LET t == TextOf[d.entry]
      replaces == d.action = "supersede"
      kept == IF replaces THEN S.links \ {<<d.old, e>>} ELSE S.links
      emptied == replaces /\ Emptied(d.old, kept)
      linked == NeedsLink(S, t, e, kept)
      row == [entry |-> d.entry, action |-> d.action, old |-> d.old,
              created |-> S.status[t] = "absent",
              reactivated |-> S.status[t] = "archived",
              linked |-> linked, emptied |-> emptied, before |-> Unset]
  IN [S EXCEPT
        !.status = [u \in Text |-> IF u = t THEN "active"
                                   ELSE IF emptied /\ u = d.old THEN "superseded"
                                   ELSE S.status[u]],
        !.links = IF linked THEN kept \cup {<<t, e>>} ELSE kept,
        !.edges = IF replaces THEN @ \cup {<<d.old, t, e>>} ELSE @,
        !.rows = Append(@, row)]

ImportOther(S, d, e, k) ==
  LET row == [entry |-> d.entry, action |-> d.action, old |-> NoText,
              created |-> d.action = "rule" \/ S.state[e] = Unset,
              reactivated |-> FALSE, linked |-> d.action = "rule",
              emptied |-> FALSE,
              before |-> IF d.action = "state" THEN S.state[e] ELSE Unset]
  IN IF d.action = "state"
     THEN [S EXCEPT !.state[e] = d.entry, !.rows = Append(@, row)]
     ELSE [S EXCEPT !.rules = @ \cup {RuleId(k, d.entry)}, !.rows = Append(@, row)]

ImportItem(S, d, e, k) ==
  IF ~ S.ok \/ d.action = "skip" THEN S
  ELSE IF Priors(d, e) # {}
  THEN IF \A j \in Priors(d, e) : Current(S, d, e, j)
       THEN [S EXCEPT !.deps = @ \cup {<<k, j>> : j \in Priors(d, e)}]
       ELSE Failed(S)
  ELSE IF Refused(S, d, e) THEN Failed(S)
  ELSE IF d.action \in {"semantic", "supersede"} THEN ImportFact(S, d, e)
  ELSE ImportOther(S, d, e, k)

(* The rows after each number of decisions. *)
Progress(review, k) ==
  LET S[n \in 0 .. Len(review.decisions)] ==
        IF n = 0 THEN Store
        ELSE ImportItem(S[n - 1], review.decisions[n], review.entity, k)
  IN  S

Import(review, k) == Progress(review, k)[Len(review.decisions)]

(* A row that found everything in place wrote nothing but itself. *)
Inert(row) == /\ row.action = "semantic"
              /\ ~ row.created /\ ~ row.reactivated /\ ~ row.linked

(* An undo of these rows leaves the logical rows as they were before. *)
Exact(row) == \/ row.action = "state"
              \/ row.action = "semantic" /\ ~ row.created /\ ~ row.reactivated

-----------------------------------------------------------------------------
(* The undo of one ledger row *)

Undo(S, row, e, k) ==
  LET t == TextOf[row.entry] IN
  IF row.action = "state" THEN [S EXCEPT !.state[e] = row.before]
  ELSE IF row.action = "rule" THEN [S EXCEPT !.rules = @ \ {RuleId(k, row.entry)}]
  ELSE LET replaces == row.action = "supersede" IN
       [S EXCEPT
          !.status = [u \in Text |->
                        IF u = t /\ (row.created \/ row.reactivated) THEN "archived"
                        ELSE IF u = row.old /\ row.emptied THEN "active"
                        ELSE S.status[u]],
          !.links = (IF row.linked THEN @ \ {<<t, e>>} ELSE @)
                    \cup (IF replaces THEN {<<row.old, e>>} ELSE {}),
          !.edges = IF replaces THEN @ \ {<<row.old, t, e>>} ELSE @]

BugRetreat(k) ==  \* in the order of the import
  LET S[n \in 0 .. Len(batches[k].rows)] ==
        IF n = 0 THEN Store
        ELSE Undo(S[n - 1], batches[k].rows[n], batches[k].review.entity, k)
  IN  S

(* The rows after each number of ledger rows undone, the last one first.    *)
Retreat(k) ==
  LET undone == batches[k].rows
      S[n \in 0 .. Len(undone)] ==
        IF n = 0 THEN Store
        ELSE Undo(S[n - 1], undone[Len(undone) + 1 - n], batches[k].review.entity, k)
  IN  S

Undone(k) == Retreat(k)[Len(batches[k].rows)]

BugDepended(k) ==  \* only recorded dependencies count
  \E j \in DOMAIN batches : <<j, k>> \in deps /\ Applied(j)

(* A later batch relies on what the batch brought: by an import it did not  *)
(* repeat, or by the same text, in the same scope or as a whole.            *)
Depended(k) ==
  \/ \E j \in DOMAIN batches : <<j, k>> \in deps /\ Applied(j)
  \/ \E n \in DOMAIN batches[k].rows : LET row == batches[k].rows[n] IN
       /\ row.action \in {"semantic", "supersede"}
       /\ row.created \/ row.reactivated \/ row.linked
       /\ \E j \in live \ {k} :
            /\ Applied(j)
            /\ \E m \in DOMAIN batches[j].rows :
                 /\ batches[j].rows[m].action \in {"semantic", "supersede"}
                 /\ TextOf[batches[j].rows[m].entry] = TextOf[row.entry]
            /\ \/ row.created \/ row.reactivated
               \/ batches[j].review.entity = batches[k].review.entity

(* A revision that was never seen. *)
Touch == clock' = clock + 1 /\ revision' = clock'

Still == UNCHANGED <<clock, revision>>

SetRows(S) ==
  /\ status' = S.status /\ global' = S.global /\ links' = S.links /\ edges' = S.edges
  /\ state' = S.state /\ rules' = S.rules

Holding(p) == job[p] # NoJob
-----------------------------------------------------------------------------
(* Review *)

(* What a reviewer of an entity may decide about an entry now. *)
Options(entry, e) ==
  {[entry |-> entry, action |-> "skip", old |-> NoText]}
  \cup {[entry |-> entry, action |-> a, old |-> NoText] : a \in Kinds[entry] \ {"supersede"}}
  \cup {[entry |-> entry, action |-> "supersede", old |-> old] :
          old \in {t \in Text : /\ "supersede" \in Kinds[entry]
                                /\ Active(t) /\ t \notin global /\ <<t, e>> \in links}}

(* build_review, against the file and the store of now; a review that        *)
(* imports nothing is never applied.                                        *)
NewReviews ==
  UNION {LET items == Items[file[s]] IN
         {[version |-> file[s], entity |-> e, revision |-> revision, decisions |-> ds] :
            ds \in {f \in [DOMAIN items -> UNION {Options(items[n], e) : n \in DOMAIN items}] :
                     /\ \A n \in DOMAIN items : f[n].entry = items[n]
                     /\ \E n \in DOMAIN items : f[n].action # "skip"}}
         : s \in Source, e \in Entity}

EditFile(s, v) ==
  /\ SourceOf[v] = s /\ v # file[s]
  /\ file' = [file EXCEPT ![s] = v]
  /\ UNCHANGED <<vars, imports, job>>

-----------------------------------------------------------------------------
(* apply_review *)

BatchOf(review) == {k \in DOMAIN batches : batches[k].review = review /\ Applied(k)}

(* _workflow_lock of the source path, held until the transaction ends. *)
SourceFree(s) == \A q \in Session :
  Holding(q) => ~ (job[q].at = "apply" /\ SourceOf[job[q].review.version] = s)

(* The lookup, and the file read again, before the transaction. *)
StartApply(p, review) ==
  /\ job[p] = NoJob /\ SourceFree(SourceOf[review.version])
  /\ BatchOf(review) = {}
  /\ file[SourceOf[review.version]] = review.version
  /\ Len(batches) < MaxBatches
  /\ job' = [job EXCEPT ![p] = [at |-> "apply", review |-> review]]
  /\ UNCHANGED <<vars, file, imports>>

(* The unique index on the reviews of current batches stands behind the lock. *)
Commits(review) ==
  /\ revision = review.revision
  /\ BatchOf(review) = {}
  /\ Import(review, Len(batches) + 1).ok
  /\ file[SourceOf[review.version]] = review.version

RefuseApply(p) ==
  /\ Holding(p) /\ job[p].at = "apply" /\ ~ Commits(job[p].review)
  /\ job' = [job EXCEPT ![p] = NoJob]
  /\ UNCHANGED <<vars, file, imports>>

What(e) == [seen |-> Visible(e), state |-> state[e]]

CommitApply(p) ==
  LET review == job[p].review
      k == Len(batches) + 1
      S == Import(review, k)
  IN
    /\ Holding(p) /\ job[p].at = "apply" /\ Commits(review)
    /\ SetRows(S)
    /\ IF \A n \in DOMAIN S.rows : Inert(S.rows[n]) THEN Still ELSE Touch
    /\ batches' = Append(batches,
         [review |-> review, status |-> "applied", after |-> revision', rows |-> S.rows,
          was |-> [e \in Entity |-> What(e)]])
    /\ live' = live \cup {k}
    /\ deps' = deps \cup S.deps
    /\ job' = [job EXCEPT ![p] = NoJob]
    /\ UNCHANGED <<pc, call, writes, file>>

-----------------------------------------------------------------------------
(* rollback_batch *)

(* _workflow_lock of the reference, a batch or a review. *)
ReferenceFree(k, by) == \A q \in Session :
  Holding(q) /\ job[q].at = "rollback" =>
    ~ (job[q].by = by /\ batches[job[q].batch].review = batches[k].review
       /\ (by = "batch" => job[q].batch = k))

StartRollback(p, k, by) ==
  /\ job[p] = NoJob /\ Applied(k) /\ ReferenceFree(k, by)
  /\ job' = [job EXCEPT ![p] = [at |-> "rollback", by |-> by, batch |-> k]]
  /\ UNCHANGED <<vars, file, imports>>

RollsBack(k) == ~ Depended(k) /\ revision = batches[k].after

RefuseRollback(p) ==
  /\ Holding(p) /\ job[p].at = "rollback" /\ ~ RollsBack(job[p].batch)
  /\ job' = [job EXCEPT ![p] = NoJob]
  /\ UNCHANGED <<vars, file, imports>>

CommitRollback(p) ==
  LET k == job[p].batch
      undone == batches[k].rows
  IN
    /\ Holding(p) /\ job[p].at = "rollback" /\ RollsBack(k)
    /\ SetRows(Undone(k))
    /\ IF \A n \in DOMAIN undone : Inert(undone[n]) THEN Still
       ELSE IF \A n \in DOMAIN undone : Exact(undone[n])
       THEN revision' = batches[k].review.revision /\ UNCHANGED clock
       ELSE Touch
    /\ batches' = [batches EXCEPT ![k].status = "rolled_back"]
    /\ live' = live \ {k}
    /\ job' = [job EXCEPT ![p] = NoJob]
    /\ UNCHANGED <<pc, call, writes, deps, file>>

(* The session dies; its locks go with it. *)
Crash(p) ==
  /\ Holding(p)
  /\ job' = [job EXCEPT ![p] = NoJob]
  /\ UNCHANGED <<vars, file, imports>>

-----------------------------------------------------------------------------
(* The other writers change the revision with every row they touch. *)
Elsewhere == UNCHANGED <<file, state, rules, batches, live, deps, job>>

OtherDirect == Direct /\ Elsewhere /\ Touch

(* set_state *)
SetState(e) ==
  /\ MayStart /\ Commit /\ Touch
  /\ state' = [state EXCEPT ![e] = Said]
  /\ UNCHANGED <<rows, pc, call, file, rules, batches, live, deps, job>>

Apply(p) ==
  \/ \E review \in NewReviews \cup {batches[k].review : k \in DOMAIN batches} :
       StartApply(p, review)
  \/ RefuseApply(p) \/ CommitApply(p)

Rollback(p) ==
  \/ \E k \in DOMAIN batches, by \in {"batch", "review"} : StartRollback(p, k, by)
  \/ RefuseRollback(p) \/ CommitRollback(p)

Others == \/ \E s \in Source, v \in Version : EditFile(s, v)
          \/ OtherDirect
          \/ \E e \in Entity : SetState(e)

ImportNext == Others \/ \E p \in Session : Apply(p) \/ Rollback(p) \/ Crash(p)

ImportSpec == ImportInit /\ [][ImportNext]_allVars
-----------------------------------------------------------------------------
(* Properties *)

RolledBack(k) == Applied(k) /\ batches'[k].status = "rolled_back"

(* A rollback brings back what every entity saw and the exact state it had  *)
(* before the batch, or is refused.                                         *)
RollbackRestores ==
  [][\A k \in DOMAIN batches : RolledBack(k) =>
       \A e \in Entity : What(e)' = batches[k].was[e]]_allVars

(* What an applied batch gave its entity: the facts it sees, the state and  *)
(* the rules it has.                                                        *)
Gives(k, n) ==
  LET d == batches[k].review.decisions[n]
      e == batches[k].review.entity
  IN \/ d.action \in {"semantic", "supersede"} /\ TextOf[d.entry] \in Visible(e)
     \/ d.action = "state" /\ state[e] = d.entry
     \/ d.action = "rule" /\ \E j \in DOMAIN batches : RuleId(j, d.entry) \in rules

(* "refuses to invalidate a later applied batch that still depends on the   *)
(* same imported target": a rollback takes nothing away from another batch. *)
RollbackSparesOthers ==
  [][\A k \in DOMAIN batches : RolledBack(k) =>
       \A j \in DOMAIN batches \ {k} : Applied(j) =>
         \A n \in DOMAIN batches[j].review.decisions : Gives(j, n) => Gives(j, n)']_allVars

(* A batch is applied only with every decision of its review in effect: an   *)
(* import it does not repeat still holds, whatever happened to it since.     *)
(* Only a decision that replaces the same text may undo another, or a later  *)
(* one that sets the same state: two of them are refused only when the batch *)
(* writes both.                                                              *)
ImportTakesEffect ==
  [][\A k \in DOMAIN batches' \ DOMAIN batches :
       LET decided == batches'[k].review.decisions IN
       \A n \in DOMAIN decided :
         \/ decided[n].action = "skip"
         \/ \E m \in DOMAIN decided : decided[m].old = TextOf[decided[n].entry]
         \/ /\ decided[n].action = "state"
            /\ \E m \in DOMAIN decided : m > n /\ decided[m].action = "state"
         \/ Gives(k, n)']_allVars

(* An import and its rollback change what no other entity sees. *)
ImportStaysInScope ==
  [][\A k \in DOMAIN batches' : k \notin DOMAIN batches \/ RolledBack(k) =>
       \A e \in Entity \ {batches'[k].review.entity} : What(e)' = What(e)]_allVars
=============================================================================
