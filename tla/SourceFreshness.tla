--------------------------- MODULE SourceFreshness ---------------------------
(***************************************************************************)
(* The cached comparison of imported Markdown files with what they hold    *)
(* now.  Hooks refresh it (inspect_source_freshness, then                  *)
(* replace_source_freshness) while people edit the files, apply reviews    *)
(* and roll imports back.  A refresh reads the batches, the ledger rows    *)
(* and each file at different moments, holds no lock, and publishes at the *)
(* end; context assembly and the command gate read only what is published. *)
(*                                                                         *)
(* One entity.  A fragment stands for the bytes of an entry; its target is *)
(* the fact, state or rule the import made of it.  A rollback is refused   *)
(* once the store changed, so batches are rolled back last first; batches  *)
(* that wrote nothing of their own are no exception here.                  *)
(***************************************************************************)
EXTENDS Integers, Sequences, FiniteSets

CONSTANTS Hook,       \* hook processes that refresh
          Watched,    \* those whose refresh has a history
          Source, Version, \* files, and the contents they may have
          SourceOf,   \* the file of each version
          Fragment, Fragments, \* the fragments of each version
          Target, TargetOf, \* what the import of a fragment makes
          Removable,  \* the files that may be removed
          MaxTracked, \* MAX_TRACKED_IMPORT_SOURCES
          MaxChanges, \* bound: edits, imports, rollbacks, failed refreshes
          Missing, Idle

VARIABLES file,     \* what each source file holds
          batches,  \* import_batches: version, imported fragments, status
          clearing, \* batches whose apply has yet to delete the cached row
          cached,   \* loop_source_freshness: the stale targets of each source
          hook,     \* how far each refresh is
          changes,  \* the spent bound
          ever, always \* history: what was gone at some moment of a refresh,
                       \* and what was stale at every one

imports == <<batches, clearing>>
freshVars == <<file, imports, cached, hook, changes, ever, always>>

Batch == [version : Version, rows : SUBSET Fragment, applied : BOOLEAN]

(* What a refresh holds: the sources with their latest version, latest first; *)
(* the imported fragments of each; and the verdicts so far.                   *)
Refreshing == [at : {"rows", "observe", "audit"}, latest : Seq(Version),
               rows : [Source -> SUBSET Fragment], report : Seq(SUBSET Target)]

ASSUME FreshnessAssumption ==
  /\ Watched \subseteq Hook
  /\ SourceOf \in [Version -> Source] /\ Missing \notin Version
  /\ Fragments \in [Version -> SUBSET Fragment]
  /\ TargetOf \in [Fragment -> Target]
  /\ Removable \subseteq Source
  /\ MaxTracked \in Nat /\ MaxChanges \in Nat
  /\ Idle \notin Refreshing

FreshTypeOK ==
  /\ file \in [Source -> Version \cup {Missing}]
  /\ \A s \in Source : file[s] # Missing => SourceOf[file[s]] = s
  /\ batches \in Seq(Batch)
  /\ clearing \subseteq DOMAIN batches
  /\ cached \in [Source -> SUBSET Target]
  /\ hook \in [Hook -> Refreshing \cup {Idle}]
  /\ \A h \in Hook : hook[h] # Idle =>
       /\ Len(hook[h].report) <= Len(hook[h].latest)
       /\ \A m, n \in DOMAIN hook[h].latest :
            SourceOf[hook[h].latest[m]] = SourceOf[hook[h].latest[n]] => m = n
  /\ changes \in 0 .. MaxChanges
  /\ ever \in [Watched -> [Source -> SUBSET Target]]
  /\ always \in [Watched -> [Source -> SUBSET Target]]

Nothing == [s \in Source |-> {}]

FreshInit ==
  /\ file \in [Source -> Version] /\ \A s \in Source : SourceOf[file[s]] = s
  /\ batches = <<>> /\ clearing = {} /\ cached = Nothing
  /\ hook = [h \in Hook |-> Idle]
  /\ changes = 0
  /\ ever = [h \in Watched |-> Nothing] /\ always = [h \in Watched |-> Nothing]
-----------------------------------------------------------------------------
(* What the tables say *)

AppliedOf(s) == {k \in DOMAIN batches : batches[k].applied /\ SourceOf[batches[k].version] = s}

Rows(s) == UNION {batches[k].rows : k \in AppliedOf(s)}

(* The latest batch of each source that has one. *)
LatestOf(s) == CHOOSE k \in AppliedOf(s) : \A j \in AppliedOf(s) : j <= k

Known == {s \in Source : AppliedOf(s) # {}}

(* The source imported last comes first. *)
Place(s) == Cardinality({u \in Known : LatestOf(u) >= LatestOf(s)})

BugLatest ==  \* every batch, applied again or rolled back
  [n \in DOMAIN batches |-> batches[n].version]

BugAllButLast ==  \* the source imported first is left out
  [n \in 1 .. Cardinality(Known) - 1 |->
     batches[LatestOf(CHOOSE s \in Known : Place(s) = n)].version]

LatestVersions == [n \in 1 .. Cardinality(Known) |->
                     batches[LatestOf(CHOOSE s \in Known : Place(s) = n)].version]

Targets(fragments) == {TargetOf[f] : f \in fragments}

BugStale(rows, held) == Targets(rows \ held)  \* though another fragment holds it

(* A target is stale when no imported fragment of it is in the file.  *)
Stale(rows, held) == Targets(rows \ held) \ Targets(rows \cap held)
-----------------------------------------------------------------------------
(* People and reviews *)

Spend == changes < MaxChanges /\ changes' = changes + 1

Edit(s, v) ==
  /\ Spend /\ v # file[s]
  /\ IF v = Missing THEN s \in Removable ELSE SourceOf[v] = s
  /\ file' = [file EXCEPT ![s] = v]
  /\ UNCHANGED <<imports, cached, hook>>

(* apply_review commits a batch of the version in the file.  What an earlier *)
(* batch of the same version imported is not imported again.                 *)
Apply(s, chosen) ==
  LET v == file[s]
      again == UNION {batches[k].rows : k \in {j \in AppliedOf(s) : batches[j].version = v}}
  IN
    /\ Spend /\ v # Missing /\ chosen # {} /\ chosen \subseteq Fragments[v]
    /\ batches' = Append(batches, [version |-> v, rows |-> chosen \ again, applied |-> TRUE])
    /\ clearing' = clearing \cup {Len(batches) + 1}
    /\ UNCHANGED <<file, cached, hook>>

(* After the commit, and its lock, apply_review deletes the cached row.     *)
Clear(k) ==
  /\ k \in clearing
  /\ clearing' = clearing \ {k}
  /\ cached' = [cached EXCEPT ![SourceOf[batches[k].version]] = {}]
  /\ UNCHANGED <<file, batches, hook, changes>>

(* The process dies between the two. *)
DieBeforeClear(k) ==
  /\ k \in clearing
  /\ clearing' = clearing \ {k}
  /\ UNCHANGED <<file, batches, cached, hook, changes>>

Rollback(k) ==
  /\ Spend /\ batches[k].applied /\ \A j \in DOMAIN batches : batches[j].applied => j <= k
  /\ batches' = [batches EXCEPT ![k].applied = FALSE]
  /\ UNCHANGED <<file, clearing, cached, hook>>
-----------------------------------------------------------------------------
(* A refresh *)

To(h, value) == hook' = [hook EXCEPT ![h] = value]

Elsewhere == UNCHANGED <<file, imports, changes>>

StartRefresh(h) ==
  /\ hook[h] = Idle
  /\ To(h, [at |-> "rows", latest |-> LatestVersions, rows |-> Nothing, report |-> <<>>])
  /\ UNCHANGED cached /\ Elsewhere

ReadRows(h) ==
  /\ hook[h] # Idle /\ hook[h].at = "rows"
  /\ To(h, [hook[h] EXCEPT !.at = "observe", !.rows = [s \in Source |-> Rows(s)]])
  /\ UNCHANGED cached /\ Elsewhere

Position(h) == Len(hook[h].report) + 1

Approved(h) == hook[h].latest[Position(h)]

ImportedRows(h) == hook[h].rows[SourceOf[Approved(h)]]

Judge(h, stale) ==
  To(h, [hook[h] EXCEPT !.at = "observe", !.report = Append(@, stale)])

Withheld(h) ==
  \/ file[SourceOf[Approved(h)]] = Missing
  \/ Position(h) > MaxTracked

(* A file that cannot be read, or is one too many, withholds all its targets; *)
(* the version that was applied last withholds none.                          *)
Observe(h) ==
  /\ hook[h] # Idle /\ hook[h].at = "observe" /\ Position(h) <= Len(hook[h].latest)
  /\ IF Withheld(h) THEN Judge(h, Targets(ImportedRows(h)))
     ELSE IF file[SourceOf[Approved(h)]] = Approved(h) THEN Judge(h, {})
     ELSE To(h, [hook[h] EXCEPT !.at = "audit"])
  /\ UNCHANGED cached /\ Elsewhere

(* build_audit reads the file again. *)
Audit(h) ==
  /\ hook[h] # Idle /\ hook[h].at = "audit"
  /\ LET now == file[SourceOf[Approved(h)]] IN
       Judge(h, IF now = Missing THEN Targets(ImportedRows(h))
                ELSE Stale(ImportedRows(h), Fragments[now]))
  /\ UNCHANGED cached /\ Elsewhere

(* The rows of the entity are replaced by those of the report. *)
Published(h) ==
  [s \in Source |->
     UNION {hook[h].report[n] : n \in {m \in DOMAIN hook[h].latest :
                                        SourceOf[hook[h].latest[m]] = s}}]

Publish(h) ==
  /\ hook[h] # Idle /\ hook[h].at = "observe" /\ Position(h) > Len(hook[h].latest)
  /\ cached' = Published(h)
  /\ To(h, Idle)
  /\ Elsewhere

(* The refresh raises or its process dies: what was cached stays. *)
Fail(h) ==
  /\ Spend /\ hook[h] # Idle
  /\ To(h, Idle)
  /\ UNCHANGED <<file, imports, cached>>

Refresh(h) == StartRefresh(h) \/ ReadRows(h) \/ Observe(h) \/ Audit(h) \/ Publish(h)
-----------------------------------------------------------------------------
(* Judged from the present alone: the targets of each source that no          *)
(* imported fragment in its file supports, and those that are withheld.       *)
Gone ==
  [s \in Source |->
     {t \in Targets(Rows(s)) :
        \/ file[s] = Missing \/ Place(s) > MaxTracked
        \/ \A f \in Rows(s) \cap Fragments[file[s]] : TargetOf[f] # t}]

(* The exception of inspect_source_freshness: a file that is the version      *)
(* applied last passes as current and withholds nothing, also of entries that *)
(* an earlier version had and that are gone.  docs/08-autonomous-loop.md says *)
(* that those are withheld.                                                   *)
PassesAsCurrent(s) ==
  s \in Known /\ Place(s) <= MaxTracked /\ batches[LatestOf(s)].version = file[s]

(* What has to be withheld: all that is gone but for the exception. *)
Due ==
  LET gone == Gone IN [s \in Source |-> IF PassesAsCurrent(s) THEN {} ELSE gone[s]]

(* The history of a refresh begins with it and ends with it; a refresh       *)
(* during which an import commits or is rolled back owes no one verdict.     *)
Kept(seen, now, later, any, Join(_, _)) ==
  [h \in Watched |->
     IF hook'[h] = Idle THEN Nothing
     ELSE IF hook[h] = Idle THEN now
     ELSE IF batches' # batches THEN [s \in Source |-> any]
     ELSE IF file' = file THEN seen[h]
     ELSE [s \in Source |-> Join(seen[h][s], later[s])]]

Remember == /\ ever' = Kept(ever, Gone, Gone', Target, \cup)
            /\ always' = Kept(always, Due, Due', {}, \cap)

Change ==
  \/ \E s \in Source, v \in Version \cup {Missing} : Edit(s, v)
  \/ \E s \in Source, chosen \in SUBSET Fragment : Apply(s, chosen)
  \/ \E k \in DOMAIN batches : Clear(k) \/ DieBeforeClear(k) \/ Rollback(k)

FreshNext == (Change \/ \E h \in Hook : Refresh(h) \/ Fail(h)) /\ Remember

FreshSpec == FreshInit /\ [][FreshNext]_freshVars

(* Hooks keep coming, and a step of one that has begun is not put off for   *)
(* ever; nor is the deletion an apply has begun, unless its process dies.   *)
Fairness ==
  /\ \A h \in Hook : WF_hook(Refresh(h))
  /\ \A k \in 1 .. MaxChanges : WF_clearing(Clear(k))

FairFreshSpec == FreshSpec /\ Fairness
-----------------------------------------------------------------------------
(* Properties *)

(* A refresh withholds what was due all the time it ran, and nothing that    *)
(* its file supported all that time, although it reads the files at          *)
(* different moments and a changed one twice: unless imports change          *)
(* meanwhile.  Due leaves out one exception, the file that passes as current *)
(* because it is the version applied last (PassesAsCurrent).                 *)
VerdictIsFair ==
  [][\A h \in Watched : hook[h] # Idle /\ hook'[h] = Idle /\ changes' = changes =>
       \A s \in Source : always[h][s] \subseteq cached'[s] /\ cached'[s] \subseteq ever[h][s]]_freshVars

(* Once files and imports stay as they are, the cache comes to withhold, and *)
(* goes on to, only targets whose fragments are gone, and all of those,      *)
(* whatever slow refreshes and lost deletions left in it.  The one exception *)
(* is named: of a file that is the version applied last (PassesAsCurrent)    *)
(* the targets of earlier versions that are gone may be available.           *)
CacheSettles ==
  <>[](\A s \in Source : Due[s] \subseteq cached[s] /\ cached[s] \subseteq Gone[s])
=============================================================================
