------------------------------ MODULE LoopLedger ------------------------------
(***************************************************************************)
(* The autonomous loop: host hooks handled by short-lived processes that   *)
(* share one SQLite ledger (loop_sessions, loop_events, loop_candidates,   *)
(* loop_checkpoints) and the JSONL mirrors of one memory entity.           *)
(* LoopCoordinator.handle runs the four recovery passes, claims the event, *)
(* runs its handler and finishes the event, each SQLite transaction and    *)
(* each JSONL append a step of its own between which a process may die,    *)
(* fail, or be overtaken by another hook.                                  *)
(*                                                                         *)
(* A JSONL append under a stable id is one step here: JsonlStream shows    *)
(* that it is.  PreToolUse never touches the ledger and is left out.       *)
(***************************************************************************)
EXTENDS Naturals, Sequences, FiniteSets, Functions

CONSTANTS Proc,       \* hook processes
          Edit,       \* PostToolUse payloads that changed a project file
          Note,       \* PostToolUse payloads of brain_remember, brain_supersede
          Explicit,   \* PostToolUse payloads of brain_checkpoint
          Quiet,      \* SessionStart and UserPromptSubmit payloads
          Stop,       \* PreCompact, Stop and SessionEnd payloads
          Session,
          SessionOf,  \* the session of each payload
          ChangeOf,   \* the change each edit or note reports
          MaxChanges, \* changes a session keeps (64 in the code)
          MaxFaults,  \* bound on crashes and errors
          NoKey

Marking == Edit \cup Note
Post    == Marking \cup Explicit
Payload == Post \cup Quiet \cup Stop

(* _event_key: what was delivered, and for a terminal hook the generation   *)
(* it was delivered at.                                                     *)
StopKey == Stop \X Nat
Key     == Post \cup Quiet \cup StopKey
SessionOfKey(k) == IF k \in StopKey THEN SessionOf[k[1]] ELSE SessionOf[k]

Change == Range(ChangeOf)

ASSUME LoopAssumption ==
  /\ SessionOf \in [Payload -> Session]
  /\ DOMAIN ChangeOf = Marking
  /\ Edit \cap Note = {} /\ Marking \cap Explicit = {}
  /\ Stop \cap (Post \cup Quiet) = {} /\ Post \cap Quiet = {}
  /\ StopKey \cap Payload = {}
  /\ NoKey \notin Key \cup Payload
  /\ MaxChanges \in Nat \ {0}
  /\ MaxFaults \in Nat

VARIABLES
  \* loop_sessions
  dirty,       \* dirty_generation of each session
  covered,     \* checkpoint_generation
  changes,     \* changes_json
  errorKey,    \* last_error_event_key
  \* loop_events, over the keys claimed so far
  status,
  marked,      \* dirty_generation of the events that have one
  \* loop_candidates and loop_checkpoints, over the rows inserted so far
  candidate,
  outbox,
  \* ids in the events, checkpoints and audit streams
  episodes, checkpoints, audits,
  \* the hook processes
  pc, stage, seen, todo, item,
  \* history: the generation of the session when each key was first claimed
  claimedAt,
  faults

sessions == <<dirty, covered, changes, errorKey>>
events   == <<status, marked, claimedAt>>
ledger   == <<sessions, events, candidate, outbox>>
mirrors  == <<episodes, checkpoints, audits>>
locals   == <<stage, seen, todo, item>>
vars     == <<ledger, mirrors, pc, locals, faults>>

Row == [gen : Nat, changes : Seq(Change), record : {"pending", "saved"},
        status : {"pending", "written"}]

Place == {"idle", "load", "append", "mirrored", "tool", "reserve",
          "save", "checkpoint", "audit", "written", "finish", "deliver", "claim",
          "error"}
Stage == {"candidates", "posts", "stops", "rows", "own"}

TypeOK ==
  /\ dirty \in [Session -> Nat] /\ covered \in [Session -> Nat]
  /\ changes \in [Session -> Seq(Change)]
  /\ errorKey \in [Session -> Key \cup {NoKey}]
  /\ DOMAIN status \subseteq Key
  /\ status \in [DOMAIN status -> {"processing", "completed", "error"}]
  /\ DOMAIN marked \subseteq Post /\ marked \in [DOMAIN marked -> Nat]
  /\ DOMAIN candidate \subseteq Edit
  /\ candidate \in [DOMAIN candidate -> {"pending", "written"}]
  /\ DOMAIN outbox \subseteq StopKey /\ outbox \in [DOMAIN outbox -> Row]
  /\ episodes \subseteq Edit
  /\ checkpoints \subseteq StopKey /\ audits \subseteq StopKey
  /\ pc \in [Proc -> Place] /\ stage \in [Proc -> Stage]
  /\ seen \in [Proc -> Nat]
  /\ todo \in [Proc -> SUBSET Key] /\ item \in [Proc -> Key \cup {NoKey}]
  /\ claimedAt \in [DOMAIN status -> Nat]
  /\ faults \in Nat

NoRows == [k \in {} |-> NoKey]

Init ==
  /\ dirty = [s \in Session |-> 0] /\ covered = [s \in Session |-> 0]
  /\ changes = [s \in Session |-> <<>>]
  /\ errorKey = [s \in Session |-> NoKey]
  /\ status = NoRows /\ marked = NoRows /\ claimedAt = NoRows
  /\ candidate = NoRows /\ outbox = NoRows
  /\ episodes = {} /\ checkpoints = {} /\ audits = {}
  /\ pc = [p \in Proc |-> "idle"] /\ stage = [p \in Proc |-> "candidates"]
  /\ seen = [p \in Proc |-> 0]
  /\ todo = [p \in Proc |-> {}] /\ item = [p \in Proc |-> NoKey]
  /\ faults = 0

-----------------------------------------------------------------------------
(* Helpers *)

At(p, place) == pc[p] = place
Goto(p, place) == pc' = [pc EXCEPT ![p] = place]

(* INSERT of one row. *)
With(f, k, v) == [x \in DOMAIN f \cup {k} |-> IF x = k THEN v ELSE f[x]]

NextStage == [candidates |-> "posts", posts |-> "stops",
              stops |-> "rows", rows |-> "own"]

(* The next recovery pass, or the event of the hook itself. *)
EndPass(p) ==
  LET next == NextStage[stage[p]] IN
    /\ stage' = [stage EXCEPT ![p] = next]
    /\ Goto(p, IF next = "own" THEN "deliver" ELSE "load")
    /\ todo' = [todo EXCEPT ![p] = {}]
    /\ item' = [item EXCEPT ![p] = NoKey]

(* Where the work on a row of a recovery pass begins.  A row whose record   *)
(* another process saved meanwhile is saved again by the code; the record   *)
(* is abstracted to whether it is there, so that is no change here.         *)
FirstPlace(p, k) ==
  IF stage[p] = "candidates" THEN "append"
  ELSE IF stage[p] = "posts" THEN "tool"
  ELSE IF stage[p] = "stops" THEN "reserve"
  ELSE IF outbox[k].record = "pending" THEN "save" ELSE "checkpoint"

(* Go on with the rows of a pass that are left, in some order. *)
Take(p, rows) ==
  /\ UNCHANGED seen
  /\ \/ rows = {} /\ EndPass(p)
     \/ \E k \in rows :
          /\ Goto(p, FirstPlace(p, k))
          /\ todo' = [todo EXCEPT ![p] = rows \ {k}]
          /\ item' = [item EXCEPT ![p] = k]
          /\ UNCHANGED stage

(* Leave handle(), returning or dying. *)
Leave(p) ==
  /\ Goto(p, "idle")
  /\ stage' = [stage EXCEPT ![p] = "candidates"]
  /\ seen' = [seen EXCEPT ![p] = 0]
  /\ todo' = [todo EXCEPT ![p] = {}]
  /\ item' = [item EXCEPT ![p] = NoKey]

BugInterrupted(k) == status[k] = "error"  \* a claim that died is not replayed
Interrupted(k) == status[k] \in {"processing", "error"}

BugComplete(k) ==  \* the session keeps the error
  /\ status' = [status EXCEPT ![k] = "completed"]
  /\ UNCHANGED errorKey

(* _complete_event_in_connection and its copies. *)
Complete(k) ==
  /\ status' = [status EXCEPT ![k] = "completed"]
  /\ errorKey' = [errorKey EXCEPT ![SessionOfKey(k)] = IF @ = k THEN NoKey ELSE @]

(* dict.fromkeys keeps the first of equal changes, [-64:] the newest. *)
Merge(old, c) ==
  LET all == IF c \in Range(old) THEN old ELSE Append(old, c)
  IN  IF Len(all) > MaxChanges THEN Tail(all) ELSE all

BugMarked(k) == FALSE  \* a repeated event counts again

(* The event has its generation: it has had its effect on the session. *)
Marked(k) == k \in DOMAIN marked

(* _mark_dirty_in_connection: an event advances its session once. *)
MarkDirty(k) ==
  LET s == SessionOf[k] IN
    IF Marked(k)
    THEN UNCHANGED <<dirty, changes, marked>>
    ELSE /\ dirty' = [dirty EXCEPT ![s] = @ + 1]
         /\ changes' = [changes EXCEPT ![s] = Merge(@, ChangeOf[k])]
         /\ marked' = With(marked, k, dirty[s] + 1)

BugCover(s) ==  \* the changes stay for the next checkpoint as well
  /\ covered' = [covered EXCEPT ![s] = dirty[s]]
  /\ UNCHANGED changes

(* A receipt for all the work of a session up to now. *)
Cover(s) ==
  /\ covered' = [covered EXCEPT ![s] = dirty[s]]
  /\ changes' = [changes EXCEPT ![s] = <<>>]

-----------------------------------------------------------------------------
(* handle: the recovery passes, each of which reads its rows in one SELECT.  *)
(* A hook begins with the first; its own payload plays no part in them.      *)

Load(p, pass, rows) ==
  /\ At(p, IF pass = "candidates" THEN "idle" ELSE "load") /\ stage[p] = pass
  /\ Take(p, rows)
  /\ UNCHANGED <<ledger, mirrors, faults>>

LoadCandidates(p) ==
  Load(p, "candidates", {k \in DOMAIN candidate : candidate[k] = "pending"})

LoadPosts(p) ==
  Load(p, "posts", {k \in DOMAIN status : k \in Post /\ Interrupted(k)})

LoadStops(p) ==
  Load(p, "stops", {k \in DOMAIN status : /\ k \in StopKey /\ Interrupted(k)
                                          /\ k \notin DOMAIN outbox})

LoadRows(p) ==
  Load(p, "rows", {k \in DOMAIN outbox : outbox[k].status = "pending"})

-----------------------------------------------------------------------------
(* handle: the event of the hook itself *)

BugOwnKey(d, generation) == IF d \in Stop THEN <<d, 0>> ELSE d  \* no generation

OwnKey(d, generation) == IF d \in Stop THEN <<d, generation>> ELSE d

(* current_generation is read in a transaction of its own, before the claim. *)
Deliver(p, d) ==
  LET generation == IF d \in Stop THEN dirty[SessionOf[d]] ELSE 0 IN
    /\ At(p, "deliver")
    /\ Goto(p, "claim")
    /\ seen' = [seen EXCEPT ![p] = generation]
    /\ item' = [item EXCEPT ![p] = OwnKey(d, generation)]
    /\ UNCHANGED <<ledger, mirrors, stage, todo, faults>>

(* claim_event: INSERT OR IGNORE; a duplicate runs the handler all the same. *)
Claim(p) ==
  LET k == item[p] IN
    /\ At(p, "claim")
    /\ Goto(p, IF k \in Post THEN "tool" ELSE IF k \in Quiet THEN "finish" ELSE "reserve")
    /\ IF k \in DOMAIN status
       THEN UNCHANGED <<status, claimedAt>>
       ELSE /\ status' = With(status, k, "processing")
            /\ claimedAt' = With(claimedAt, k, dirty[SessionOfKey(k)])
    /\ UNCHANGED <<sessions, marked, candidate, outbox, mirrors, locals, faults>>

(* finish_event without an error, of the own event or of a recovered one. *)
Finish(p) ==
  /\ At(p, "finish")
  /\ Complete(item[p])
  /\ IF stage[p] = "own" THEN Leave(p) ELSE Take(p, todo[p])
  /\ UNCHANGED <<dirty, covered, changes, marked, claimedAt, candidate, outbox,
                 mirrors, faults>>

(* finish_event with the error of the handler. *)
FinishError(p) ==
  /\ At(p, "error")
  /\ status' = [status EXCEPT ![item[p]] = "error"]
  /\ errorKey' = [errorKey EXCEPT ![SessionOfKey(item[p])] = item[p]]
  /\ Leave(p)
  /\ UNCHANGED <<dirty, covered, changes, marked, claimedAt, candidate, outbox,
                 mirrors, faults>>

-----------------------------------------------------------------------------
(* _on_post_tool, for the own event and for an interrupted one *)

(* record_candidate: the admission and the dirty mark in one transaction. *)
RecordCandidate(p) ==
  LET k == item[p] IN
    /\ At(p, "tool") /\ k \in Edit
    /\ Goto(p, "append")
    /\ candidate' = IF k \in DOMAIN candidate THEN candidate
                    ELSE With(candidate, k, "pending")
    /\ MarkDirty(k)
    /\ UNCHANGED <<covered, errorKey, status, claimedAt, outbox, mirrors, locals, faults>>

(* mark_dirty, which also completes the event. *)
MarkNote(p) ==
  LET k == item[p] IN
    /\ At(p, "tool") /\ k \in Note
    /\ Goto(p, "finish")
    /\ MarkDirty(k)
    /\ Complete(k)
    /\ UNCHANGED <<covered, claimedAt, candidate, outbox, mirrors, locals, faults>>

(* acknowledge_explicit_checkpoint: all the work of the session up to NOW is *)
(* taken as covered by the detailed handoff; an acknowledged event returns   *)
(* before the completion.                                                    *)
Acknowledge(p) ==
  LET k == item[p]
      s == SessionOf[k]
  IN
    /\ At(p, "tool") /\ k \in Explicit
    /\ Goto(p, "finish")
    /\ IF Marked(k)
       THEN UNCHANGED <<sessions, events>>
       ELSE /\ Cover(s)
            /\ marked' = With(marked, k, dirty[s])
            /\ Complete(k)
            /\ UNCHANGED <<dirty, claimedAt>>
    /\ UNCHANGED <<candidate, outbox, mirrors, locals, faults>>

(* append_event_once of the admitted episode. *)
AppendEpisode(p) ==
  /\ At(p, "append")
  /\ Goto(p, "mirrored")
  /\ episodes' = episodes \cup {item[p]}
  /\ UNCHANGED <<ledger, checkpoints, audits, locals, faults>>

(* mark_candidate_mirrored, which completes the event as well. *)
MarkMirrored(p) ==
  /\ At(p, "mirrored")
  /\ candidate' = [candidate EXCEPT ![item[p]] = "written"]
  /\ Complete(item[p])
  /\ IF stage[p] = "candidates" THEN Take(p, todo[p])
     ELSE Goto(p, "finish") /\ UNCHANGED locals
  /\ UNCHANGED <<dirty, covered, changes, marked, claimedAt, outbox, mirrors, faults>>

-----------------------------------------------------------------------------
(* Terminal hooks: reserve_checkpoint and _materialize_checkpoint *)

BugAfterReserve(p, record) ==  \* the record is mirrored before it is saved
  IF stage[p] # "own" THEN Take(p, todo[p])
  ELSE Goto(p, "checkpoint") /\ UNCHANGED locals

(* With a row in hand the own event goes on to mirror it; the recovery pass  *)
(* leaves that to the next pass.                                             *)
AfterReserve(p, record) ==
  IF stage[p] # "own" THEN Take(p, todo[p])
  ELSE /\ Goto(p, IF record = "pending" THEN "save" ELSE "checkpoint")
       /\ UNCHANGED locals

ReserveExisting(p) ==
  /\ At(p, "reserve") /\ item[p] \in DOMAIN outbox
  /\ AfterReserve(p, outbox[item[p]].record)
  /\ UNCHANGED <<ledger, mirrors, faults>>

NothingToReserve(p) ==
  LET s == SessionOfKey(item[p]) IN
    /\ At(p, "reserve") /\ item[p] \notin DOMAIN outbox
    /\ dirty[s] <= covered[s]
    /\ Goto(p, "finish")
    /\ UNCHANGED <<ledger, mirrors, locals, faults>>

Reserve(p) ==
  LET k == item[p]
      s == SessionOfKey(k)
  IN
    /\ At(p, "reserve") /\ k \notin DOMAIN outbox
    /\ dirty[s] > covered[s]
    /\ outbox' = With(outbox, k, [gen |-> dirty[s], changes |-> changes[s],
                                  record |-> "pending", status |-> "pending"])
    /\ Cover(s)
    /\ AfterReserve(p, "pending")
    /\ UNCHANGED <<dirty, errorKey, events, candidate, mirrors, faults>>

(* build_handoff_record and save_checkpoint_record. *)
SaveRecord(p) ==
  /\ At(p, "save")
  /\ Goto(p, "checkpoint")
  /\ outbox' = [outbox EXCEPT ![item[p]].record = "saved"]
  /\ UNCHANGED <<sessions, events, candidate, mirrors, locals, faults>>

AppendCheckpoint(p) ==
  /\ At(p, "checkpoint")
  /\ Goto(p, "audit")
  /\ checkpoints' = checkpoints \cup {item[p]}
  /\ UNCHANGED <<ledger, episodes, audits, locals, faults>>

AppendAudit(p) ==
  /\ At(p, "audit")
  /\ Goto(p, "written")
  /\ audits' = audits \cup {item[p]}
  /\ UNCHANGED <<ledger, episodes, checkpoints, locals, faults>>

(* mark_checkpoint_written, which completes the event as well. *)
MarkWritten(p) ==
  /\ At(p, "written")
  /\ outbox' = [outbox EXCEPT ![item[p]].status = "written"]
  /\ Complete(item[p])
  /\ IF stage[p] = "own" THEN Goto(p, "finish") /\ UNCHANGED locals
     ELSE Take(p, todo[p])
  /\ UNCHANGED <<dirty, covered, changes, marked, claimedAt, candidate, mirrors, faults>>

-----------------------------------------------------------------------------
(* Failures *)

Fault == /\ faults < MaxFaults
         /\ faults' = faults + 1

(* An exception: a recovery pass is given up and the next one runs; after    *)
(* the claim it is reported on the event.  Before the claim, and in the      *)
(* report, it leaves handle() with nothing done, as a crash does.            *)
Fail(p) ==
  /\ Fault
  /\ pc[p] \notin {"idle", "deliver", "claim", "error"}
  /\ IF stage[p] # "own" THEN EndPass(p) /\ UNCHANGED seen
     ELSE Goto(p, "error") /\ UNCHANGED locals
  /\ UNCHANGED <<ledger, mirrors>>

(* The process is killed, by its host's hook timeout or otherwise. *)
Crash(p) ==
  /\ Fault
  /\ ~ At(p, "idle")
  /\ Leave(p)
  /\ UNCHANGED <<ledger, mirrors>>

-----------------------------------------------------------------------------

Recovery(p) == LoadCandidates(p) \/ LoadPosts(p) \/ LoadStops(p) \/ LoadRows(p)

Own(p) == \/ \E d \in Payload : Deliver(p, d)
          \/ Claim(p) \/ Finish(p) \/ FinishError(p)

PostTool(p) == \/ RecordCandidate(p) \/ MarkNote(p) \/ Acknowledge(p)
               \/ AppendEpisode(p) \/ MarkMirrored(p)

Terminal(p) == \/ ReserveExisting(p) \/ NothingToReserve(p) \/ Reserve(p)
               \/ SaveRecord(p) \/ AppendCheckpoint(p) \/ AppendAudit(p)
               \/ MarkWritten(p)

HookStep(p) == Recovery(p) \/ Own(p) \/ PostTool(p) \/ Terminal(p)

Next == \E p \in Proc : HookStep(p) \/ Fail(p) \/ Crash(p)

Spec == Init /\ [][Next]_vars

(* A running hook process goes on, and the host goes on calling hooks. *)
Fairness == \A p \in Proc : WF_vars(HookStep(p))

FairSpec == Spec /\ Fairness
-----------------------------------------------------------------------------
(* Properties *)

WorkOf(s) == {k \in Marking \cap DOMAIN marked : SessionOf[k] = s}

(* However often a PostToolUse hook is delivered, concurrently or again     *)
(* after a crash, it advances its session by one generation: each           *)
(* generation of a session is one piece of work.                            *)
EachGenerationIsOneEvent ==
  \A s \in Session :
    /\ \A k \in WorkOf(s) : marked[k] \in 1 .. dirty[s]
    /\ \A j, k \in WorkOf(s) : marked[j] = marked[k] => j = k
    /\ \A g \in 1 .. dirty[s] : \E k \in WorkOf(s) : marked[k] = g

(* The receipts of a session, as the generations they cover. *)
Receipts(s) == {0} \cup {outbox[k].gen : k \in {r \in DOMAIN outbox : SessionOfKey(r) = s}}
                   \cup {marked[k] : k \in {r \in Explicit \cap DOMAIN marked : SessionOf[r] = s}}

Due(s, from, to) ==
  {ChangeOf[k] : k \in {w \in WorkOf(s) : from < marked[w] /\ marked[w] <= to}}

Names(kept, due) ==
  /\ Range(kept) \subseteq due
  /\ Cardinality(Range(kept)) = IF Cardinality(due) <= MaxChanges
                                THEN Cardinality(due) ELSE MaxChanges

(* A checkpoint row names the changes made since the receipt before it, all *)
(* of them up to the cap and no other, and so do the changes the session    *)
(* still holds: a checkpoint racing an edit neither drops it nor reports it *)
(* twice.                                                                   *)
CheckpointNamesItsWork ==
  /\ \A k \in DOMAIN outbox :
       LET s == SessionOfKey(k)
           before == {g \in Receipts(s) : g < outbox[k].gen}
           last == CHOOSE g \in before : \A h \in before : h <= g
       IN  Names(outbox[k].changes, Due(s, last, outbox[k].gen))
  /\ \A s \in Session : Names(changes[s], Due(s, covered[s], dirty[s]))

(* "SQLite admissions are durable before their inspectable JSONL mirrors"   *)
(* (SECURITY.md): a mirrored record has its row, and a row marked written   *)
(* has its record and its audit line.                                       *)
MirrorsFollowLedger ==
  /\ \A k \in episodes : k \in DOMAIN candidate /\ k \in DOMAIN marked
  /\ \A k \in checkpoints : k \in DOMAIN outbox /\ outbox[k].record = "saved"
  /\ audits \subseteq checkpoints
  /\ \A k \in DOMAIN candidate : candidate[k] = "written" => k \in episodes
  /\ \A k \in DOMAIN outbox : outbox[k].status = "written" => k \in audits

(* A terminal hook that reaches its end without an error leaves everything  *)
(* it found dirty under a receipt, be it a repeated payload or one whose    *)
(* claim another process took over.                                         *)
StopCoversObservedWork ==
  \A p \in Proc :
    At(p, "finish") /\ stage[p] = "own" /\ item[p] \in StopKey
      => covered[SessionOfKey(item[p])] >= seen[p]

(* The terminal keys there can be: a generation is one piece of work. *)
StopKeysUpTo == Stop \X (0 .. Cardinality(Marking))

(* Work is noted once and closed only by a new receipt. *)
WR == INSTANCE WorkReceipts WITH
        Work      <- Marking,
        Receipt   <- StopKeysUpTo \cup Explicit,
        open      <- {k \in Marking \cap DOMAIN marked : marked[k] > covered[SessionOf[k]]},
        closed    <- {k \in Marking \cap DOMAIN marked : marked[k] <= covered[SessionOf[k]]},
        issued    <- DOMAIN outbox \cup (Explicit \cap DOMAIN marked),
        published <- checkpoints
ImplementsWorkReceipts == WR!Spec

Claimed(k) == k \in DOMAIN status
Completed(k) == Claimed(k) /\ status[k] = "completed"
Written(k) == \/ k \in DOMAIN candidate /\ candidate[k] = "written"
              \/ k \in DOMAIN outbox /\ outbox[k].status = "written"

(* As long as hooks keep coming, whatever died or failed on the way: a      *)
(* claimed PostToolUse event completes, its admitted episode in the stream, *)
(* and a reserved checkpoint reaches its streams.                           *)
InterruptedWorkFinishes ==
  /\ \A k \in Post : Claimed(k) ~> Completed(k) /\ (k \in Edit => Written(k))
  /\ \A k \in StopKeysUpTo : (k \in DOMAIN outbox) ~> Written(k)

(* "so health does not remain stuck on an error that has already been       *)
(* repaired" (mark_candidate_mirrored): as long as hooks keep coming, a     *)
(* session does not go on naming the error of a PostToolUse event, not even *)
(* when a slow hook reports it after another one repaired it; nor that of a *)
(* terminal event whose checkpoint was still to be mirrored.  One exception *)
(* is in the code: the report that comes after the mirroring, when no later *)
(* hook has anything left to do for the event, stays.                       *)
HealthRecovers ==
  /\ \A k \in Post : (errorKey[SessionOf[k]] = k) ~> (errorKey[SessionOf[k]] # k)
  /\ \A k \in StopKeysUpTo :
       (errorKey[SessionOfKey(k)] = k /\ ~ Written(k)) ~> (errorKey[SessionOfKey(k)] # k)

(* "old retries cannot clear newer work" (CHANGELOG.md): an explicit        *)
(* checkpoint that a later hook replays covers the work recorded before the *)
(* hook was first claimed, and none after.                                  *)
OldRetryKeepsNewerWork ==
  [][\A p \in Proc :
       At(p, "tool") /\ stage[p] = "posts" /\ Acknowledge(p)
         => covered'[SessionOf[item[p]]]
              <= IF item[p] \in DOMAIN marked THEN covered[SessionOf[item[p]]]
                 ELSE claimedAt[item[p]]]_vars
=============================================================================
