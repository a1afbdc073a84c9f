-------------------------- MODULE LoopLedger_proofs --------------------------
(***************************************************************************)
(* Proofs about LoopLedger, for any set of hook processes, payloads and    *)
(* sessions and any number of crashes and errors.                          *)
(*                                                                         *)
(* The argument: the ledger and the mirrors only grow (Grows), so what a   *)
(* process learned in one transaction still holds at its next step, be it  *)
(* overtaken by any number of others.  PlaceInv says what that is at each  *)
(* place; it is what makes the order admission, record, mirror, mark safe. *)
(* On top of it: every step is one of WorkReceipts or a stutter, and the    *)
(* newest receipt is the generation a session is covered up to, so that     *)
(* what it holds is what was done since (NamesInv).                         *)
(***************************************************************************)
EXTENDS LoopLedger, FiniteSetTheorems, TLAPS

(* Every row belongs to a claimed event, an admitted episode to a counted one. *)
RowsInv ==
  /\ DOMAIN candidate \subseteq DOMAIN marked
  /\ DOMAIN marked \subseteq DOMAIN status
  /\ DOMAIN outbox \subseteq DOMAIN status

(* The places of each stage, and the rows its pass has left to do. *)
StageInv(p) ==
  /\ stage[p] = "candidates" =>
       pc[p] \in {"idle", "append", "mirrored"} /\ todo[p] \subseteq DOMAIN candidate
  /\ stage[p] = "posts" =>
       /\ pc[p] \in {"load", "tool", "append", "mirrored", "finish"}
       /\ todo[p] \subseteq Post \cap DOMAIN status
  /\ stage[p] = "stops" =>
       /\ pc[p] \in {"load", "reserve", "finish"}
       /\ todo[p] \subseteq StopKey \cap DOMAIN status
  /\ stage[p] = "rows" =>
       /\ pc[p] \in {"load", "save", "checkpoint", "audit", "written"}
       /\ todo[p] \subseteq DOMAIN outbox
  /\ stage[p] = "own" => pc[p] \notin {"idle", "load"}

(* What the row in hand has behind it at each place. *)
ItemInv(p) ==
  /\ pc[p] = "claim" => item[p] \in Key
  /\ pc[p] = "tool" => item[p] \in Post \cap DOMAIN status
  /\ pc[p] \in {"append", "mirrored"} => item[p] \in DOMAIN candidate
  /\ pc[p] = "mirrored" => item[p] \in episodes
  /\ pc[p] = "reserve" => item[p] \in StopKey \cap DOMAIN status
  /\ pc[p] \in {"save", "checkpoint", "audit", "written"} => item[p] \in DOMAIN outbox
  /\ pc[p] \in {"checkpoint", "audit", "written"} => outbox[item[p]].record = "saved"
  /\ pc[p] \in {"audit", "written"} => item[p] \in checkpoints
  /\ pc[p] = "written" => item[p] \in audits
  /\ pc[p] \in {"finish", "error"} => item[p] \in DOMAIN status

PlaceInv == \A p \in Proc : StageInv(p) /\ ItemInv(p)

(* The error of a session is that of one of its own events. *)
ErrorInv == \A s \in Session :
  errorKey[s] # NoKey => /\ errorKey[s] \in DOMAIN status
                         /\ SessionOfKey(errorKey[s]) = s
                         /\ status[errorKey[s]] = "error"

(* A terminal key holds a generation its session has had, a reserved one a  *)
(* generation under a receipt.                                              *)
KeyInv ==
  /\ \A s \in Session : covered[s] <= dirty[s]
  /\ \A k \in StopKey \cap DOMAIN status : k[2] <= dirty[SessionOfKey(k)]
  /\ \A k \in DOMAIN outbox : k[2] <= covered[SessionOfKey(k)]

SeenInv == \A p \in Proc :
  stage[p] = "own" /\ item[p] \in StopKey =>
    /\ item[p][2] = seen[p]
    /\ pc[p] = "claim" => seen[p] <= dirty[SessionOfKey(item[p])]

LoopInv == /\ TypeOK
           /\ RowsInv
           /\ PlaceInv
           /\ MirrorsFollowLedger
           /\ ErrorInv
           /\ EachGenerationIsOneEvent
           /\ KeyInv
           /\ SeenInv
           /\ StopCoversObservedWork

(* No step takes back a row, a mirrored record or a saved one. *)
Grows ==
  /\ DOMAIN status \subseteq DOMAIN status'
  /\ DOMAIN marked \subseteq DOMAIN marked'
  /\ DOMAIN candidate \subseteq DOMAIN candidate'
  /\ DOMAIN outbox \subseteq DOMAIN outbox'
  /\ \A k \in DOMAIN outbox : outbox[k].record = "saved" => outbox'[k].record = "saved"
  /\ episodes \subseteq episodes'
  /\ checkpoints \subseteq checkpoints'
  /\ audits \subseteq audits'

(* A step moves one process. *)
Others(p) == \A q \in Proc \ {p} : /\ pc'[q] = pc[q] /\ stage'[q] = stage[q]
                                   /\ todo'[q] = todo[q] /\ item'[q] = item[q]
                                   /\ seen'[q] = seen[q]

LocalsOK == /\ pc \in [Proc -> Place] /\ stage \in [Proc -> Stage]
            /\ seen \in [Proc -> Nat]
            /\ todo \in [Proc -> SUBSET Key] /\ item \in [Proc -> Key \cup {NoKey}]

-----------------------------------------------------------------------------
(* Keys and helpers *)

LEMMA Keys ==
  /\ Post \cap StopKey = {} /\ Post \cap Quiet = {} /\ StopKey \cap Quiet = {}
  /\ Edit \subseteq Post /\ Note \subseteq Post /\ Explicit \subseteq Post
  /\ \A k \in Key : SessionOfKey(k) \in Session
  /\ \A k \in Post : SessionOf[k] \in Session /\ SessionOfKey(k) = SessionOf[k]
  /\ NoKey \notin Key
  BY LoopAssumption DEF Key, StopKey, SessionOfKey, Payload, Post, Marking

LEMMA TakeLocals ==
  ASSUME LocalsOK, NEW p \in Proc, NEW rows \in SUBSET Key, Take(p, rows),
         stage[p] # "own"
  PROVE  LocalsOK' /\ Others(p)
<1>1. CASE rows = {} /\ EndPass(p)
  BY <1>1 DEF Take, LocalsOK, Others, EndPass, Goto, NextStage, Place, Stage
<1>2. CASE \E k \in rows :
             /\ Goto(p, FirstPlace(p, k))
             /\ todo' = [todo EXCEPT ![p] = rows \ {k}]
             /\ item' = [item EXCEPT ![p] = k]
             /\ UNCHANGED stage
  BY <1>2 DEF Take, LocalsOK, Others, Goto, FirstPlace, Place, Stage
<1>. QED  BY <1>1, <1>2 DEF Take

LEMMA LeaveLocals ==
  ASSUME LocalsOK, NEW p \in Proc, Leave(p)
  PROVE  LocalsOK' /\ Others(p)
  BY DEF Leave, LocalsOK, Others, Goto, Place, Stage

LEMMA EndPassLocals ==
  ASSUME LocalsOK, NEW p \in Proc, EndPass(p), UNCHANGED seen, stage[p] # "own"
  PROVE  LocalsOK' /\ Others(p)
  BY DEF EndPass, LocalsOK, Others, Goto, NextStage, Place, Stage

LEMMA GotoLocals ==
  ASSUME LocalsOK, NEW p \in Proc, NEW place \in Place, Goto(p, place), UNCHANGED locals
  PROVE  LocalsOK' /\ Others(p)
  BY DEF Goto, LocalsOK, Others, locals

LEMMA WithRow ==
  ASSUME NEW f, NEW k, NEW v
  PROVE  /\ DOMAIN With(f, k, v) = DOMAIN f \cup {k}
         /\ With(f, k, v)[k] = v
         /\ \A x \in DOMAIN f \ {k} : With(f, k, v)[x] = f[x]
         /\ With(f, k, v) = [x \in DOMAIN With(f, k, v) |-> With(f, k, v)[x]]
  BY DEF With

LEMMA MergeType ==
  ASSUME NEW old \in Seq(Change), NEW c \in Change
  PROVE  Merge(old, c) \in Seq(Change)
<1>1. Append(old, c) \in Seq(Change) /\ Len(Append(old, c)) = Len(old) + 1
  OBVIOUS
<1>2. \A q \in Seq(Change) : Len(q) > MaxChanges => Tail(q) \in Seq(Change)
  BY LoopAssumption
<1>. QED  BY <1>1, <1>2 DEF Merge

-----------------------------------------------------------------------------
(* Types *)

LEMMA LocalsStep ==
  ASSUME TypeOK, RowsInv, PlaceInv, NEW p \in Proc, HookStep(p) \/ Fail(p) \/ Crash(p)
  PROVE  LocalsOK' /\ Others(p)
<1>0. LocalsOK /\ todo[p] \in SUBSET Key /\ DOMAIN candidate \subseteq Key
      /\ DOMAIN status \subseteq Key /\ DOMAIN outbox \subseteq Key
  BY DEF TypeOK, LocalsOK, Key, Post, Marking
<1>1. CASE LoadCandidates(p)
  <2>1. Take(p, {k \in DOMAIN candidate : candidate[k] = "pending"}) /\ stage[p] # "own"
    BY <1>1 DEF LoadCandidates, Load
  <2>. QED  BY <1>0, <2>1, TakeLocals
<1>2. CASE LoadPosts(p)
  <2>1. Take(p, {k \in DOMAIN status : k \in Post /\ Interrupted(k)}) /\ stage[p] # "own"
    BY <1>2 DEF LoadPosts, Load
  <2>. QED  BY <1>0, <2>1, TakeLocals
<1>3. CASE LoadStops(p)
  <2>1. /\ Take(p, {k \in DOMAIN status : /\ k \in StopKey /\ Interrupted(k)
                                          /\ k \notin DOMAIN outbox})
        /\ stage[p] # "own"
    BY <1>3 DEF LoadStops, Load
  <2>. QED  BY <1>0, <2>1, TakeLocals
<1>4. CASE LoadRows(p)
  <2>1. Take(p, {k \in DOMAIN outbox : outbox[k].status = "pending"}) /\ stage[p] # "own"
    BY <1>4 DEF LoadRows, Load
  <2>. QED  BY <1>0, <2>1, TakeLocals
<1>5. CASE \E d \in Payload : Deliver(p, d)
  <2>1. PICK d \in Payload : Deliver(p, d)
    BY <1>5
  <2>2. d \in Stop => SessionOf[d] \in Session
    BY LoopAssumption
  <2>3. (IF d \in Stop THEN dirty[SessionOf[d]] ELSE 0) \in Nat
    BY <2>2 DEF TypeOK
  <2>4. OwnKey(d, IF d \in Stop THEN dirty[SessionOf[d]] ELSE 0) \in Key
    BY <2>3 DEF OwnKey, Key, StopKey, Payload
  <2>. QED  BY <1>0, <2>1, <2>3, <2>4 DEF Deliver, LocalsOK, Others, Goto, Place
<1>6. CASE Claim(p)
  BY <1>0, <1>6, GotoLocals DEF Claim, Place
<1>7. CASE Finish(p)
  BY <1>0, <1>7, LeaveLocals, TakeLocals DEF Finish
<1>8. CASE FinishError(p)
  BY <1>0, <1>8, LeaveLocals DEF FinishError
<1>9. CASE RecordCandidate(p) \/ MarkNote(p) \/ Acknowledge(p) \/ AppendEpisode(p)
  BY <1>0, <1>9, GotoLocals DEF RecordCandidate, MarkNote, Acknowledge, AppendEpisode, Place
<1>10. CASE MarkMirrored(p)
  BY <1>0, <1>10, GotoLocals, TakeLocals DEF MarkMirrored, Place
<1>11. CASE ReserveExisting(p) \/ Reserve(p)
  BY <1>0, <1>11, GotoLocals, TakeLocals DEF ReserveExisting, Reserve, AfterReserve, Place
<1>12. CASE NothingToReserve(p) \/ SaveRecord(p) \/ AppendCheckpoint(p) \/ AppendAudit(p)
  BY <1>0, <1>12, GotoLocals DEF NothingToReserve, SaveRecord, AppendCheckpoint, AppendAudit, Place
<1>13. CASE MarkWritten(p)
  BY <1>0, <1>13, GotoLocals, TakeLocals DEF MarkWritten, Place
<1>14. CASE Fail(p)
  BY <1>0, <1>14, GotoLocals, EndPassLocals DEF Fail, Place
<1>15. CASE Crash(p)
  BY <1>0, <1>15, LeaveLocals DEF Crash
<1>. QED  BY <1>1, <1>2, <1>3, <1>4, <1>5, <1>6, <1>7, <1>8, <1>9, <1>10, <1>11,
             <1>12, <1>13, <1>14, <1>15
          DEF HookStep, Recovery, Own, PostTool, Terminal

(* The steps that leave the ledger and the mirrors alone. *)
LEMMA QuietSteps ==
  ASSUME NEW p \in Proc,
         \/ Recovery(p) \/ \E d \in Payload : Deliver(p, d)
         \/ ReserveExisting(p) \/ NothingToReserve(p) \/ Fail(p) \/ Crash(p)
  PROVE  UNCHANGED <<ledger, mirrors>>
  BY DEF Recovery, LoadCandidates, LoadPosts, LoadStops, LoadRows, Load, Deliver,
         ReserveExisting, NothingToReserve, Fail, Crash

(* What the transactions shared by several actions do to the types. *)
LEMMA MarkDirtyType ==
  ASSUME TypeOK, NEW k \in Marking, MarkDirty(k)
  PROVE  /\ dirty' \in [Session -> Nat] /\ changes' \in [Session -> Seq(Change)]
         /\ DOMAIN marked' = DOMAIN marked \cup {k}
         /\ marked' \in [DOMAIN marked' -> Nat]
<1>1. SessionOf[k] \in Session /\ dirty[SessionOf[k]] \in Nat
      /\ changes[SessionOf[k]] \in Seq(Change)
  BY Keys DEF TypeOK, Post
<1>2. ChangeOf[k] \in Change
  BY LoopAssumption DEF Change, Range
<1>3. CASE Marked(k)
  BY <1>3 DEF MarkDirty, Marked, TypeOK
<1>4. CASE ~ Marked(k)
  <2>1. Merge(changes[SessionOf[k]], ChangeOf[k]) \in Seq(Change)
    BY <1>1, <1>2, MergeType
  <2>2. dirty' = [dirty EXCEPT ![SessionOf[k]] = @ + 1]
        /\ changes' = [changes EXCEPT ![SessionOf[k]] = Merge(@, ChangeOf[k])]
        /\ marked' = With(marked, k, dirty[SessionOf[k]] + 1)
    BY <1>4 DEF MarkDirty
  <2>3. marked' \in [DOMAIN marked' -> Nat] /\ DOMAIN marked' = DOMAIN marked \cup {k}
    BY <1>1, <2>2 DEF With, TypeOK
  <2>. QED  BY <1>1, <2>1, <2>2, <2>3 DEF TypeOK
<1>. QED  BY <1>3, <1>4

LEMMA CompleteType ==
  ASSUME TypeOK, NEW k \in DOMAIN status, Complete(k)
  PROVE  /\ DOMAIN status' = DOMAIN status
         /\ status' \in [DOMAIN status' -> {"processing", "completed", "error"}]
         /\ errorKey' \in [Session -> Key \cup {NoKey}]
  BY Keys DEF TypeOK, Complete

LEMMA CoverType ==
  ASSUME TypeOK, NEW s \in Session, Cover(s)
  PROVE  covered' \in [Session -> Nat] /\ changes' \in [Session -> Seq(Change)]
  BY DEF TypeOK, Cover

(* An UPDATE of one column of a checkpoint row. *)
LEMMA RowFields ==
  ASSUME NEW r \in Row
  PROVE  /\ [r EXCEPT !.record = "saved"] \in Row
         /\ [r EXCEPT !.record = "saved"].record = "saved"
         /\ [r EXCEPT !.record = "saved"].gen = r.gen
         /\ [r EXCEPT !.record = "saved"].changes = r.changes
         /\ [r EXCEPT !.record = "saved"].status = r.status
         /\ [r EXCEPT !.status = "written"] \in Row
         /\ [r EXCEPT !.status = "written"].gen = r.gen
         /\ [r EXCEPT !.status = "written"].changes = r.changes
         /\ [r EXCEPT !.status = "written"].record = r.record
  BY DEF Row

LEMMA SaveRow ==
  ASSUME TypeOK, NEW k \in DOMAIN outbox, outbox' = [outbox EXCEPT ![k].record = "saved"]
  PROVE  /\ DOMAIN outbox' = DOMAIN outbox /\ outbox' \in [DOMAIN outbox' -> Row]
         /\ outbox'[k].record = "saved"
         /\ \A j \in DOMAIN outbox : /\ outbox'[j].gen = outbox[j].gen
                                     /\ outbox'[j].changes = outbox[j].changes
                                     /\ outbox'[j].status = outbox[j].status
                                     /\ outbox[j].record = "saved" => outbox'[j].record = "saved"
<1>. DEFINE e == [outbox[k] EXCEPT !.record = "saved"]
<1>1. outbox' = [outbox EXCEPT ![k] = e]
  OBVIOUS
<1>2. outbox \in [DOMAIN outbox -> Row] /\ outbox[k] \in Row
  BY DEF TypeOK
<1>3. e \in Row /\ e.record = "saved" /\ e.gen = outbox[k].gen
      /\ e.changes = outbox[k].changes /\ e.status = outbox[k].status
  BY <1>2, RowFields
<1>. HIDE DEF e
<1>. QED  BY <1>1, <1>2, <1>3

LEMMA WriteRow ==
  ASSUME TypeOK, NEW k \in DOMAIN outbox, outbox' = [outbox EXCEPT ![k].status = "written"]
  PROVE  /\ DOMAIN outbox' = DOMAIN outbox /\ outbox' \in [DOMAIN outbox' -> Row]
         /\ \A j \in DOMAIN outbox : /\ outbox'[j].gen = outbox[j].gen
                                     /\ outbox'[j].changes = outbox[j].changes
                                     /\ outbox'[j].record = outbox[j].record
                                     /\ j # k => outbox'[j].status = outbox[j].status
<1>. DEFINE e == [outbox[k] EXCEPT !.status = "written"]
<1>1. outbox' = [outbox EXCEPT ![k] = e]
  OBVIOUS
<1>2. outbox \in [DOMAIN outbox -> Row] /\ outbox[k] \in Row
  BY DEF TypeOK
<1>3. e \in Row /\ e.record = outbox[k].record /\ e.gen = outbox[k].gen
  BY <1>2, RowFields
<1>. HIDE DEF e
<1>. QED  BY <1>1, <1>2, <1>3

LEMMA ReserveRow ==
  ASSUME TypeOK, NEW p \in Proc, item[p] \in StopKey, Reserve(p)
  PROVE  /\ DOMAIN outbox' = DOMAIN outbox \cup {item[p]}
         /\ outbox' \in [DOMAIN outbox' -> Row]
         /\ outbox'[item[p]].gen = dirty[SessionOfKey(item[p])]
         /\ outbox'[item[p]].changes = changes[SessionOfKey(item[p])]
         /\ outbox'[item[p]].status = "pending"
         /\ \A j \in DOMAIN outbox : outbox'[j] = outbox[j]
<1>. DEFINE s == SessionOfKey(item[p])
            e == [gen |-> dirty[s], changes |-> changes[s],
                  record |-> "pending", status |-> "pending"]
<1>1. outbox' = With(outbox, item[p], e) /\ item[p] \notin DOMAIN outbox
  BY DEF Reserve
<1>2. s \in Session
  BY Keys DEF Key
<1>3. e \in Row /\ e.gen = dirty[s] /\ e.changes = changes[s] /\ e.status = "pending"
  BY <1>2 DEF TypeOK, Row
<1>4. outbox \in [DOMAIN outbox -> Row]
  BY DEF TypeOK
<1>. HIDE DEF e
<1>. QED  BY <1>1, <1>3, <1>4 DEF With

LEMMA TypeInit == Init => TypeOK
  BY DEF Init, TypeOK, NoRows, Place, Stage

LEMMA TypeStep ==
  ASSUME TypeOK, RowsInv, PlaceInv, NEW p \in Proc, HookStep(p) \/ Fail(p) \/ Crash(p)
  PROVE  TypeOK'
<1>0. LocalsOK' /\ LocalsOK
  BY LocalsStep DEF TypeOK, LocalsOK
<1>i. StageInv(p) /\ ItemInv(p)
  BY DEF PlaceInv
<1>f. faults' \in Nat
  <2>1. UNCHANGED faults \/ Fault
    BY DEF HookStep, Recovery, Own, PostTool, Terminal, LoadCandidates, LoadPosts,
           LoadStops, LoadRows, Load, Deliver, Claim, Finish, FinishError, RecordCandidate,
           MarkNote, Acknowledge, AppendEpisode, MarkMirrored, ReserveExisting,
           NothingToReserve, Reserve, SaveRecord, AppendCheckpoint, AppendAudit,
           MarkWritten, Fail, Crash
  <2>. QED  BY <2>1 DEF Fault, TypeOK
<1>1. CASE \/ Recovery(p) \/ \E d \in Payload : Deliver(p, d)
           \/ ReserveExisting(p) \/ NothingToReserve(p) \/ Fail(p) \/ Crash(p)
  BY <1>0, <1>f, <1>1, QuietSteps DEF TypeOK, LocalsOK, ledger, sessions, events, mirrors
<1>2. CASE Claim(p)
  <2>1. item[p] \in Key /\ SessionOfKey(item[p]) \in Session
    BY <1>i, <1>2, Keys DEF ItemInv, Claim, At
  <2>2. /\ DOMAIN status' \subseteq Key
        /\ status' \in [DOMAIN status' -> {"processing", "completed", "error"}]
        /\ claimedAt' \in [DOMAIN status' -> Nat]
    <3>1. CASE item[p] \in DOMAIN status
      BY <1>2, <3>1 DEF Claim, TypeOK
    <3>2. CASE item[p] \notin DOMAIN status
      <4>1. /\ status' = With(status, item[p], "processing")
            /\ claimedAt' = With(claimedAt, item[p], dirty[SessionOfKey(item[p])])
        BY <1>2, <3>2 DEF Claim
      <4>2. dirty[SessionOfKey(item[p])] \in Nat
        BY <2>1 DEF TypeOK
      <4>3. /\ DOMAIN status \subseteq Key
            /\ status \in [DOMAIN status -> {"processing", "completed", "error"}]
            /\ claimedAt \in [DOMAIN status -> Nat]
        BY DEF TypeOK
      <4>. QED  BY <2>1, <4>1, <4>2, <4>3 DEF With
    <3>. QED  BY <3>1, <3>2
  <2>3. UNCHANGED <<dirty, covered, changes, errorKey, marked, candidate, outbox,
                    episodes, checkpoints, audits>>
    BY <1>2 DEF Claim, sessions, mirrors
  <2>. QED  BY <1>0, <1>f, <2>2, <2>3 DEF TypeOK, LocalsOK
<1>3. CASE Finish(p)
  <2>1. item[p] \in DOMAIN status /\ Complete(item[p])
    BY <1>i, <1>3 DEF ItemInv, Finish, At
  <2>. QED  BY <1>0, <1>f, <1>3, <2>1, CompleteType DEF Finish, TypeOK, LocalsOK, mirrors
<1>4. CASE FinishError(p)
  <2>1. item[p] \in DOMAIN status /\ SessionOfKey(item[p]) \in Session
    BY <1>i, <1>4, Keys DEF ItemInv, FinishError, At, TypeOK
  <2>. QED  BY <1>0, <1>f, <1>4, <2>1 DEF FinishError, TypeOK, LocalsOK, mirrors
<1>5. CASE RecordCandidate(p)
  <2>1. item[p] \in Edit /\ item[p] \in Marking /\ MarkDirty(item[p])
    BY <1>5 DEF RecordCandidate, Marking
  <2>2. /\ DOMAIN candidate' \subseteq Edit
        /\ candidate' \in [DOMAIN candidate' -> {"pending", "written"}]
    BY <1>5, <2>1 DEF RecordCandidate, With, TypeOK
  <2>3. DOMAIN marked' \subseteq Post
    BY <2>1, MarkDirtyType DEF TypeOK, Post
  <2>. QED  BY <1>0, <1>f, <1>5, <2>1, <2>2, <2>3, MarkDirtyType
            DEF RecordCandidate, TypeOK, LocalsOK, mirrors
<1>6. CASE MarkNote(p)
  <2>1. item[p] \in Note /\ item[p] \in Marking /\ item[p] \in DOMAIN status
        /\ MarkDirty(item[p]) /\ Complete(item[p])
    BY <1>i, <1>6 DEF MarkNote, Marking, ItemInv, At
  <2>3. DOMAIN marked' \subseteq Post
    BY <2>1, MarkDirtyType DEF TypeOK, Post
  <2>. QED  BY <1>0, <1>f, <1>6, <2>1, <2>3, MarkDirtyType, CompleteType
            DEF MarkNote, TypeOK, LocalsOK, mirrors
<1>7. CASE Acknowledge(p)
  <2>1. item[p] \in Explicit /\ item[p] \in Post /\ SessionOf[item[p]] \in Session
        /\ item[p] \in DOMAIN status
    BY <1>i, <1>7, Keys DEF Acknowledge, ItemInv, At
  <2>2. CASE Marked(item[p])
    BY <1>0, <1>f, <1>7, <2>2 DEF Acknowledge, TypeOK, LocalsOK, mirrors, sessions, events
  <2>3. CASE ~ Marked(item[p])
    <3>1. /\ Cover(SessionOf[item[p]]) /\ Complete(item[p])
          /\ marked' = With(marked, item[p], dirty[SessionOf[item[p]]])
          /\ UNCHANGED <<dirty, claimedAt, candidate, outbox, mirrors, faults>>
      BY <1>7, <2>3 DEF Acknowledge
    <3>2. DOMAIN marked' \subseteq Post /\ marked' \in [DOMAIN marked' -> Nat]
      BY <2>1, <3>1 DEF With, TypeOK
    <3>. QED  BY <1>0, <1>f, <2>1, <3>1, <3>2, CoverType, CompleteType
              DEF TypeOK, LocalsOK, mirrors
  <2>. QED  BY <2>2, <2>3
<1>8. CASE AppendEpisode(p)
  <2>1. item[p] \in Edit
    BY <1>i, <1>8 DEF AppendEpisode, ItemInv, At, TypeOK
  <2>. QED  BY <1>0, <1>f, <1>8, <2>1 DEF AppendEpisode, TypeOK, LocalsOK, ledger, sessions, events
<1>9. CASE MarkMirrored(p)
  <2>1. item[p] \in DOMAIN candidate /\ item[p] \in DOMAIN status /\ Complete(item[p])
    BY <1>i, <1>9 DEF MarkMirrored, ItemInv, At, RowsInv
  <2>. QED  BY <1>0, <1>f, <1>9, <2>1, CompleteType DEF MarkMirrored, TypeOK, LocalsOK, mirrors
<1>10. CASE Reserve(p)
  <2>1. item[p] \in StopKey /\ SessionOfKey(item[p]) \in Session
        /\ Cover(SessionOfKey(item[p]))
    BY <1>i, <1>10, Keys DEF Reserve, ItemInv, At, Key
  <2>2. DOMAIN outbox' \subseteq StopKey /\ outbox' \in [DOMAIN outbox' -> Row]
    <3>1. DOMAIN outbox' = DOMAIN outbox \cup {item[p]} /\ outbox' \in [DOMAIN outbox' -> Row]
      BY <1>10, <2>1, ReserveRow
    <3>. QED  BY <2>1, <3>1 DEF TypeOK
  <2>3. UNCHANGED <<dirty, errorKey, status, marked, claimedAt, candidate,
                    episodes, checkpoints, audits>>
    BY <1>10 DEF Reserve, events, mirrors
  <2>. QED  BY <1>0, <1>f, <2>1, <2>2, <2>3, CoverType DEF TypeOK, LocalsOK
<1>11. CASE SaveRecord(p)
  <2>1. item[p] \in DOMAIN outbox
    BY <1>i, <1>11 DEF SaveRecord, ItemInv, At
  <2>2. DOMAIN outbox' \subseteq StopKey /\ outbox' \in [DOMAIN outbox' -> Row]
    <3>1. outbox' = [outbox EXCEPT ![item[p]].record = "saved"]
      BY <1>11 DEF SaveRecord
    <3>. QED  BY <2>1, <3>1, SaveRow DEF TypeOK
  <2>. QED  BY <1>0, <1>f, <1>11, <2>2 DEF SaveRecord, TypeOK, LocalsOK, mirrors, sessions, events
<1>12. CASE AppendCheckpoint(p) \/ AppendAudit(p)
  <2>1. item[p] \in StopKey
    BY <1>i, <1>12 DEF AppendCheckpoint, AppendAudit, ItemInv, At, TypeOK
  <2>. QED  BY <1>0, <1>f, <1>12, <2>1
            DEF AppendCheckpoint, AppendAudit, TypeOK, LocalsOK, ledger, sessions, events
<1>13. CASE MarkWritten(p)
  <2>1. item[p] \in DOMAIN outbox /\ item[p] \in DOMAIN status /\ Complete(item[p])
    BY <1>i, <1>13 DEF MarkWritten, ItemInv, At, RowsInv
  <2>2. DOMAIN outbox' \subseteq StopKey /\ outbox' \in [DOMAIN outbox' -> Row]
    <3>1. outbox' = [outbox EXCEPT ![item[p]].status = "written"]
      BY <1>13 DEF MarkWritten
    <3>. QED  BY <2>1, <3>1, WriteRow DEF TypeOK
  <2>. QED  BY <1>0, <1>f, <1>13, <2>1, <2>2, CompleteType DEF MarkWritten, TypeOK, LocalsOK, mirrors
<1>. QED  BY <1>1, <1>2, <1>3, <1>4, <1>5, <1>6, <1>7, <1>8, <1>9, <1>10, <1>11,
             <1>12, <1>13
          DEF HookStep, Own, PostTool, Terminal

-----------------------------------------------------------------------------
(* Rows are never taken back *)

LEMMA GrowsStep ==
  ASSUME TypeOK, RowsInv, PlaceInv, NEW p \in Proc, HookStep(p) \/ Fail(p) \/ Crash(p)
  PROVE  Grows /\ RowsInv'
<1>i. StageInv(p) /\ ItemInv(p)
  BY DEF PlaceInv
<1>1. CASE \/ Recovery(p) \/ \E d \in Payload : Deliver(p, d)
           \/ ReserveExisting(p) \/ NothingToReserve(p) \/ Fail(p) \/ Crash(p)
  BY <1>1, QuietSteps DEF Grows, RowsInv, ledger, events, mirrors
<1>2. CASE Claim(p)
  <2>1. DOMAIN status \subseteq DOMAIN status'
    BY <1>2 DEF Claim, With
  <2>. QED  BY <1>2, <2>1 DEF Claim, Grows, RowsInv, mirrors
<1>3. CASE Finish(p)
  <2>1. DOMAIN status' = DOMAIN status
    BY <1>3 DEF Finish, Complete
  <2>. QED  BY <1>3, <2>1 DEF Finish, Grows, RowsInv, mirrors
<1>4. CASE FinishError(p)
  BY <1>4 DEF FinishError, Grows, RowsInv, mirrors
<1>5. CASE RecordCandidate(p)
  <2>1. item[p] \in Marking /\ item[p] \in DOMAIN status /\ MarkDirty(item[p])
    BY <1>i, <1>5 DEF RecordCandidate, Marking, ItemInv, At
  <2>2. DOMAIN candidate' = DOMAIN candidate \cup {item[p]}
    BY <1>5 DEF RecordCandidate, With
  <2>3. DOMAIN marked' = DOMAIN marked \cup {item[p]}
    BY <2>1, MarkDirtyType
  <2>. QED  BY <1>5, <2>1, <2>2, <2>3 DEF RecordCandidate, Grows, RowsInv, mirrors
<1>6. CASE MarkNote(p)
  <2>1. item[p] \in Marking /\ item[p] \in DOMAIN status /\ MarkDirty(item[p])
    BY <1>i, <1>6 DEF MarkNote, Marking, ItemInv, At
  <2>2. DOMAIN status' = DOMAIN status
    BY <1>6 DEF MarkNote, Complete
  <2>3. DOMAIN marked' = DOMAIN marked \cup {item[p]}
    BY <2>1, MarkDirtyType
  <2>. QED  BY <1>6, <2>1, <2>2, <2>3 DEF MarkNote, Grows, RowsInv, mirrors
<1>7. CASE Acknowledge(p)
  <2>1. item[p] \in DOMAIN status
    BY <1>i, <1>7 DEF Acknowledge, ItemInv, At
  <2>2. DOMAIN status' = DOMAIN status
    BY <1>7 DEF Acknowledge, Complete, events
  <2>3. DOMAIN marked' = DOMAIN marked \/ DOMAIN marked' = DOMAIN marked \cup {item[p]}
    BY <1>7 DEF Acknowledge, With, events
  <2>. QED  BY <1>7, <2>1, <2>2, <2>3 DEF Acknowledge, Grows, RowsInv, mirrors
<1>8. CASE AppendEpisode(p) \/ AppendCheckpoint(p) \/ AppendAudit(p)
  BY <1>8 DEF AppendEpisode, AppendCheckpoint, AppendAudit, Grows, RowsInv, ledger, events
<1>9. CASE MarkMirrored(p)
  <2>1. DOMAIN status' = DOMAIN status /\ DOMAIN candidate' = DOMAIN candidate
    BY <1>9 DEF MarkMirrored, Complete
  <2>. QED  BY <1>9, <2>1 DEF MarkMirrored, Grows, RowsInv, mirrors
<1>10. CASE Reserve(p)
  <2>1. item[p] \in StopKey /\ item[p] \in DOMAIN status
    BY <1>i, <1>10 DEF Reserve, ItemInv, At
  <2>2. /\ DOMAIN outbox' = DOMAIN outbox \cup {item[p]}
        /\ \A j \in DOMAIN outbox : outbox'[j] = outbox[j]
    BY <1>10, <2>1, ReserveRow
  <2>. QED  BY <1>10, <2>1, <2>2 DEF Reserve, Grows, RowsInv, mirrors, events
<1>11. CASE SaveRecord(p)
  <2>1. item[p] \in DOMAIN outbox /\ outbox' = [outbox EXCEPT ![item[p]].record = "saved"]
    BY <1>i, <1>11 DEF SaveRecord, ItemInv, At
  <2>. QED  BY <1>11, <2>1, SaveRow DEF SaveRecord, Grows, RowsInv, mirrors, events
<1>12. CASE MarkWritten(p)
  <2>1. item[p] \in DOMAIN outbox /\ outbox' = [outbox EXCEPT ![item[p]].status = "written"]
    BY <1>i, <1>12 DEF MarkWritten, ItemInv, At
  <2>2. DOMAIN status' = DOMAIN status
    BY <1>12 DEF MarkWritten, Complete
  <2>. QED  BY <1>12, <2>1, <2>2, WriteRow DEF MarkWritten, Grows, RowsInv, mirrors
<1>. QED  BY <1>1, <1>2, <1>3, <1>4, <1>5, <1>6, <1>7, <1>8, <1>9, <1>10, <1>11, <1>12
          DEF HookStep, Own, PostTool, Terminal

-----------------------------------------------------------------------------
(* Places *)

(* What another process knows stays true. *)
LEMMA OthersKnow ==
  ASSUME PlaceInv, Grows, NEW p \in Proc, Others(p), NEW q \in Proc \ {p}
  PROVE  StageInv(q)' /\ ItemInv(q)'
<1>1. /\ pc'[q] = pc[q] /\ stage'[q] = stage[q]
      /\ todo'[q] = todo[q] /\ item'[q] = item[q]
  BY DEF Others
<1>2. StageInv(q) /\ ItemInv(q)
  BY DEF PlaceInv
<1>3. StageInv(q)'
  BY <1>1, <1>2 DEF StageInv, Grows
<1>4. ItemInv(q)'
  BY <1>1, <1>2 DEF ItemInv, Grows
<1>. QED  BY <1>3, <1>4

(* The next row of a pass, or the next pass. *)
LEMMA TakePlace ==
  ASSUME TypeOK, RowsInv, NEW p \in Proc, NEW rows, Take(p, rows), Grows,
         \/ stage[p] = "candidates" /\ rows \subseteq DOMAIN candidate
         \/ stage[p] = "posts" /\ rows \subseteq Post \cap DOMAIN status
         \/ stage[p] = "stops" /\ rows \subseteq StopKey \cap DOMAIN status
         \/ stage[p] = "rows" /\ rows \subseteq DOMAIN outbox
  PROVE  StageInv(p)' /\ ItemInv(p)'
<1>1. CASE rows = {} /\ EndPass(p)
  <2>1. /\ stage'[p] = NextStage[stage[p]] /\ todo'[p] = {}
        /\ pc'[p] = IF NextStage[stage[p]] = "own" THEN "deliver" ELSE "load"
    BY <1>1 DEF EndPass, Goto, TypeOK
  <2>2. StageInv(p)'
    BY <2>1 DEF StageInv, NextStage
  <2>3. ItemInv(p)'
    BY <2>1 DEF ItemInv
  <2>. QED  BY <2>2, <2>3
<1>2. ASSUME NEW k \in rows, Goto(p, FirstPlace(p, k)), UNCHANGED stage,
             todo' = [todo EXCEPT ![p] = rows \ {k}], item' = [item EXCEPT ![p] = k]
      PROVE  StageInv(p)' /\ ItemInv(p)'
  <2>1. /\ pc'[p] = FirstPlace(p, k) /\ stage'[p] = stage[p]
        /\ todo'[p] = rows \ {k} /\ item'[p] = k
    BY <1>2 DEF Goto, TypeOK
  <2>2. StageInv(p)'
    BY <2>1 DEF StageInv, FirstPlace, Grows
  <2>3. k \in DOMAIN outbox => outbox[k].record \in {"pending", "saved"}
    BY DEF TypeOK, Row
  <2>4. ItemInv(p)'
    BY <2>1, <2>3 DEF ItemInv, FirstPlace, Grows
  <2>. QED  BY <2>2, <2>4
<1>. QED  BY <1>1, <1>2 DEF Take

LEMMA LeavePlace ==
  ASSUME TypeOK, NEW p \in Proc, Leave(p)
  PROVE  StageInv(p)' /\ ItemInv(p)'
  BY DEF Leave, Goto, StageInv, ItemInv, TypeOK

(* A step within the handler of the event or row in hand. *)
LEMMA GotoPlace ==
  ASSUME TypeOK, NEW p \in Proc, NEW place, Goto(p, place), UNCHANGED locals
  PROVE  /\ pc'[p] = place /\ stage'[p] = stage[p]
         /\ todo'[p] = todo[p] /\ item'[p] = item[p]
  BY DEF Goto, TypeOK, locals

LEMMA PlaceStep ==
  ASSUME TypeOK, RowsInv, PlaceInv, NEW p \in Proc, HookStep(p) \/ Fail(p) \/ Crash(p)
  PROVE  PlaceInv'
<1>. SUFFICES StageInv(p)' /\ ItemInv(p)'
  BY LocalsStep, GrowsStep, OthersKnow DEF PlaceInv
<1>g. Grows
  BY GrowsStep
<1>i. StageInv(p) /\ ItemInv(p)
  BY DEF PlaceInv
<1>1. CASE LoadCandidates(p)
  BY <1>1, <1>g, TakePlace DEF LoadCandidates, Load
<1>2. CASE LoadPosts(p)
  BY <1>2, <1>g, TakePlace DEF LoadPosts, Load
<1>3. CASE LoadStops(p)
  BY <1>3, <1>g, TakePlace DEF LoadStops, Load
<1>4. CASE LoadRows(p)
  BY <1>4, <1>g, TakePlace DEF LoadRows, Load
<1>5. CASE \E d \in Payload : Deliver(p, d)
  <2>1. pc'[p] = "claim" /\ stage'[p] = stage[p] /\ pc[p] = "deliver"
    BY <1>5 DEF Deliver, Goto, At, TypeOK
  <2>2. item'[p] \in Key
    <3>1. PICK d \in Payload : Deliver(p, d)
      BY <1>5
    <3>2. (IF d \in Stop THEN dirty[SessionOf[d]] ELSE 0) \in Nat
      BY LoopAssumption DEF TypeOK
    <3>3. OwnKey(d, IF d \in Stop THEN dirty[SessionOf[d]] ELSE 0) \in Key
      BY <3>2 DEF OwnKey, Key, StopKey, Payload
    <3>. QED  BY <3>1, <3>3 DEF Deliver, TypeOK
  <2>. QED  BY <1>i, <2>1, <2>2 DEF StageInv, ItemInv
<1>6. CASE Claim(p)
  <2>1. item[p] \in Key /\ pc[p] = "claim"
    BY <1>i, <1>6 DEF ItemInv, Claim, At
  <2>2. /\ stage'[p] = stage[p] /\ item'[p] = item[p]
        /\ pc'[p] = IF item[p] \in Post THEN "tool"
                    ELSE IF item[p] \in Quiet THEN "finish" ELSE "reserve"
    BY <1>6 DEF Claim, Goto, TypeOK, locals
  <2>3. item[p] \in DOMAIN status'
    BY <1>6 DEF Claim, With
  <2>. QED  BY <1>i, <2>1, <2>2, <2>3 DEF StageInv, ItemInv, Key
<1>7. CASE Finish(p)
  <2>1. CASE stage[p] = "own"
    BY <1>7, <2>1, LeavePlace DEF Finish
  <2>2. CASE stage[p] # "own"
    <3>1. Take(p, todo[p]) /\ pc[p] = "finish"
      BY <1>7, <2>2 DEF Finish, At
    <3>2. stage[p] \in {"posts", "stops"}
      BY <1>i, <2>2, <3>1 DEF StageInv, TypeOK, Stage
    <3>. QED  BY <1>i, <1>g, <3>1, <3>2, TakePlace DEF StageInv
  <2>. QED  BY <2>1, <2>2
<1>8. CASE FinishError(p)
  BY <1>8, LeavePlace DEF FinishError
<1>9. CASE RecordCandidate(p)
  <2>1. pc'[p] = "append" /\ stage'[p] = stage[p] /\ todo'[p] = todo[p] /\ item'[p] = item[p]
    BY <1>9, GotoPlace DEF RecordCandidate
  <2>2. item[p] \in DOMAIN candidate' /\ pc[p] = "tool"
    BY <1>9 DEF RecordCandidate, With, At
  <2>. QED  BY <1>i, <1>g, <2>1, <2>2 DEF StageInv, ItemInv, Grows
<1>10. CASE MarkNote(p) \/ Acknowledge(p)
  <2>1. pc'[p] = "finish" /\ stage'[p] = stage[p] /\ todo'[p] = todo[p] /\ item'[p] = item[p]
    BY <1>10, GotoPlace DEF MarkNote, Acknowledge
  <2>2. pc[p] = "tool"
    BY <1>10 DEF MarkNote, Acknowledge, At
  <2>. QED  BY <1>i, <1>g, <2>1, <2>2 DEF StageInv, ItemInv, Grows
<1>11. CASE AppendEpisode(p)
  <2>1. pc'[p] = "mirrored" /\ stage'[p] = stage[p] /\ todo'[p] = todo[p] /\ item'[p] = item[p]
    BY <1>11, GotoPlace DEF AppendEpisode
  <2>2. item[p] \in episodes' /\ pc[p] = "append"
    BY <1>11 DEF AppendEpisode, At
  <2>. QED  BY <1>i, <1>g, <2>1, <2>2 DEF StageInv, ItemInv, Grows
<1>12. CASE MarkMirrored(p)
  <2>1. pc[p] = "mirrored" /\ item[p] \in DOMAIN candidate /\ item[p] \in DOMAIN status
    BY <1>i, <1>12 DEF MarkMirrored, ItemInv, At, RowsInv
  <2>2. CASE stage[p] = "candidates"
    BY <1>i, <1>g, <1>12, <2>2, TakePlace DEF MarkMirrored, StageInv
  <2>3. CASE stage[p] # "candidates"
    <3>1. pc'[p] = "finish" /\ stage'[p] = stage[p] /\ todo'[p] = todo[p] /\ item'[p] = item[p]
      BY <1>12, <2>3, GotoPlace DEF MarkMirrored
    <3>. QED  BY <1>i, <1>g, <2>1, <2>3, <3>1 DEF StageInv, ItemInv, Grows
  <2>. QED  BY <2>2, <2>3
<1>13. CASE ReserveExisting(p) \/ Reserve(p)
  <2>1. pc[p] = "reserve" /\ item[p] \in StopKey
    BY <1>i, <1>13 DEF ReserveExisting, Reserve, At, ItemInv
  <2>2. PICK record : /\ AfterReserve(p, record)
                      /\ record # "pending" => /\ item[p] \in DOMAIN outbox
                                               /\ record = outbox[item[p]].record
    BY <1>13 DEF ReserveExisting, Reserve
  <2>3. item[p] \in DOMAIN outbox'
    BY <1>13, <1>g, <2>1, ReserveRow DEF ReserveExisting, Grows
  <2>4. CASE stage[p] = "own"
    <3>1. /\ pc'[p] = IF record = "pending" THEN "save" ELSE "checkpoint"
          /\ stage'[p] = stage[p] /\ todo'[p] = todo[p] /\ item'[p] = item[p]
      BY <2>2, <2>4, GotoPlace DEF AfterReserve
    <3>2. record # "pending" => outbox'[item[p]].record = "saved"
      <4>1. item[p] \in DOMAIN outbox => outbox[item[p]].record \in {"pending", "saved"}
        BY DEF TypeOK, Row
      <4>. QED  BY <2>2, <4>1, <1>g DEF Grows
    <3>. QED  BY <2>3, <2>4, <3>1, <3>2 DEF StageInv, ItemInv
  <2>5. CASE stage[p] # "own"
    <3>1. Take(p, todo[p])
      BY <2>2, <2>5 DEF AfterReserve
    <3>2. stage[p] = "stops"
      BY <1>i, <2>1, <2>5 DEF StageInv, TypeOK, Stage
    <3>. QED  BY <1>i, <1>g, <3>1, <3>2, TakePlace DEF StageInv
  <2>. QED  BY <2>4, <2>5
<1>14. CASE NothingToReserve(p)
  <2>1. pc'[p] = "finish" /\ stage'[p] = stage[p] /\ todo'[p] = todo[p] /\ item'[p] = item[p]
    BY <1>14, GotoPlace DEF NothingToReserve
  <2>2. pc[p] = "reserve"
    BY <1>14 DEF NothingToReserve, At
  <2>. QED  BY <1>i, <1>g, <2>1, <2>2 DEF StageInv, ItemInv, Grows
<1>15. CASE SaveRecord(p)
  <2>1. pc'[p] = "checkpoint" /\ stage'[p] = stage[p] /\ todo'[p] = todo[p] /\ item'[p] = item[p]
    BY <1>15, GotoPlace DEF SaveRecord
  <2>2. pc[p] = "save" /\ item[p] \in DOMAIN outbox
    BY <1>i, <1>15 DEF SaveRecord, At, ItemInv
  <2>3. outbox' = [outbox EXCEPT ![item[p]].record = "saved"]
    BY <1>15 DEF SaveRecord
  <2>4. outbox'[item[p]].record = "saved"
    BY <2>2, <2>3, SaveRow
  <2>. QED  BY <1>i, <1>g, <2>1, <2>2, <2>4 DEF StageInv, ItemInv, Grows
<1>16. CASE AppendCheckpoint(p)
  <2>1. pc'[p] = "audit" /\ stage'[p] = stage[p] /\ todo'[p] = todo[p] /\ item'[p] = item[p]
    BY <1>16, GotoPlace DEF AppendCheckpoint
  <2>2. pc[p] = "checkpoint" /\ item[p] \in checkpoints'
    BY <1>16 DEF AppendCheckpoint, At
  <2>. QED  BY <1>i, <1>g, <2>1, <2>2 DEF StageInv, ItemInv, Grows
<1>17. CASE AppendAudit(p)
  <2>1. pc'[p] = "written" /\ stage'[p] = stage[p] /\ todo'[p] = todo[p] /\ item'[p] = item[p]
    BY <1>17, GotoPlace DEF AppendAudit
  <2>2. pc[p] = "audit" /\ item[p] \in audits'
    BY <1>17 DEF AppendAudit, At
  <2>. QED  BY <1>i, <1>g, <2>1, <2>2 DEF StageInv, ItemInv, Grows
<1>18. CASE MarkWritten(p)
  <2>1. pc[p] = "written" /\ item[p] \in DOMAIN status'
    BY <1>i, <1>g, <1>18 DEF MarkWritten, At, ItemInv, RowsInv, Grows
  <2>2. CASE stage[p] = "own"
    <3>1. pc'[p] = "finish" /\ stage'[p] = stage[p] /\ todo'[p] = todo[p] /\ item'[p] = item[p]
      BY <1>18, <2>2, GotoPlace DEF MarkWritten
    <3>. QED  BY <2>1, <2>2, <3>1 DEF StageInv, ItemInv
  <2>3. CASE stage[p] # "own"
    <3>1. Take(p, todo[p])
      BY <1>18, <2>3 DEF MarkWritten
    <3>2. stage[p] = "rows"
      BY <1>i, <2>1, <2>3 DEF StageInv, TypeOK, Stage
    <3>. QED  BY <1>i, <1>g, <3>1, <3>2, TakePlace DEF StageInv
  <2>. QED  BY <2>2, <2>3
<1>19. CASE Fail(p)
  <2>1. CASE stage[p] # "own"
    <3>1. EndPass(p)
      BY <1>19, <2>1 DEF Fail
    <3>2. /\ stage'[p] = NextStage[stage[p]] /\ todo'[p] = {}
          /\ pc'[p] = IF NextStage[stage[p]] = "own" THEN "deliver" ELSE "load"
      BY <3>1 DEF EndPass, Goto, TypeOK
    <3>3. stage[p] \in {"candidates", "posts", "stops", "rows"}
      BY <2>1 DEF TypeOK, Stage
    <3>. QED  BY <3>2, <3>3 DEF StageInv, ItemInv, NextStage
  <2>2. CASE stage[p] = "own"
    <3>1. pc'[p] = "error" /\ stage'[p] = stage[p] /\ todo'[p] = todo[p] /\ item'[p] = item[p]
      BY <1>19, <2>2, GotoPlace DEF Fail
    <3>2. pc[p] \in Place \ {"idle", "load", "deliver", "claim", "error"}
      BY <1>i, <1>19, <2>2 DEF Fail, StageInv, TypeOK
    <3>3. item[p] \in DOMAIN status
      BY <1>i, <3>2 DEF ItemInv, Place, RowsInv
    <3>. QED  BY <1>g, <2>2, <3>1, <3>3 DEF StageInv, ItemInv, Grows
  <2>. QED  BY <2>1, <2>2
<1>20. CASE Crash(p)
  BY <1>20, LeavePlace DEF Crash
<1>. QED  BY <1>1, <1>2, <1>3, <1>4, <1>5, <1>6, <1>7, <1>8, <1>9, <1>10, <1>11,
             <1>12, <1>13, <1>14, <1>15, <1>16, <1>17, <1>18, <1>19, <1>20
          DEF HookStep, Recovery, Own, PostTool, Terminal

-----------------------------------------------------------------------------
(* The safety properties, one step at a time *)

LEMMA MirrorStep ==
  ASSUME TypeOK, RowsInv, PlaceInv, MirrorsFollowLedger,
         NEW p \in Proc, HookStep(p) \/ Fail(p) \/ Crash(p)
  PROVE  MirrorsFollowLedger'
<1>g. Grows
  BY GrowsStep
<1>i. StageInv(p) /\ ItemInv(p)
  BY DEF PlaceInv
<1>1. CASE AppendEpisode(p)
  <2>1. item[p] \in DOMAIN candidate
    BY <1>i, <1>1 DEF AppendEpisode, At, ItemInv
  <2>. QED  BY <1>1, <2>1 DEF AppendEpisode, MirrorsFollowLedger, RowsInv, ledger, events
<1>2. CASE AppendCheckpoint(p)
  <2>1. item[p] \in DOMAIN outbox /\ outbox[item[p]].record = "saved"
    BY <1>i, <1>2 DEF AppendCheckpoint, At, ItemInv
  <2>. QED  BY <1>2, <2>1 DEF AppendCheckpoint, MirrorsFollowLedger, ledger, events
<1>3. CASE AppendAudit(p)
  <2>1. item[p] \in checkpoints
    BY <1>i, <1>3 DEF AppendAudit, At, ItemInv
  <2>. QED  BY <1>3, <2>1 DEF AppendAudit, MirrorsFollowLedger, ledger, events
<1>4. CASE MarkMirrored(p)
  <2>1. item[p] \in episodes /\ item[p] \in DOMAIN candidate
    BY <1>i, <1>4 DEF MarkMirrored, At, ItemInv
  <2>2. candidate' = [candidate EXCEPT ![item[p]] = "written"]
        /\ UNCHANGED <<marked, outbox, episodes, checkpoints, audits>>
    BY <1>4 DEF MarkMirrored, mirrors
  <2>. QED  BY <2>1, <2>2 DEF MirrorsFollowLedger
<1>5. CASE MarkWritten(p)
  <2>1. item[p] \in audits /\ item[p] \in DOMAIN outbox
    BY <1>i, <1>5 DEF MarkWritten, At, ItemInv
  <2>2. outbox' = [outbox EXCEPT ![item[p]].status = "written"]
        /\ UNCHANGED <<marked, candidate, episodes, checkpoints, audits>>
    BY <1>5 DEF MarkWritten, mirrors
  <2>. QED  BY <2>1, <2>2, WriteRow DEF MirrorsFollowLedger
<1>6. CASE SaveRecord(p)
  <2>1. item[p] \in DOMAIN outbox
    BY <1>i, <1>6 DEF SaveRecord, At, ItemInv
  <2>2. outbox' = [outbox EXCEPT ![item[p]].record = "saved"]
        /\ UNCHANGED <<marked, candidate, episodes, checkpoints, audits>>
    BY <1>6 DEF SaveRecord, mirrors, events
  <2>. QED  BY <2>1, <2>2, SaveRow DEF MirrorsFollowLedger
<1>7. CASE Reserve(p)
  <2>1. item[p] \in StopKey /\ item[p] \notin DOMAIN outbox
    BY <1>i, <1>7 DEF Reserve, At, ItemInv
  <2>2. UNCHANGED <<marked, candidate, episodes, checkpoints, audits>>
    BY <1>7 DEF Reserve, mirrors, events
  <2>3. /\ DOMAIN outbox' = DOMAIN outbox \cup {item[p]}
        /\ outbox'[item[p]].status = "pending"
        /\ \A j \in DOMAIN outbox : outbox'[j] = outbox[j]
    BY <1>7, <2>1, ReserveRow
  <2>. QED  BY <2>1, <2>2, <2>3 DEF MirrorsFollowLedger
<1>8. CASE RecordCandidate(p)
  <2>1. UNCHANGED <<outbox, episodes, checkpoints, audits>>
    BY <1>8 DEF RecordCandidate, mirrors
  <2>2. \A k \in DOMAIN candidate' : candidate'[k] = "written" =>
          k \in DOMAIN candidate /\ candidate[k] = "written"
    BY <1>8 DEF RecordCandidate, With
  <2>. QED  BY <1>g, <2>1, <2>2 DEF MirrorsFollowLedger, Grows
<1>9. CASE UNCHANGED <<candidate, outbox, episodes, checkpoints, audits>>
  BY <1>g, <1>9 DEF MirrorsFollowLedger, Grows
<1>10. CASE \/ Recovery(p) \/ \E d \in Payload : Deliver(p, d)
            \/ ReserveExisting(p) \/ NothingToReserve(p) \/ Fail(p) \/ Crash(p)
  BY <1>9, <1>10, QuietSteps DEF ledger, mirrors
<1>11. CASE Claim(p) \/ Finish(p) \/ FinishError(p) \/ MarkNote(p) \/ Acknowledge(p)
  BY <1>9, <1>11 DEF Claim, Finish, FinishError, MarkNote, Acknowledge, mirrors
<1>. QED  BY <1>1, <1>2, <1>3, <1>4, <1>5, <1>6, <1>7, <1>8, <1>10, <1>11
          DEF HookStep, Own, PostTool, Terminal

(* Completing an event clears its error from its session, and no other. *)
LEMMA CompleteError ==
  ASSUME TypeOK, ErrorInv, NEW k \in DOMAIN status, Complete(k)
  PROVE  ErrorInv'
<1>1. /\ DOMAIN status' = DOMAIN status
      /\ \A j \in DOMAIN status \ {k} : status'[j] = status[j]
      /\ \A s \in Session :
           errorKey'[s] = IF s = SessionOfKey(k) /\ errorKey[s] = k THEN NoKey ELSE errorKey[s]
  BY DEF Complete, TypeOK
<1>. QED  BY <1>1 DEF ErrorInv

LEMMA ErrorStep ==
  ASSUME TypeOK, RowsInv, PlaceInv, ErrorInv,
         NEW p \in Proc, HookStep(p) \/ Fail(p) \/ Crash(p)
  PROVE  ErrorInv'
<1>i. StageInv(p) /\ ItemInv(p)
  BY DEF PlaceInv
<1>1. CASE Claim(p)
  <2>1. /\ errorKey' = errorKey /\ DOMAIN status \subseteq DOMAIN status'
        /\ \A k \in DOMAIN status : status'[k] = status[k]
    BY <1>1 DEF Claim, With, sessions
  <2>. QED  BY <2>1 DEF ErrorInv
<1>2. CASE Finish(p) \/ MarkNote(p) \/ MarkMirrored(p) \/ MarkWritten(p)
  <2>1. item[p] \in DOMAIN status /\ Complete(item[p])
    BY <1>i, <1>2 DEF Finish, MarkNote, MarkMirrored, MarkWritten, At, ItemInv, RowsInv
  <2>. QED  BY <2>1, CompleteError
<1>3. CASE Acknowledge(p)
  <2>1. item[p] \in DOMAIN status
    BY <1>i, <1>3 DEF Acknowledge, At, ItemInv
  <2>2. Complete(item[p]) \/ UNCHANGED <<status, errorKey>>
    BY <1>3 DEF Acknowledge, sessions, events
  <2>. QED  BY <2>1, <2>2, CompleteError DEF ErrorInv
<1>4. CASE FinishError(p)
  <2>1. item[p] \in DOMAIN status
    BY <1>i, <1>4 DEF FinishError, At, ItemInv
  <2>2. SessionOfKey(item[p]) \in Session
    BY <2>1, Keys DEF TypeOK
  <2>3. /\ DOMAIN status' = DOMAIN status /\ status'[item[p]] = "error"
        /\ \A j \in DOMAIN status \ {item[p]} : status'[j] = status[j]
        /\ \A s \in Session : errorKey'[s] = IF s = SessionOfKey(item[p]) THEN item[p]
                                             ELSE errorKey[s]
    BY <1>4, <2>1, <2>2 DEF FinishError, TypeOK
  <2>. QED  BY <2>1, <2>3 DEF ErrorInv
<1>5. CASE UNCHANGED <<status, errorKey>>
  BY <1>5 DEF ErrorInv
<1>6. CASE \/ Recovery(p) \/ \E d \in Payload : Deliver(p, d)
           \/ ReserveExisting(p) \/ NothingToReserve(p) \/ Fail(p) \/ Crash(p)
  BY <1>5, <1>6, QuietSteps DEF ledger, sessions, events
<1>7. CASE \/ RecordCandidate(p) \/ AppendEpisode(p) \/ Reserve(p) \/ SaveRecord(p)
           \/ AppendCheckpoint(p) \/ AppendAudit(p)
  BY <1>5, <1>7 DEF RecordCandidate, AppendEpisode, Reserve, SaveRecord, AppendCheckpoint,
                    AppendAudit, ledger, sessions, events
<1>. QED  BY <1>1, <1>2, <1>3, <1>4, <1>6, <1>7 DEF HookStep, Own, PostTool, Terminal

(* One piece of work is one generation. *)
LEMMA MarkDirtyGeneration ==
  ASSUME TypeOK, EachGenerationIsOneEvent, NEW k \in Marking, MarkDirty(k)
  PROVE  EachGenerationIsOneEvent'
<1>1. CASE Marked(k)
  BY <1>1 DEF MarkDirty, EachGenerationIsOneEvent, WorkOf
<1>2. CASE ~ Marked(k)
  <2>. DEFINE t == SessionOf[k]
  <2>1. t \in Session /\ dirty[t] \in Nat
    BY Keys DEF TypeOK, Post
  <2>2. /\ dirty'[t] = dirty[t] + 1
        /\ \A s \in Session \ {t} : dirty'[s] = dirty[s]
        /\ DOMAIN marked' = DOMAIN marked \cup {k} /\ k \notin DOMAIN marked
        /\ marked'[k] = dirty[t] + 1
        /\ \A j \in DOMAIN marked : marked'[j] = marked[j]
    BY <1>2, <2>1 DEF MarkDirty, Marked, With, TypeOK
  <2>3. /\ WorkOf(t)' = WorkOf(t) \cup {k}
        /\ \A s \in Session \ {t} : WorkOf(s)' = WorkOf(s) /\ k \notin WorkOf(s)
        /\ \A s \in Session : WorkOf(s) \subseteq DOMAIN marked
    BY <2>2 DEF WorkOf
  <2>. HIDE DEF t
  <2>4. ASSUME NEW s \in Session
        PROVE  /\ \A j \in WorkOf(s)' : marked'[j] \in 1 .. dirty'[s]
               /\ \A i, j \in WorkOf(s)' : marked'[i] = marked'[j] => i = j
               /\ \A g \in 1 .. dirty'[s] : \E j \in WorkOf(s)' : marked'[j] = g
    <3>0. /\ \A j \in WorkOf(s) : marked[j] \in 1 .. dirty[s]
          /\ \A i, j \in WorkOf(s) : marked[i] = marked[j] => i = j
          /\ \A g \in 1 .. dirty[s] : \E j \in WorkOf(s) : marked[j] = g
      BY DEF EachGenerationIsOneEvent
    <3>1. CASE s # t
      BY <2>2, <2>3, <3>0, <3>1
    <3>2. CASE s = t
      <4>1. \A j \in WorkOf(s) : marked'[j] = marked[j] /\ marked'[j] \in 1 .. dirty[t]
        BY <2>2, <2>3, <3>0, <3>2
      <4>2. \A g \in 1 .. dirty[t] + 1 : g \in 1 .. dirty[t] \/ g = dirty[t] + 1
        BY <2>1
      <4>3. \A j \in WorkOf(s)' : marked'[j] \in 1 .. dirty'[s]
        BY <2>1, <2>2, <2>3, <3>2, <4>1
      <4>4. \A i, j \in WorkOf(s)' : marked'[i] = marked'[j] => i = j
        BY <2>1, <2>2, <2>3, <3>0, <3>2, <4>1
      <4>5. \A g \in 1 .. dirty'[s] : \E j \in WorkOf(s)' : marked'[j] = g
        BY <2>1, <2>2, <2>3, <3>0, <3>2, <4>1, <4>2
      <4>. QED  BY <4>3, <4>4, <4>5
    <3>. QED  BY <3>1, <3>2
  <2>. QED  BY <2>4 DEF EachGenerationIsOneEvent
<1>. QED  BY <1>1, <1>2

LEMMA GenerationStep ==
  ASSUME TypeOK, RowsInv, PlaceInv, EachGenerationIsOneEvent,
         NEW p \in Proc, HookStep(p) \/ Fail(p) \/ Crash(p)
  PROVE  EachGenerationIsOneEvent'
<1>1. CASE RecordCandidate(p) \/ MarkNote(p)
  <2>1. item[p] \in Marking /\ MarkDirty(item[p])
    BY <1>1 DEF RecordCandidate, MarkNote, Marking
  <2>. QED  BY <2>1, MarkDirtyGeneration
<1>2. CASE Acknowledge(p)
  <2>1. dirty' = dirty
    BY <1>2 DEF Acknowledge, sessions
  <2>2. /\ \A s \in Session : WorkOf(s)' = WorkOf(s)
        /\ \A s \in Session : \A k \in WorkOf(s) : marked'[k] = marked[k]
    <3>1. item[p] \notin Marking
      BY <1>2, LoopAssumption DEF Acknowledge
    <3>2. \/ marked' = marked
          \/ \E v : marked' = With(marked, item[p], v)
      BY <1>2 DEF Acknowledge, events
    <3>. QED  BY <3>1, <3>2 DEF WorkOf, With
  <2>. QED  BY <2>1, <2>2 DEF EachGenerationIsOneEvent
<1>3. CASE UNCHANGED <<dirty, marked>>
  BY <1>3 DEF EachGenerationIsOneEvent, WorkOf
<1>4. CASE \/ Recovery(p) \/ \E d \in Payload : Deliver(p, d)
           \/ ReserveExisting(p) \/ NothingToReserve(p) \/ Fail(p) \/ Crash(p)
  BY <1>3, <1>4, QuietSteps DEF ledger, sessions, events
<1>5. CASE \/ Claim(p) \/ Finish(p) \/ FinishError(p) \/ AppendEpisode(p) \/ MarkMirrored(p)
           \/ Reserve(p) \/ SaveRecord(p) \/ AppendCheckpoint(p) \/ AppendAudit(p)
           \/ MarkWritten(p)
  BY <1>3, <1>5 DEF Claim, Finish, FinishError, AppendEpisode, MarkMirrored, Reserve,
                    SaveRecord, AppendCheckpoint, AppendAudit, MarkWritten, ledger,
                    sessions, events
<1>. QED  BY <1>1, <1>2, <1>4, <1>5 DEF HookStep, Own, PostTool, Terminal

-----------------------------------------------------------------------------
(* Generations *)

LEMMA KeyStep ==
  ASSUME TypeOK, RowsInv, PlaceInv, KeyInv, SeenInv,
         NEW p \in Proc, HookStep(p) \/ Fail(p) \/ Crash(p)
  PROVE  /\ KeyInv'
         /\ \A s \in Session : dirty[s] <= dirty'[s] /\ covered[s] <= covered'[s]
<1>i. StageInv(p) /\ ItemInv(p)
  BY DEF PlaceInv
<1>t. /\ \A s \in Session : dirty[s] \in Nat /\ covered[s] \in Nat
      /\ \A k \in StopKey : k[2] \in Nat /\ SessionOfKey(k) \in Session /\ k \in Key
      /\ DOMAIN outbox \subseteq StopKey
  BY Keys DEF TypeOK, StopKey, Key
<1>1. CASE RecordCandidate(p) \/ MarkNote(p)
  <2>1. item[p] \in Marking /\ MarkDirty(item[p]) /\ SessionOf[item[p]] \in Session
    BY <1>1, Keys DEF RecordCandidate, MarkNote, Marking, Post
  <2>2. \A s \in Session : dirty'[s] = dirty[s] \/ dirty'[s] = dirty[s] + 1
    BY <2>1 DEF MarkDirty, TypeOK
  <2>3. covered' = covered /\ outbox' = outbox /\ DOMAIN status' = DOMAIN status
    BY <1>1 DEF RecordCandidate, MarkNote, Complete
  <2>4. \A s \in Session : dirty[s] <= dirty'[s] /\ dirty'[s] \in Nat
    BY <1>t, <2>2
  <2>. QED  BY <1>t, <2>3, <2>4 DEF KeyInv
<1>2. CASE Acknowledge(p) \/ Reserve(p)
  <2>1. \/ UNCHANGED <<dirty, covered, status, outbox>>
        \/ /\ \E s \in Session : Cover(s) /\ (Reserve(p) => s = SessionOfKey(item[p]))
           /\ UNCHANGED dirty /\ DOMAIN status' = DOMAIN status
    <3>1. CASE Acknowledge(p)
      <4>1. SessionOf[item[p]] \in Session
        BY <3>1, Keys DEF Acknowledge
      <4>2. CASE Marked(item[p])
        BY <3>1, <4>2 DEF Acknowledge, sessions, events
      <4>3. CASE ~ Marked(item[p])
        <5>1. /\ Cover(SessionOf[item[p]]) /\ Complete(item[p])
              /\ UNCHANGED dirty /\ ~ Reserve(p)
          BY <3>1, <4>3 DEF Acknowledge, Reserve, At
        <5>. QED  BY <4>1, <5>1 DEF Complete
      <4>. QED  BY <4>2, <4>3
    <3>2. CASE Reserve(p)
      <4>1. item[p] \in StopKey
        BY <1>i, <3>2 DEF Reserve, At, ItemInv
      <4>. QED  BY <1>t, <3>2, <4>1 DEF Reserve, events
    <3>. QED  BY <1>2, <3>1, <3>2
  <2>2. CASE UNCHANGED <<dirty, covered, status, outbox>>
    BY <1>t, <2>2 DEF KeyInv
  <2>3. ASSUME NEW t \in Session, Cover(t), Reserve(p) => t = SessionOfKey(item[p]),
               UNCHANGED dirty, DOMAIN status' = DOMAIN status
        PROVE  /\ KeyInv'
               /\ \A s \in Session : dirty[s] <= dirty'[s] /\ covered[s] <= covered'[s]
    <3>1. \A s \in Session : covered'[s] = IF s = t THEN dirty[s] ELSE covered[s]
      BY <2>3 DEF Cover, TypeOK
    <3>2. \A s \in Session : covered[s] <= covered'[s] /\ covered'[s] <= dirty[s]
                             /\ covered'[s] \in Nat
      BY <1>t, <3>1 DEF KeyInv
    <3>3. \A k \in DOMAIN outbox' : k[2] <= covered'[SessionOfKey(k)]
      <4>1. \A k \in DOMAIN outbox : k[2] <= covered'[SessionOfKey(k)]
        BY <1>t, <3>2 DEF KeyInv
      <4>2. CASE Acknowledge(p)
        BY <4>1, <4>2 DEF Acknowledge
      <4>3. CASE Reserve(p)
        <5>1. item[p] \in StopKey \cap DOMAIN status
          BY <1>i, <4>3 DEF Reserve, At, ItemInv
        <5>2. item[p][2] <= covered'[SessionOfKey(item[p])]
          BY <1>t, <2>3, <3>1, <4>3, <5>1 DEF KeyInv
        <5>3. DOMAIN outbox' = DOMAIN outbox \cup {item[p]}
          BY <4>3, <5>1, ReserveRow
        <5>. QED  BY <4>1, <5>2, <5>3
      <4>. QED  BY <1>2, <4>2, <4>3
    <3>. QED  BY <1>t, <2>3, <3>2, <3>3 DEF KeyInv
  <2>. QED  BY <2>1, <2>2, <2>3
<1>3. CASE Claim(p)
  <2>1. UNCHANGED <<dirty, covered, outbox>>
    BY <1>3 DEF Claim, sessions
  <2>2. stage[p] = "own" /\ pc[p] = "claim"
    BY <1>i, <1>3 DEF Claim, At, StageInv, TypeOK, Stage
  <2>3. item[p] \in StopKey => item[p][2] <= dirty[SessionOfKey(item[p])]
    BY <2>2 DEF SeenInv
  <2>4. DOMAIN status' \subseteq DOMAIN status \cup {item[p]}
    BY <1>3 DEF Claim, With
  <2>. QED  BY <1>t, <2>1, <2>3, <2>4 DEF KeyInv
<1>4. CASE UNCHANGED <<dirty, covered>> /\ DOMAIN status' = DOMAIN status /\ DOMAIN outbox' = DOMAIN outbox
  BY <1>t, <1>4 DEF KeyInv
<1>5. CASE \/ Recovery(p) \/ \E d \in Payload : Deliver(p, d)
           \/ ReserveExisting(p) \/ NothingToReserve(p) \/ Fail(p) \/ Crash(p)
  BY <1>4, <1>5, QuietSteps DEF ledger, sessions, events
<1>6. CASE \/ Finish(p) \/ FinishError(p) \/ AppendEpisode(p) \/ MarkMirrored(p)
           \/ AppendCheckpoint(p) \/ AppendAudit(p)
  BY <1>4, <1>6 DEF Finish, FinishError, AppendEpisode, MarkMirrored, AppendCheckpoint,
                    AppendAudit, Complete, ledger, sessions, events
<1>7. CASE SaveRecord(p) \/ MarkWritten(p)
  <2>1. DOMAIN outbox' = DOMAIN outbox
    BY <1>7 DEF SaveRecord, MarkWritten
  <2>. QED  BY <1>4, <1>7, <2>1 DEF SaveRecord, MarkWritten, Complete, sessions, events
<1>. QED  BY <1>1, <1>2, <1>3, <1>5, <1>6, <1>7 DEF HookStep, Own, PostTool, Terminal

LEMMA SeenStep ==
  ASSUME TypeOK, RowsInv, PlaceInv, KeyInv, SeenInv, StopCoversObservedWork,
         NEW p \in Proc, HookStep(p) \/ Fail(p) \/ Crash(p)
  PROVE  SeenInv' /\ StopCoversObservedWork'
<1>. DEFINE Has(q) ==
       stage[q] = "own" /\ item[q] \in StopKey =>
         /\ item[q][2] = seen[q]
         /\ pc[q] = "claim" => seen[q] <= dirty[SessionOfKey(item[q])]
         /\ pc[q] = "finish" => seen[q] <= covered[SessionOfKey(item[q])]
<1>t. /\ \A s \in Session : dirty[s] \in Nat /\ covered[s] \in Nat
      /\ \A s \in Session : dirty'[s] \in Nat /\ covered'[s] \in Nat
      /\ \A k \in StopKey : k[2] \in Nat /\ SessionOfKey(k) \in Session
      /\ \A q \in Proc : seen[q] \in Nat
  <2>1. TypeOK'
    BY TypeStep
  <2>. QED  BY <2>1, Keys DEF TypeOK, StopKey, Key
<1>m. \A s \in Session : dirty[s] <= dirty'[s] /\ covered[s] <= covered'[s]
  BY KeyStep
<1>h. ASSUME NEW q \in Proc PROVE Has(q)
  <2>1. stage[q] = "own" /\ item[q] \in StopKey /\ pc[q] = "finish"
          => covered[SessionOfKey(item[q])] >= seen[q]
    BY DEF StopCoversObservedWork, At
  <2>2. item[q] \in StopKey => covered[SessionOfKey(item[q])] \in Nat /\ seen[q] \in Nat
    BY <1>t
  <2>. QED  BY <2>1, <2>2 DEF SeenInv
<1>o. ASSUME NEW q \in Proc \ {p} PROVE Has(q)'
  <2>1. /\ pc'[q] = pc[q] /\ stage'[q] = stage[q] /\ item'[q] = item[q] /\ seen'[q] = seen[q]
    BY LocalsStep DEF Others
  <2>2. Has(q)
    BY <1>h
  <2>3. item[q] \in StopKey =>
          LET s == SessionOfKey(item[q]) IN
            /\ dirty[s] <= dirty'[s] /\ covered[s] <= covered'[s]
            /\ dirty[s] \in Nat /\ dirty'[s] \in Nat /\ covered[s] \in Nat
            /\ covered'[s] \in Nat /\ seen[q] \in Nat
    BY <1>t, <1>m
  <2>. QED  BY <2>1, <2>2, <2>3 DEF SessionOfKey
<1>i. StageInv(p) /\ ItemInv(p) /\ Has(p)
  BY <1>h DEF PlaceInv
<1>g. ASSUME NEW place \in Place, Goto(p, place), UNCHANGED locals,
             place = "finish" /\ stage[p] = "own" /\ item[p] \in StopKey
               => seen[p] <= covered'[SessionOfKey(item[p])],
             place # "claim"
      PROVE  Has(p)'
  <2>1. pc'[p] = place /\ stage'[p] = stage[p] /\ item'[p] = item[p] /\ seen'[p] = seen[p]
    BY <1>g DEF Goto, locals, TypeOK
  <2>. QED  BY <1>g, <1>i, <2>1 DEF SessionOfKey
<1>k. ASSUME NEW rows, Take(p, rows) \/ (EndPass(p) /\ UNCHANGED seen), stage[p] # "own"
      PROVE  Has(p)'
  <2>1. stage'[p] # "own" \/ item'[p] = NoKey
    BY <1>k DEF Take, EndPass, TypeOK
  <2>. QED  BY <2>1, Keys DEF Key
<1>l. ASSUME Leave(p) PROVE Has(p)'
  BY <1>l DEF Leave, TypeOK
<1>n. item[p] \in Post \cup Quiet => item[p] \notin StopKey
  BY Keys
<1>p. Has(p)'
  <2>1. CASE LoadCandidates(p) \/ LoadPosts(p) \/ LoadStops(p) \/ LoadRows(p)
    BY <1>k, <2>1 DEF LoadCandidates, LoadPosts, LoadStops, LoadRows, Load
  <2>2. CASE \E d \in Payload : Deliver(p, d)
    <3>1. PICK d \in Payload : Deliver(p, d)
      BY <2>2
    <3>2. CASE d \in Stop
      <4>1. /\ seen'[p] = dirty[SessionOf[d]] /\ item'[p] = <<d, seen'[p]>>
            /\ pc'[p] = "claim" /\ dirty' = dirty
        BY <3>1, <3>2 DEF Deliver, OwnKey, Goto, TypeOK, ledger, sessions
      <4>2. dirty[SessionOf[d]] \in Nat
        BY <3>2, LoopAssumption DEF TypeOK, Payload
      <4>3. item'[p] \in StopKey => SessionOfKey(item'[p]) = SessionOf[d]
        BY <4>1 DEF SessionOfKey
      <4>. QED  BY <4>1, <4>2, <4>3 DEF SessionOfKey
    <3>3. CASE d \notin Stop
      <4>1. item'[p] = d
        BY <3>1, <3>3 DEF Deliver, OwnKey, TypeOK
      <4>2. d \notin StopKey
        BY LoopAssumption
      <4>. QED  BY <4>1, <4>2
    <3>. QED  BY <3>2, <3>3
  <2>3. CASE Claim(p)
    <3>1. Goto(p, IF item[p] \in Post THEN "tool"
                  ELSE IF item[p] \in Quiet THEN "finish" ELSE "reserve")
          /\ UNCHANGED locals
      BY <2>3 DEF Claim
    <3>. QED  BY <1>g, <1>n, <3>1 DEF Place
  <2>4. CASE Finish(p) \/ FinishError(p) \/ Crash(p)
    BY <1>k, <1>l, <2>4 DEF Finish, FinishError, Crash
  <2>5. CASE RecordCandidate(p) \/ AppendEpisode(p)
    BY <1>g, <2>5 DEF RecordCandidate, AppendEpisode, Place
  <2>6. CASE MarkNote(p) \/ Acknowledge(p)
    <3>1. item[p] \in Post /\ Goto(p, "finish") /\ UNCHANGED locals
      BY <2>6, Keys DEF MarkNote, Acknowledge
    <3>. QED  BY <1>g, <1>n, <3>1 DEF Place
  <2>7. CASE MarkMirrored(p)
    <3>1. item[p] \in Post
      BY <1>i, <2>7, Keys DEF MarkMirrored, At, ItemInv, TypeOK
    <3>2. \/ Take(p, todo[p]) /\ stage[p] # "own"
          \/ Goto(p, "finish") /\ UNCHANGED locals
      BY <2>7 DEF MarkMirrored
    <3>. QED  BY <1>g, <1>k, <1>n, <3>1, <3>2 DEF Place
  <2>8. CASE ReserveExisting(p) \/ Reserve(p)
    <3>1. \/ Take(p, todo[p]) /\ stage[p] # "own"
          \/ \E place \in {"save", "checkpoint"} : Goto(p, place) /\ UNCHANGED locals
      BY <2>8 DEF ReserveExisting, Reserve, AfterReserve
    <3>. QED  BY <1>g, <1>k, <3>1 DEF Place
  <2>9. CASE NothingToReserve(p)
    <3>1. item[p] \in StopKey \cap DOMAIN status
      BY <1>i, <2>9 DEF NothingToReserve, At, ItemInv
    <3>2. /\ item[p][2] <= dirty[SessionOfKey(item[p])]
          /\ dirty[SessionOfKey(item[p])] <= covered[SessionOfKey(item[p])]
          /\ covered' = covered
      BY <2>9, <3>1 DEF NothingToReserve, KeyInv, ledger, sessions
    <3>3. stage[p] = "own" => seen[p] <= covered'[SessionOfKey(item[p])]
      BY <1>i, <1>t, <3>1, <3>2
    <3>. QED  BY <1>g, <2>9, <3>3 DEF NothingToReserve, Place
  <2>10. CASE SaveRecord(p) \/ AppendCheckpoint(p) \/ AppendAudit(p)
    BY <1>g, <2>10 DEF SaveRecord, AppendCheckpoint, AppendAudit, Place
  <2>11. CASE MarkWritten(p)
    <3>1. item[p] \in DOMAIN outbox
      BY <1>i, <2>11 DEF MarkWritten, At, ItemInv
    <3>2. item[p][2] <= covered[SessionOfKey(item[p])] /\ covered' = covered
      BY <2>11, <3>1 DEF MarkWritten, KeyInv
    <3>3. stage[p] = "own" /\ item[p] \in StopKey => seen[p] <= covered'[SessionOfKey(item[p])]
      BY <1>i, <3>2
    <3>4. \/ Take(p, todo[p]) /\ stage[p] # "own"
          \/ Goto(p, "finish") /\ UNCHANGED locals
      BY <2>11 DEF MarkWritten
    <3>. QED  BY <1>g, <1>k, <3>3, <3>4 DEF Place
  <2>12. CASE Fail(p)
    BY <1>g, <1>k, <2>12 DEF Fail, Place
  <2>. QED  BY <2>1, <2>2, <2>3, <2>4, <2>5, <2>6, <2>7, <2>8, <2>9, <2>10, <2>11, <2>12
            DEF HookStep, Recovery, Own, PostTool, Terminal
<1>q. \A q \in Proc : Has(q)'
  BY <1>o, <1>p
<1>s. SeenInv'
  BY <1>q DEF SeenInv
<1>u. ASSUME NEW q \in Proc, At(q, "finish")', stage'[q] = "own", item'[q] \in StopKey
      PROVE  covered'[SessionOfKey(item'[q])] >= seen'[q]
  <2>1. seen'[q] <= covered'[SessionOfKey(item'[q])]
    BY <1>q, <1>u DEF At
  <2>2. seen'[q] \in Nat /\ covered'[SessionOfKey(item'[q])] \in Nat
    BY <1>t, <1>u, TypeStep DEF TypeOK
  <2>. QED  BY <2>1, <2>2
<1>. QED  BY <1>s, <1>u DEF StopCoversObservedWork

-----------------------------------------------------------------------------
(* The inductive invariant *)

LEMMA LoopInit == Init => LoopInv
<1>1. SUFFICES ASSUME Init PROVE LoopInv
  OBVIOUS
<1>2. TypeOK
  BY <1>1, TypeInit
<1>3. RowsInv /\ PlaceInv /\ MirrorsFollowLedger /\ ErrorInv
  BY <1>1 DEF Init, NoRows, RowsInv, PlaceInv, StageInv, ItemInv, MirrorsFollowLedger, ErrorInv
<1>4. EachGenerationIsOneEvent /\ KeyInv
  BY <1>1 DEF Init, NoRows, EachGenerationIsOneEvent, WorkOf, KeyInv
<1>5. SeenInv /\ StopCoversObservedWork
  BY <1>1 DEF Init, SeenInv, StopCoversObservedWork, At
<1>. QED  BY <1>2, <1>3, <1>4, <1>5 DEF LoopInv

LEMMA LoopStep == LoopInv /\ [Next]_vars => LoopInv'
<1>1. SUFFICES ASSUME LoopInv, [Next]_vars PROVE LoopInv'
  OBVIOUS
<1>2. CASE Next
  <2>1. PICK p \in Proc : HookStep(p) \/ Fail(p) \/ Crash(p)
    BY <1>2 DEF Next
  <2>2. TypeOK' /\ RowsInv' /\ PlaceInv'
    BY <1>1, <2>1, TypeStep, GrowsStep, PlaceStep DEF LoopInv
  <2>3. MirrorsFollowLedger' /\ ErrorInv' /\ EachGenerationIsOneEvent'
    BY <1>1, <2>1, MirrorStep, ErrorStep, GenerationStep DEF LoopInv
  <2>4. KeyInv' /\ SeenInv' /\ StopCoversObservedWork'
    BY <1>1, <2>1, KeyStep, SeenStep DEF LoopInv
  <2>. QED  BY <2>2, <2>3, <2>4 DEF LoopInv
<1>3. CASE UNCHANGED vars
  <2>1. UNCHANGED <<ledger, mirrors, pc, locals, faults>>
    BY <1>3 DEF vars
  <2>2. TypeOK'
    BY <1>1, <2>1 DEF LoopInv, TypeOK, ledger, sessions, events, mirrors, locals
  <2>3. RowsInv' /\ PlaceInv' /\ MirrorsFollowLedger' /\ ErrorInv'
    BY <1>1, <2>1 DEF LoopInv, RowsInv, PlaceInv, StageInv, ItemInv, MirrorsFollowLedger,
                      ErrorInv, ledger, sessions, events, mirrors, locals
  <2>4. EachGenerationIsOneEvent' /\ KeyInv' /\ SeenInv' /\ StopCoversObservedWork'
    BY <1>1, <2>1 DEF LoopInv, EachGenerationIsOneEvent, WorkOf, KeyInv, SeenInv,
                      StopCoversObservedWork, At, ledger, sessions, events, mirrors, locals
  <2>. QED  BY <2>2, <2>3, <2>4 DEF LoopInv
<1>. QED  BY <1>1, <1>2, <1>3

LEMMA LoopInvariant == Spec => []LoopInv
  BY LoopInit, LoopStep, PTL DEF Spec

(* Every variable of the ledger keeps its type: rows exist only for keys of *)
(* delivered events, candidates only for edits, outbox rows only for        *)
(* terminal keys.                                                           *)
THEOREM LoopTypeCorrect == Spec => []TypeOK
<1>1. LoopInv => TypeOK
  BY DEF LoopInv
<1>. QED  BY <1>1, LoopInvariant, PTL

(* A generation is one piece of work, however hooks are repeated, run       *)
(* concurrently, die or fail (_mark_dirty_in_connection).                   *)
THEOREM EachGenerationIsOneEventHolds == Spec => []EachGenerationIsOneEvent
<1>1. LoopInv => EachGenerationIsOneEvent
  BY DEF LoopInv
<1>. QED  BY <1>1, LoopInvariant, PTL

(* Admissions come before their mirrors and marks after them, in every      *)
(* interleaving (record_candidate, reserve_checkpoint, their mirrors).      *)
THEOREM MirrorsFollowLedgerHolds == Spec => []MirrorsFollowLedger
<1>1. LoopInv => MirrorsFollowLedger
  BY DEF LoopInv
<1>. QED  BY <1>1, LoopInvariant, PTL

(* What a session names as its error, however late it was reported, is an   *)
(* event of its own that the recoveries count as interrupted (finish_event  *)
(* and the transactions that complete an event).                            *)
ErrorsAreInterrupted ==
  \A s \in Session : errorKey[s] # NoKey => /\ errorKey[s] \in DOMAIN status
                                            /\ SessionOfKey(errorKey[s]) = s
                                            /\ Interrupted(errorKey[s])

THEOREM ErrorsAreInterruptedHolds == Spec => []ErrorsAreInterrupted
<1>1. LoopInv => ErrorsAreInterrupted
  BY DEF LoopInv, ErrorInv, ErrorsAreInterrupted, Interrupted
<1>. QED  BY <1>1, LoopInvariant, PTL

(* A terminal hook that ends well leaves a receipt for all it found dirty   *)
(* (handle, reserve_checkpoint), whichever process issued it.               *)
THEOREM StopCoversObservedWorkHolds == Spec => []StopCoversObservedWork
<1>1. LoopInv => StopCoversObservedWork
  BY DEF LoopInv
<1>. QED  BY <1>1, LoopInvariant, PTL

(* No step takes back a claim, an admission, a reservation, a saved record  *)
(* or a mirrored line.                                                      *)
THEOREM LedgerGrows == Spec => [][Grows]_vars
<1>1. LoopInv /\ [Next]_vars => [Grows]_vars
  <2>1. SUFFICES ASSUME LoopInv, Next PROVE Grows
    OBVIOUS
  <2>2. PICK p \in Proc : HookStep(p) \/ Fail(p) \/ Crash(p)
    BY <2>1 DEF Next
  <2>. QED  BY <2>1, <2>2, GrowsStep DEF LoopInv
<1>. QED  BY <1>1, LoopInvariant, PTL DEF Spec

-----------------------------------------------------------------------------
(* The refinement of WorkReceipts *)

(* The abstract work of the refinement mapping. *)
OpenWork == {k \in Marking \cap DOMAIN marked : marked[k] > covered[SessionOf[k]]}
ClosedWork == {k \in Marking \cap DOMAIN marked : marked[k] <= covered[SessionOf[k]]}
Issued == DOMAIN outbox \cup (Explicit \cap DOMAIN marked)

(* Every piece of work is a generation its session has had. *)
LEMMA WorkGenerations ==
  ASSUME TypeOK, EachGenerationIsOneEvent, NEW k \in Marking \cap DOMAIN marked
  PROVE  /\ SessionOf[k] \in Session
         /\ marked[k] \in Nat /\ dirty[SessionOf[k]] \in Nat /\ covered[SessionOf[k]] \in Nat
         /\ marked[k] <= dirty[SessionOf[k]]
<1>1. SessionOf[k] \in Session
  BY Keys DEF Post
<1>2. k \in WorkOf(SessionOf[k])
  BY DEF WorkOf
<1>3. dirty[SessionOf[k]] \in Nat /\ covered[SessionOf[k]] \in Nat
  BY <1>1 DEF TypeOK
<1>4. marked[k] \in 1 .. dirty[SessionOf[k]]
  BY <1>1, <1>2 DEF EachGenerationIsOneEvent
<1>. QED  BY <1>1, <1>3, <1>4

(* A receipt closes exactly the open work of its session. *)
LEMMA CoverCloses ==
  ASSUME TypeOK, EachGenerationIsOneEvent, KeyInv, NEW s \in Session, Cover(s),
         Marking \cap DOMAIN marked' = Marking \cap DOMAIN marked,
         \A k \in Marking \cap DOMAIN marked : marked'[k] = marked[k]
  PROVE  /\ OpenWork' = OpenWork \ {w \in OpenWork : SessionOf[w] = s}
         /\ ClosedWork' = ClosedWork \cup {w \in OpenWork : SessionOf[w] = s}
<1>1. \A t \in Session : covered'[t] = IF t = s THEN dirty[s] ELSE covered[t]
  BY DEF Cover, TypeOK
<1>2. ASSUME NEW k \in Marking \cap DOMAIN marked
      PROVE  /\ marked'[k] > covered'[SessionOf[k]]
                  <=> marked[k] > covered[SessionOf[k]] /\ SessionOf[k] # s
             /\ marked'[k] <= covered'[SessionOf[k]]
                  <=> \/ marked[k] <= covered[SessionOf[k]]
                      \/ marked[k] > covered[SessionOf[k]] /\ SessionOf[k] = s
  <2>1. /\ SessionOf[k] \in Session
        /\ marked[k] \in Nat /\ dirty[SessionOf[k]] \in Nat /\ covered[SessionOf[k]] \in Nat
        /\ marked[k] <= dirty[SessionOf[k]]
    BY WorkGenerations
  <2>2. marked'[k] = marked[k]
    OBVIOUS
  <2>. QED  BY <1>1, <2>1, <2>2
<1>. QED  BY <1>2 DEF OpenWork, ClosedWork

(* What a step is for the abstract specification: a stutter, or one action  *)
(* of it, with a receipt of a generation the session has had.               *)
AbstractStep ==
  \/ UNCHANGED WR!vars
  \/ \E k \in Marking : WR!Report(k)
  \/ \E k \in DOMAIN outbox' \cup Explicit, s \in Session : WR!Issue(k, s)
  \/ \E k \in DOMAIN outbox' : WR!Publish(k)

LEMMA ReportStep ==
  ASSUME TypeOK, EachGenerationIsOneEvent, KeyInv, NEW p \in Proc,
         RecordCandidate(p) \/ MarkNote(p)
  PROVE  AbstractStep
<1>0. PICK k : k = item[p]
  OBVIOUS
<1>. DEFINE s == SessionOf[k]
<1>1. k \in Marking /\ MarkDirty(k) /\ UNCHANGED <<covered, outbox, checkpoints>>
  BY <1>0 DEF RecordCandidate, MarkNote, Marking, mirrors
<1>2. s \in Session /\ k \notin Explicit
  BY <1>1, Keys, LoopAssumption DEF Post
<1>3. CASE Marked(k)
  <2>1. marked' = marked
    BY <1>1, <1>3 DEF MarkDirty
  <2>. QED  BY <1>1, <2>1 DEF AbstractStep, WR!vars
<1>4. CASE ~ Marked(k)
  <2>1. marked' = With(marked, k, dirty[s] + 1) /\ k \notin DOMAIN marked
    BY <1>1, <1>4 DEF MarkDirty, Marked
  <2>2. /\ DOMAIN marked' = DOMAIN marked \cup {k} /\ marked'[k] = dirty[s] + 1
        /\ \A j \in DOMAIN marked : marked'[j] = marked[j]
    BY <2>1 DEF With
  <2>3. dirty[s] + 1 > covered[s] /\ ~ dirty[s] + 1 <= covered[s]
    BY <1>2 DEF TypeOK, KeyInv
  <2>4. /\ OpenWork' = OpenWork \cup {k} /\ ClosedWork' = ClosedWork
        /\ k \notin OpenWork \cup ClosedWork
    BY <1>1, <2>1, <2>2, <2>3 DEF OpenWork, ClosedWork
  <2>5. Issued' = Issued
    BY <1>1, <1>2, <2>2 DEF Issued
  <2>6. WR!Report(k)
    BY <1>1, <2>4, <2>5 DEF WR!Report, OpenWork, ClosedWork, Issued
  <2>. QED  BY <1>1, <2>6 DEF AbstractStep
<1>. QED  BY <1>3, <1>4

LEMMA AcknowledgeIssues ==
  ASSUME TypeOK, EachGenerationIsOneEvent, KeyInv, NEW p \in Proc, Acknowledge(p)
  PROVE  AbstractStep
<1>0. PICK k : k = item[p]
  OBVIOUS
<1>. DEFINE s == SessionOf[k]
<1>1. k \in Explicit /\ UNCHANGED <<outbox, checkpoints>>
  BY <1>0 DEF Acknowledge, mirrors
<1>2. s \in Session /\ k \notin Marking /\ k \notin StopKey
  BY <1>1, Keys, LoopAssumption DEF Post
<1>3. CASE Marked(k)
  <2>1. UNCHANGED <<marked, covered>>
    BY <1>0, <1>3 DEF Acknowledge, sessions, events
  <2>. QED  BY <1>1, <2>1 DEF AbstractStep, WR!vars
<1>4. CASE ~ Marked(k)
  <2>1. Cover(s) /\ marked' = With(marked, k, dirty[s]) /\ k \notin DOMAIN marked
    BY <1>0, <1>4 DEF Acknowledge, Marked
  <2>2. /\ DOMAIN marked' = DOMAIN marked \cup {k}
        /\ \A j \in DOMAIN marked : marked'[j] = marked[j]
    BY <2>1 DEF With
  <2>3. /\ OpenWork' = OpenWork \ {w \in OpenWork : SessionOf[w] = s}
        /\ ClosedWork' = ClosedWork \cup {w \in OpenWork : SessionOf[w] = s}
    BY <1>2, <2>1, <2>2, CoverCloses
  <2>4. Issued' = Issued \cup {k} /\ k \notin Issued
    BY <1>1, <1>2, <2>1, <2>2 DEF Issued, TypeOK
  <2>5. WR!Issue(k, s)
    BY <1>1, <2>3, <2>4 DEF WR!Issue, OpenWork, ClosedWork, Issued
  <2>. QED  BY <1>1, <1>2, <2>5 DEF AbstractStep
<1>. QED  BY <1>3, <1>4

LEMMA ReserveIssues ==
  ASSUME TypeOK, PlaceInv, EachGenerationIsOneEvent, KeyInv, NEW p \in Proc, Reserve(p)
  PROVE  AbstractStep
<1>0. PICK k : k = item[p]
  OBVIOUS
<1>. DEFINE s == SessionOfKey(k)
<1>1. k \in StopKey /\ s \in Session /\ k \notin Explicit
  <2>1. k \in StopKey
    BY <1>0 DEF Reserve, At, PlaceInv, ItemInv
  <2>. QED  BY <2>1, Keys DEF Key
<1>2. k \notin DOMAIN outbox /\ Cover(s) /\ UNCHANGED <<marked, checkpoints>>
  BY <1>0 DEF Reserve, events, mirrors
<1>3. DOMAIN outbox' = DOMAIN outbox \cup {k}
  BY <1>0, <1>1, ReserveRow
<1>4. /\ OpenWork' = OpenWork \ {w \in OpenWork : SessionOf[w] = s}
      /\ ClosedWork' = ClosedWork \cup {w \in OpenWork : SessionOf[w] = s}
  BY <1>1, <1>2, CoverCloses
<1>5. Issued' = Issued \cup {k} /\ k \notin Issued
  BY <1>1, <1>2, <1>3 DEF Issued
<1>6. WR!Issue(k, s)
  BY <1>2, <1>4, <1>5 DEF WR!Issue, OpenWork, ClosedWork, Issued
<1>. QED  BY <1>1, <1>3, <1>6 DEF AbstractStep

LEMMA LoopAbstractStep ==
  ASSUME LoopInv, NEW p \in Proc, HookStep(p) \/ Fail(p) \/ Crash(p)
  PROVE  AbstractStep
<1>. USE DEF LoopInv
<1>1. CASE RecordCandidate(p) \/ MarkNote(p)
  BY <1>1, ReportStep
<1>2. CASE Acknowledge(p)
  BY <1>2, AcknowledgeIssues
<1>3. CASE Reserve(p)
  BY <1>3, ReserveIssues
<1>4. CASE AppendCheckpoint(p)
  <2>0. PICK k : k = item[p]
    OBVIOUS
  <2>1. k \in DOMAIN outbox
    BY <1>4, <2>0 DEF AppendCheckpoint, At, PlaceInv, ItemInv
  <2>2. checkpoints' = checkpoints \cup {k} /\ UNCHANGED <<marked, covered, outbox>>
    BY <1>4, <2>0 DEF AppendCheckpoint, ledger, sessions, events
  <2>. QED  BY <2>1, <2>2 DEF AbstractStep, WR!Publish
<1>5. CASE UNCHANGED <<marked, covered, checkpoints>> /\ DOMAIN outbox' = DOMAIN outbox
  BY <1>5 DEF AbstractStep, WR!vars
<1>6. CASE \/ Recovery(p) \/ \E d \in Payload : Deliver(p, d)
           \/ ReserveExisting(p) \/ NothingToReserve(p) \/ Fail(p) \/ Crash(p)
  BY <1>5, <1>6, QuietSteps DEF ledger, sessions, events, mirrors
<1>7. CASE \/ Claim(p) \/ Finish(p) \/ FinishError(p) \/ AppendEpisode(p)
           \/ MarkMirrored(p) \/ AppendAudit(p)
  BY <1>5, <1>7 DEF Claim, Finish, FinishError, AppendEpisode, MarkMirrored, AppendAudit,
                    ledger, sessions, events, mirrors
<1>8. CASE SaveRecord(p) \/ MarkWritten(p)
  <2>1. DOMAIN outbox' = DOMAIN outbox
    BY <1>8 DEF SaveRecord, MarkWritten
  <2>. QED  BY <1>5, <1>8, <2>1 DEF SaveRecord, MarkWritten, sessions, events, mirrors
<1>. QED  BY <1>1, <1>2, <1>3, <1>4, <1>6, <1>7, <1>8 DEF HookStep, Own, PostTool, Terminal

(* A session has had at most one generation per piece of work, so its      *)
(* terminal keys are among those the abstract specification is given.       *)
GenerationsBounded == \A s \in Session : dirty[s] <= Cardinality(Marking)

LEMMA WorkBoundsGenerations ==
  ASSUME IsFiniteSet(Marking), TypeOK, EachGenerationIsOneEvent
  PROVE  GenerationsBounded
<1>. SUFFICES ASSUME NEW s \in Session PROVE dirty[s] <= Cardinality(Marking)
  BY DEF GenerationsBounded
<1>1. dirty[s] \in Nat
  BY DEF TypeOK
<1>2. IsFiniteSet(1 .. dirty[s]) /\ Cardinality(1 .. dirty[s]) = dirty[s]
  BY <1>1, FS_Interval
<1>3. WorkOf(s) \subseteq Marking
  BY DEF WorkOf
<1>. DEFINE f == [g \in 1 .. dirty[s] |-> CHOOSE k \in WorkOf(s) : marked[k] = g]
<1>4. \A g \in 1 .. dirty[s] : f[g] \in WorkOf(s) /\ marked[f[g]] = g
  BY DEF EachGenerationIsOneEvent
<1>5. f \in Injection(1 .. dirty[s], Marking)
  BY <1>3, <1>4 DEF Injection, IsInjective
<1>. HIDE DEF f
<1>. QED  BY <1>2, <1>5, FS_Injection

(* Work is noted once, and a receipt closes all the open work of its        *)
(* session and nothing that comes later, whatever hooks race, die or fail:  *)
(* mark_dirty, reserve_checkpoint and acknowledge_explicit_checkpoint.      *)
THEOREM LoopImplementsWorkReceipts ==
  ASSUME IsFiniteSet(Marking)
  PROVE  Spec => ImplementsWorkReceipts
<1>1. Init => WR!Init
  BY DEF Init, NoRows, WR!Init
<1>2. LoopInv => GenerationsBounded
  BY WorkBoundsGenerations DEF LoopInv
<1>3. LoopInv /\ LoopInv' /\ GenerationsBounded' /\ [Next]_vars => [WR!Next]_(WR!vars)
  <2>. SUFFICES ASSUME LoopInv, LoopInv', GenerationsBounded', [Next]_vars
                PROVE  WR!Next \/ UNCHANGED WR!vars
    OBVIOUS
  <2>1. CASE UNCHANGED vars
    BY <2>1 DEF vars, ledger, sessions, events, mirrors, WR!vars
  <2>2. CASE AbstractStep
    <3>1. DOMAIN outbox' \subseteq StopKeysUpTo
      <4>. SUFFICES ASSUME NEW k \in DOMAIN outbox' PROVE k \in StopKeysUpTo
        OBVIOUS
      <4>1. k \in StopKey /\ SessionOfKey(k) \in Session /\ k[2] \in Nat
        BY Keys DEF LoopInv, TypeOK, Key, StopKey
      <4>2. /\ k[2] <= dirty'[SessionOfKey(k)] /\ dirty'[SessionOfKey(k)] \in Nat
            /\ dirty'[SessionOfKey(k)] <= Cardinality(Marking)
        BY <4>1 DEF LoopInv, TypeOK, KeyInv, RowsInv, GenerationsBounded
      <4>3. Cardinality(Marking) \in Nat
        BY FS_CardinalityType
      <4>4. k[2] \in 0 .. Cardinality(Marking)
        BY <4>1, <4>2, <4>3
      <4>. QED  BY <4>1, <4>4 DEF StopKeysUpTo, StopKey
    <3>. QED  BY <2>2, <3>1 DEF AbstractStep, WR!Next
  <2>. QED  BY <2>1, <2>2, LoopAbstractStep DEF Next
<1>. QED  BY <1>1, <1>2, <1>3, LoopInvariant, PTL DEF Spec, ImplementsWorkReceipts, WR!Spec

-----------------------------------------------------------------------------
(* What a receipt names *)

Distinct(q) == \A i, j \in 1 .. Len(q) : q[i] = q[j] => i = j

(* The changes a session holds are those of its open work, each once. *)
HeldInv == \A s \in Session :
  /\ Distinct(changes[s])
  /\ Len(changes[s]) <= MaxChanges
  /\ Names(changes[s], Due(s, covered[s], dirty[s]))

(* The newest receipt of a session is the generation it is covered up to. *)
ReceiptInv == \A s \in Session :
  /\ covered[s] \in Receipts(s)
  /\ \A g \in Receipts(s) : g <= covered[s]

Latest(before) == CHOOSE g \in before : \A h \in before : h <= g

RowNamed(k) ==
  LET before == {g \in Receipts(SessionOfKey(k)) : g < outbox[k].gen}
  IN  Names(outbox[k].changes, Due(SessionOfKey(k), Latest(before), outbox[k].gen))

RowsNamed == \A k \in DOMAIN outbox : RowNamed(k)

NamesInv == HeldInv /\ ReceiptInv /\ RowsNamed

(* A sequence without repetition has as many elements as places. *)
LEMMA DistinctCardinality ==
  ASSUME NEW q \in Seq(Change), Distinct(q)
  PROVE  IsFiniteSet(Range(q)) /\ Cardinality(Range(q)) = Len(q)
<1>1. Len(q) \in Nat /\ q \in [1 .. Len(q) -> Change] /\ DOMAIN q = 1 .. Len(q)
  OBVIOUS
<1>2. IsFiniteSet(1 .. Len(q)) /\ Cardinality(1 .. Len(q)) = Len(q)
  BY <1>1, FS_Interval
<1>3. q \in [1 .. Len(q) -> Range(q)] /\ \A c \in Range(q) : \E i \in 1 .. Len(q) : q[i] = c
  BY <1>1 DEF Range
<1>4. q \in Surjection(1 .. Len(q), Range(q)) /\ q \in Injection(1 .. Len(q), Range(q))
  BY <1>3 DEF Surjection, Injection, IsInjective, Distinct
<1>. QED  BY <1>2, <1>4, FS_Surjection

LEMMA AppendDistinct ==
  ASSUME NEW q \in Seq(Change), NEW c \in Change, Distinct(q), c \notin Range(q)
  PROVE  /\ Append(q, c) \in Seq(Change) /\ Len(Append(q, c)) = Len(q) + 1
         /\ Distinct(Append(q, c)) /\ Range(Append(q, c)) = Range(q) \cup {c}
<1>1. /\ Append(q, c) \in Seq(Change) /\ Len(Append(q, c)) = Len(q) + 1
      /\ Append(q, c)[Len(q) + 1] = c
      /\ \A i \in 1 .. Len(q) : Append(q, c)[i] = q[i]
      /\ Len(q) \in Nat
  OBVIOUS
<1>2. DOMAIN Append(q, c) = 1 .. Len(q) + 1 /\ DOMAIN q = 1 .. Len(q)
  BY <1>1
<1>3. \A i \in 1 .. Len(q) + 1 : i \in 1 .. Len(q) \/ i = Len(q) + 1
  BY <1>1
<1>4. \A i \in 1 .. Len(q) : q[i] \in Range(q) /\ i \in 1 .. Len(q) + 1
  BY <1>1, <1>2 DEF Range
<1>5. Len(q) + 1 \in 1 .. Len(q) + 1
  BY <1>1
<1>6. Distinct(Append(q, c))
  <2>. SUFFICES ASSUME NEW i \in 1 .. Len(q) + 1, NEW j \in 1 .. Len(q) + 1,
                       Append(q, c)[i] = Append(q, c)[j]
                PROVE  i = j
    BY <1>1 DEF Distinct
  <2>. QED  BY <1>1, <1>3, <1>4 DEF Distinct
<1>7. Range(Append(q, c)) = Range(q) \cup {c}
  <2>1. ASSUME NEW x \in Range(Append(q, c)) PROVE x \in Range(q) \cup {c}
    <3>1. PICK i \in 1 .. Len(q) + 1 : x = Append(q, c)[i]
      BY <1>2, <2>1 DEF Range
    <3>. QED  BY <1>1, <1>3, <1>4, <3>1
  <2>2. ASSUME NEW x \in Range(q) \cup {c} PROVE x \in Range(Append(q, c))
    <3>1. CASE x = c
      BY <1>1, <1>2, <1>5, <3>1 DEF Range
    <3>2. CASE x \in Range(q)
      <4>1. PICK i \in 1 .. Len(q) : x = q[i]
        BY <1>2, <3>2 DEF Range
      <4>2. x = Append(q, c)[i] /\ i \in 1 .. Len(q) + 1
        BY <1>1, <1>4, <4>1
      <4>. QED  BY <1>2, <4>2 DEF Range
    <3>. QED  BY <2>2, <3>1, <3>2
  <2>. QED  BY <2>1, <2>2
<1>. QED  BY <1>1, <1>6, <1>7

LEMMA TailDistinct ==
  ASSUME NEW q \in Seq(Change), Distinct(q), Len(q) > 0
  PROVE  /\ Tail(q) \in Seq(Change) /\ Len(Tail(q)) = Len(q) - 1
         /\ Distinct(Tail(q)) /\ Range(Tail(q)) \subseteq Range(q)
<1>1. /\ Tail(q) \in Seq(Change) /\ Len(Tail(q)) = Len(q) - 1
      /\ \A i \in 1 .. Len(q) - 1 : Tail(q)[i] = q[i + 1]
      /\ Len(q) \in Nat
  OBVIOUS
<1>2. DOMAIN Tail(q) = 1 .. Len(q) - 1 /\ DOMAIN q = 1 .. Len(q)
  BY <1>1
<1>3. \A i \in 1 .. Len(q) - 1 : i + 1 \in 1 .. Len(q) /\ i \in Int
  BY <1>1
<1>4. Distinct(Tail(q))
  <2>. SUFFICES ASSUME NEW i \in 1 .. Len(q) - 1, NEW j \in 1 .. Len(q) - 1,
                       Tail(q)[i] = Tail(q)[j]
                PROVE  i = j
    BY <1>1 DEF Distinct
  <2>1. q[i + 1] = q[j + 1]
    BY <1>1
  <2>2. i + 1 = j + 1
    BY <1>3, <2>1 DEF Distinct
  <2>. QED  BY <1>3, <2>2
<1>5. Range(Tail(q)) \subseteq Range(q)
  BY <1>1, <1>2, <1>3 DEF Range
<1>. QED  BY <1>1, <1>4, <1>5

(* One more change to name: it is kept, and the oldest one dropped only     *)
(* when there are too many to name.                                         *)
LEMMA MergeNames ==
  ASSUME NEW old \in Seq(Change), NEW c \in Change, NEW due, IsFiniteSet(due),
         Distinct(old), Len(old) <= MaxChanges, Names(old, due)
  PROVE  /\ Distinct(Merge(old, c)) /\ Len(Merge(old, c)) <= MaxChanges
         /\ Names(Merge(old, c), due \cup {c})
<1>1. MaxChanges \in Nat \ {0} /\ Len(old) \in Nat /\ Cardinality(due) \in Nat
  BY LoopAssumption, FS_CardinalityType
<1>2. IsFiniteSet(Range(old)) /\ Cardinality(Range(old)) = Len(old)
  BY DistinctCardinality
<1>3. Range(old) \subseteq due
  BY DEF Names
<1>4. /\ IsFiniteSet(due \cup {c})
      /\ Cardinality(due \cup {c}) = IF c \in due THEN Cardinality(due) ELSE Cardinality(due) + 1
  BY FS_AddElement
<1>5. Len(old) = IF Cardinality(due) <= MaxChanges THEN Cardinality(due) ELSE MaxChanges
  BY <1>2 DEF Names
<1>6. CASE c \in Range(old)
  <2>1. Merge(old, c) = old
    BY <1>1, <1>6 DEF Merge
  <2>2. due \cup {c} = due
    BY <1>3, <1>6
  <2>. QED  BY <2>1, <2>2
<1>7. CASE c \notin Range(old)
  <2>. DEFINE all == Append(old, c)
  <2>1. /\ all \in Seq(Change) /\ Len(all) = Len(old) + 1
        /\ Distinct(all) /\ Range(all) = Range(old) \cup {c}
    BY <1>7, AppendDistinct
  <2>2. Merge(old, c) = IF Len(all) > MaxChanges THEN Tail(all) ELSE all
    BY <1>7 DEF Merge
  <2>. HIDE DEF all
  <2>3. Range(all) \subseteq due \cup {c}
    BY <1>3, <2>1
  <2>4. CASE Len(all) <= MaxChanges
    <3>1. Cardinality(due) = Len(old)
      BY <1>1, <1>5, <2>1, <2>4
    <3>2. Range(old) = due
      BY <1>2, <1>3, <3>1, FS_Subset
    <3>3. Cardinality(due \cup {c}) = Len(all)
      BY <1>4, <1>7, <2>1, <3>1, <3>2
    <3>4. Merge(old, c) = all
      BY <1>1, <2>1, <2>2, <2>4
    <3>5. Cardinality(Range(all)) = Len(all)
      BY <2>1, DistinctCardinality
    <3>. QED  BY <2>1, <2>3, <2>4, <3>3, <3>4, <3>5 DEF Names
  <2>5. CASE Len(all) > MaxChanges
    <3>1. Len(old) = MaxChanges /\ Len(all) > 0
      BY <1>1, <2>1, <2>5
    <3>2. /\ Tail(all) \in Seq(Change) /\ Len(Tail(all)) = Len(all) - 1
          /\ Distinct(Tail(all)) /\ Range(Tail(all)) \subseteq Range(all)
      BY <2>1, <3>1, TailDistinct
    <3>3. Len(Tail(all)) = MaxChanges
      BY <1>1, <2>1, <3>1, <3>2
    <3>4. Cardinality(due) >= MaxChanges
      BY <1>1, <1>5, <3>1
    <3>5. Cardinality(due \cup {c}) \in Nat /\ Cardinality(due \cup {c}) >= MaxChanges
      BY <1>1, <1>4, <3>4
    <3>6. Cardinality(Range(Tail(all))) = MaxChanges
      BY <3>2, <3>3, DistinctCardinality
    <3>7. Cardinality(Range(Tail(all)))
            = IF Cardinality(due \cup {c}) <= MaxChanges THEN Cardinality(due \cup {c})
              ELSE MaxChanges
      BY <1>1, <3>5, <3>6
    <3>8. Merge(old, c) = Tail(all) /\ Len(Tail(all)) <= MaxChanges
      BY <1>1, <2>2, <2>5, <3>3
    <3>. QED  BY <2>3, <3>2, <3>7, <3>8 DEF Names
  <2>. QED  BY <1>1, <2>1, <2>4, <2>5
<1>. QED  BY <1>6, <1>7

LEMMA DueFinite ==
  ASSUME TypeOK, EachGenerationIsOneEvent, NEW s \in Session, NEW from, NEW to
  PROVE  IsFiniteSet(Due(s, from, to))
<1>1. dirty[s] \in Nat
  BY DEF TypeOK
<1>2. IsFiniteSet(1 .. dirty[s])
  BY <1>1, FS_Interval
<1>. DEFINE f == [k \in WorkOf(s) |-> marked[k]]
<1>3. f \in Injection(WorkOf(s), 1 .. dirty[s])
  BY DEF EachGenerationIsOneEvent, Injection, IsInjective
<1>4. IsFiniteSet(WorkOf(s))
  BY <1>2, <1>3, FS_Injection
<1>. DEFINE W == {w \in WorkOf(s) : from < marked[w] /\ marked[w] <= to}
            g == [k \in W |-> ChangeOf[k]]
<1>5. IsFiniteSet(W)
  BY <1>4, FS_Subset
<1>6. g \in Surjection(W, Due(s, from, to))
  BY DEF Due, Surjection
<1>. HIDE DEF W, g
<1>. QED  BY <1>5, <1>6, FS_Surjection

LEMMA ReceiptGenerations ==
  ASSUME TypeOK, NEW s \in Session
  PROVE  Receipts(s) \subseteq Nat
<1>1. \A k \in DOMAIN outbox : outbox[k].gen \in Nat
  <2>1. \A k \in DOMAIN outbox : outbox[k] \in Row
    BY DEF TypeOK
  <2>. QED  BY <2>1 DEF Row
<1>2. \A k \in DOMAIN marked : marked[k] \in Nat
  BY DEF TypeOK
<1>. QED  BY <1>1, <1>2 DEF Receipts

(* The work up to a generation a session has had is settled. *)
WorkSettled ==
  \A s \in Session :
    /\ WorkOf(s) \subseteq WorkOf(s)'
    /\ \A k \in WorkOf(s) : marked'[k] = marked[k]
    /\ \A k \in WorkOf(s)' \ WorkOf(s) : marked'[k] = dirty[s] + 1

LEMMA DueSettled ==
  ASSUME TypeOK, WorkSettled, NEW s \in Session, NEW from, NEW to \in Nat, to <= dirty[s]
  PROVE  Due(s, from, to)' = Due(s, from, to)
<1>1. \A k \in WorkOf(s)' \ WorkOf(s) : ~ marked'[k] <= to
  BY DEF WorkSettled, TypeOK
<1>2. \A k \in WorkOf(s) : k \in WorkOf(s)' /\ marked'[k] = marked[k]
  BY DEF WorkSettled
<1>3. {w \in WorkOf(s)' : from < marked'[w] /\ marked'[w] <= to}
        = {w \in WorkOf(s) : from < marked[w] /\ marked[w] <= to}
  BY <1>1, <1>2
<1>. QED  BY <1>3 DEF Due

(* A row keeps the receipt before it and so the work it is to name. *)
LEMMA RowStaysNamed ==
  ASSUME TypeOK, KeyInv, ReceiptInv, WorkSettled,
         NEW k \in DOMAIN outbox, RowNamed(k),
         outbox'[k].gen = outbox[k].gen, outbox'[k].changes = outbox[k].changes,
         \/ Receipts(SessionOfKey(k))' = Receipts(SessionOfKey(k))
         \/ Receipts(SessionOfKey(k))' = Receipts(SessionOfKey(k)) \cup {dirty[SessionOfKey(k)]}
  PROVE  RowNamed(k)'
<1>. DEFINE s == SessionOfKey(k)
<1>1. s \in Session
  BY Keys DEF TypeOK, Key
<1>2. PICK g : g = outbox[k].gen
  OBVIOUS
<1>3. g \in Receipts(s)
  BY <1>2 DEF Receipts
<1>4. g \in Nat /\ g <= dirty[s] /\ dirty[s] \in Nat
  <2>1. g <= covered[s] /\ g \in Nat /\ covered[s] <= dirty[s]
    BY <1>1, <1>3, ReceiptGenerations DEF ReceiptInv, KeyInv
  <2>. QED  BY <1>1, <2>1 DEF TypeOK
<1>5. PICK before : before = {h \in Receipts(s) : h < g}
  OBVIOUS
<1>6. before = {h \in Receipts(s)' : h < g}
  BY <1>4, <1>5
<1>7. Names(outbox[k].changes, Due(s, Latest(before), g))
  BY <1>2, <1>5 DEF RowNamed
<1>8. Due(s, Latest(before), g)' = Due(s, Latest(before), g)
  BY <1>1, <1>4, DueSettled
<1>9. Names(outbox'[k].changes, Due(s, Latest(before), g)')
  BY <1>7, <1>8
<1>. QED  BY <1>2, <1>6, <1>9 DEF RowNamed, Due, Names

(* A step that only moves rows along. *)
LEMMA NamesFrame ==
  ASSUME TypeOK, KeyInv, NamesInv, UNCHANGED <<dirty, covered, changes, marked>>,
         DOMAIN outbox' = DOMAIN outbox,
         \A k \in DOMAIN outbox : /\ outbox'[k].gen = outbox[k].gen
                                  /\ outbox'[k].changes = outbox[k].changes
  PROVE  NamesInv'
<1>1. \A s : WorkOf(s)' = WorkOf(s)
  BY DEF WorkOf
<1>2. \A s, from, to : Due(s, from, to)' = Due(s, from, to)
  BY <1>1 DEF Due
<1>3. \A s : Receipts(s)' = Receipts(s)
  BY DEF Receipts
<1>4. WorkSettled
  BY <1>1 DEF WorkSettled
<1>5. ReceiptInv'
  BY <1>3 DEF NamesInv, ReceiptInv
<1>6. HeldInv'
  <2>. SUFFICES ASSUME NEW s \in Session
                PROVE  /\ Distinct(changes'[s]) /\ Len(changes'[s]) <= MaxChanges
                       /\ Names(changes'[s], Due(s, covered[s], dirty[s])')
    BY DEF HeldInv
  <2>1. PICK c, d : c = covered[s] /\ d = dirty[s]
    OBVIOUS
  <2>2. /\ Distinct(changes[s]) /\ Len(changes[s]) <= MaxChanges
        /\ Names(changes[s], Due(s, c, d))
    BY <2>1 DEF NamesInv, HeldInv
  <2>3. Names(changes[s], Due(s, c, d)')
    BY <1>2, <2>2
  <2>. QED  BY <2>1, <2>2, <2>3 DEF Due
<1>7. RowsNamed'
  <2>1. \A k \in DOMAIN outbox : RowNamed(k)'
    BY <1>3, <1>4, RowStaysNamed DEF NamesInv, RowsNamed
  <2>. QED  BY <2>1 DEF RowsNamed
<1>. QED  BY <1>5, <1>6, <1>7 DEF NamesInv

(* An event advances its session. *)
LEMMA MarkDirtyNames ==
  ASSUME TypeOK, EachGenerationIsOneEvent, KeyInv, NamesInv,
         NEW k \in Marking, MarkDirty(k), UNCHANGED <<covered, outbox>>
  PROVE  NamesInv'
<1>. DEFINE t == SessionOf[k]
<1>1. /\ t \in Session /\ k \notin Explicit /\ ChangeOf[k] \in Change
      /\ \A s \in Session : dirty[s] \in Nat /\ covered[s] \in Nat /\ covered[s] <= dirty[s]
      /\ \A s \in Session : changes[s] \in Seq(Change)
  BY Keys, LoopAssumption DEF Post, Change, Range, TypeOK, KeyInv
<1>2. CASE Marked(k)
  BY <1>2, NamesFrame DEF MarkDirty
<1>3. CASE ~ Marked(k)
  <2>1. /\ dirty' = [dirty EXCEPT ![t] = @ + 1]
        /\ changes' = [changes EXCEPT ![t] = Merge(@, ChangeOf[k])]
        /\ DOMAIN marked' = DOMAIN marked \cup {k} /\ k \notin DOMAIN marked
        /\ marked'[k] = dirty[t] + 1
        /\ \A j \in DOMAIN marked : marked'[j] = marked[j]
    BY <1>3 DEF MarkDirty, Marked, With
  <2>2. \A s \in Session : WorkOf(s)' = WorkOf(s) \cup IF s = t THEN {k} ELSE {}
    BY <2>1 DEF WorkOf
  <2>3. \A s \in Session : WorkOf(s) \subseteq DOMAIN marked
    BY DEF WorkOf
  <2>4. WorkSettled
    BY <2>1, <2>2, <2>3 DEF WorkSettled
  <2>5. \A s \in Session : Receipts(s)' = Receipts(s)
    BY <1>1, <2>1 DEF Receipts
  <2>6. RowsNamed'
    <3>1. \A j \in DOMAIN outbox : SessionOfKey(j) \in Session /\ RowNamed(j)
      BY Keys DEF TypeOK, Key, NamesInv, RowsNamed
    <3>2. \A j \in DOMAIN outbox : RowNamed(j)'
      BY <2>4, <2>5, <3>1, RowStaysNamed DEF NamesInv
    <3>. QED  BY <3>2 DEF RowsNamed
  <2>7. ReceiptInv'
    BY <2>5 DEF NamesInv, ReceiptInv
  <2>8. HeldInv'
    <3>. SUFFICES ASSUME NEW s \in Session
                  PROVE  /\ Distinct(changes'[s]) /\ Len(changes'[s]) <= MaxChanges
                         /\ Names(changes'[s], Due(s, covered[s], dirty[s])')
      BY DEF HeldInv
    <3>1. PICK c, d : c = covered[s] /\ d = dirty[s]
      OBVIOUS
    <3>2. /\ Distinct(changes[s]) /\ Len(changes[s]) <= MaxChanges
          /\ Names(changes[s], Due(s, c, d))
      BY <3>1 DEF NamesInv, HeldInv
    <3>3. Due(s, c, d)' = Due(s, c, d)
      BY <1>1, <2>4, <3>1, DueSettled
    <3>4. CASE s # t
      <4>1. dirty'[s] = d /\ changes'[s] = changes[s]
        BY <1>1, <2>1, <3>1, <3>4 DEF TypeOK
      <4>. QED  BY <3>1, <3>2, <3>3, <4>1 DEF Due
    <3>5. CASE s = t
      <4>1. dirty'[s] = d + 1 /\ changes'[s] = Merge(changes[s], ChangeOf[k])
        BY <1>1, <2>1, <3>1, <3>5 DEF TypeOK
      <4>2. Due(s, c, d + 1)' = Due(s, c, d) \cup {ChangeOf[k]}
        <5>1. c \in Nat /\ d \in Nat /\ c <= d
          BY <1>1, <3>1
        <5>2. \A w \in WorkOf(s) : marked[w] \in Nat /\ marked[w] <= d /\ marked'[w] = marked[w]
          BY <1>1, <2>1, <2>3, <3>1 DEF EachGenerationIsOneEvent
        <5>3. {w \in WorkOf(s)' : c < marked'[w] /\ marked'[w] <= d + 1}
                = {w \in WorkOf(s) : c < marked[w] /\ marked[w] <= d} \cup {k}
          BY <2>1, <2>2, <3>1, <3>5, <5>1, <5>2
        <5>. QED  BY <5>3 DEF Due
      <4>3. /\ Distinct(changes'[s]) /\ Len(changes'[s]) <= MaxChanges
            /\ Names(changes'[s], Due(s, c, d) \cup {ChangeOf[k]})
        BY <1>1, <3>2, <4>1, MergeNames, DueFinite
      <4>4. Names(changes'[s], Due(s, c, d + 1)')
        BY <4>2, <4>3
      <4>. QED  BY <3>1, <4>1, <4>3, <4>4 DEF Due
    <3>. QED  BY <3>4, <3>5
  <2>. QED  BY <2>6, <2>7, <2>8 DEF NamesInv
<1>. QED  BY <1>2, <1>3

(* A receipt: the session starts anew. *)
LEMMA CoverNames ==
  ASSUME TypeOK, EachGenerationIsOneEvent, KeyInv, NamesInv, NEW t \in Session, Cover(t),
         dirty' = dirty,
         \A s \in Session : WorkOf(s)' = WorkOf(s),
         \A k \in Marking \cap DOMAIN marked : marked'[k] = marked[k],
         \A s \in Session : Receipts(s)' = Receipts(s) \cup IF s = t THEN {dirty[t]} ELSE {},
         DOMAIN outbox \subseteq DOMAIN outbox',
         \A k \in DOMAIN outbox : outbox'[k] = outbox[k],
         \A k \in DOMAIN outbox' \ DOMAIN outbox :
           /\ SessionOfKey(k) = t /\ covered[t] < dirty[t]
           /\ outbox'[k].gen = dirty[t] /\ outbox'[k].changes = changes[t]
  PROVE  NamesInv'
<1>1. /\ \A s \in Session : dirty[s] \in Nat /\ covered[s] \in Nat /\ covered[s] <= dirty[s]
      /\ \A s \in Session : covered'[s] = IF s = t THEN dirty[s] ELSE covered[s]
      /\ \A s \in Session : changes'[s] = IF s = t THEN <<>> ELSE changes[s]
  BY DEF TypeOK, KeyInv, Cover
<1>2. WorkSettled
  BY DEF WorkSettled, WorkOf
<1>3. \A s \in Session : \A from, to : Due(s, from, to)' = Due(s, from, to)
  <2>1. \A s \in Session : \A w \in WorkOf(s) : marked'[w] = marked[w]
    BY DEF WorkOf
  <2>. QED  BY <2>1 DEF Due
<1>4. ReceiptInv'
  <2>. SUFFICES ASSUME NEW s \in Session
                PROVE  covered'[s] \in Receipts(s)' /\ \A g \in Receipts(s)' : g <= covered'[s]
    BY DEF ReceiptInv
  <2>1. covered[s] \in Receipts(s) /\ \A g \in Receipts(s) : g <= covered[s] /\ g \in Nat
    BY ReceiptGenerations DEF NamesInv, ReceiptInv
  <2>2. CASE s # t
    BY <1>1, <2>1, <2>2
  <2>3. CASE s = t
    BY <1>1, <2>1, <2>3
  <2>. QED  BY <2>2, <2>3
<1>5. HeldInv'
  <2>. SUFFICES ASSUME NEW s \in Session
                PROVE  /\ Distinct(changes'[s]) /\ Len(changes'[s]) <= MaxChanges
                       /\ Names(changes'[s], Due(s, covered[s], dirty[s])')
    BY DEF HeldInv
  <2>1. PICK c, d : c = covered'[s] /\ d = dirty[s]
    OBVIOUS
  <2>2. CASE s # t
    <3>1. changes'[s] = changes[s] /\ c = covered[s]
      BY <1>1, <2>1, <2>2
    <3>2. /\ Distinct(changes[s]) /\ Len(changes[s]) <= MaxChanges
          /\ Names(changes[s], Due(s, c, d))
      BY <2>1, <3>1 DEF NamesInv, HeldInv
    <3>3. Names(changes[s], Due(s, c, d)')
      BY <1>3, <3>2
    <3>. QED  BY <2>1, <3>1, <3>2, <3>3 DEF Due
  <2>3. CASE s = t
    <3>1. changes'[s] = <<>> /\ c = d /\ d \in Nat
      BY <1>1, <2>1, <2>3
    <3>2. Due(s, c, d) = {}
      <4>1. \A w \in WorkOf(s) : marked[w] \in Nat
        BY DEF WorkOf, TypeOK
      <4>2. {w \in WorkOf(s) : c < marked[w] /\ marked[w] <= d} = {}
        BY <3>1, <4>1
      <4>. QED  BY <4>2 DEF Due
    <3>3. Due(s, c, d)' = {}
      BY <1>3, <3>2
    <3>4. Range(<<>>) = {} /\ Len(<<>>) = 0 /\ Distinct(<<>>)
      BY DEF Range, Distinct
    <3>5. MaxChanges \in Nat
      BY LoopAssumption
    <3>6. Names(<<>>, {})
      BY <3>4, <3>5, FS_EmptySet DEF Names
    <3>7. Names(changes'[s], Due(s, c, d)')
      BY <3>1, <3>3, <3>6
    <3>. QED  BY <2>1, <3>1, <3>4, <3>5, <3>7 DEF Due
  <2>. QED  BY <2>2, <2>3
<1>6. RowsNamed'
  <2>. SUFFICES ASSUME NEW k \in DOMAIN outbox' PROVE RowNamed(k)'
    BY DEF RowsNamed
  <2>1. CASE k \in DOMAIN outbox
    <3>1. RowNamed(k) /\ SessionOfKey(k) \in Session
      BY <2>1, Keys DEF NamesInv, RowsNamed, TypeOK, Key
    <3>2. \/ Receipts(SessionOfKey(k))' = Receipts(SessionOfKey(k))
          \/ Receipts(SessionOfKey(k))' = Receipts(SessionOfKey(k)) \cup {dirty[SessionOfKey(k)]}
      BY <3>1
    <3>. QED  BY <1>2, <2>1, <3>1, <3>2, RowStaysNamed DEF NamesInv
  <2>2. CASE k \notin DOMAIN outbox
    <3>1. PICK c, d : c = covered[t] /\ d = dirty[t]
      OBVIOUS
    <3>2. /\ SessionOfKey(k) = t /\ c < d /\ c \in Nat /\ d \in Nat
          /\ outbox'[k].gen = d /\ outbox'[k].changes = changes[t]
      BY <1>1, <2>2, <3>1
    <3>3. c \in Receipts(t) /\ \A g \in Receipts(t) : g <= c /\ g \in Nat
      BY <3>1, ReceiptGenerations DEF NamesInv, ReceiptInv
    <3>4. PICK before : before = {g \in Receipts(t)' : g < d}
      OBVIOUS
    <3>5. before = Receipts(t)
      <4>1. Receipts(t)' = Receipts(t) \cup {d}
        BY <3>1
      <4>2. \A g \in Receipts(t) : g < d
        BY <3>2, <3>3
      <4>3. ~ d < d
        BY <3>2
      <4>. QED  BY <3>4, <4>1, <4>2, <4>3
    <3>6. Latest(before) = c
      <4>1. c \in before /\ \A h \in before : h <= c /\ h \in Nat
        BY <3>3, <3>5
      <4>2. \A g \in before : (\A h \in before : h <= g) => g = c
        BY <3>2, <4>1
      <4>3. \E g \in before : \A h \in before : h <= g
        BY <4>1
      <4>4. Latest(before) \in before /\ \A h \in before : h <= Latest(before)
        BY <4>3, Zenon DEF Latest
      <4>. QED  BY <4>2, <4>4
    <3>7. Names(changes[t], Due(t, c, d))
      BY <3>1 DEF NamesInv, HeldInv
    <3>8. Names(outbox'[k].changes, Due(t, Latest(before), d)')
      BY <1>3, <3>2, <3>6, <3>7
    <3>. QED  BY <3>2, <3>4, <3>8 DEF RowNamed, Due
  <2>. QED  BY <2>1, <2>2
<1>. QED  BY <1>4, <1>5, <1>6 DEF NamesInv

LEMMA NamesInit == Init => NamesInv
<1>. SUFFICES ASSUME Init PROVE NamesInv
  OBVIOUS
<1>1. \A s \in Session : changes[s] = <<>> /\ covered[s] = 0 /\ dirty[s] = 0
  BY DEF Init
<1>2. DOMAIN marked = {} /\ DOMAIN outbox = {}
  BY DEF Init, NoRows
<1>3. \A s \in Session : Due(s, covered[s], dirty[s]) = {} /\ Receipts(s) = {0}
  BY <1>2 DEF Due, WorkOf, Receipts
<1>4. Range(<<>>) = {} /\ Len(<<>>) = 0 /\ Distinct(<<>>)
  BY DEF Range, Distinct
<1>5. MaxChanges \in Nat
  BY LoopAssumption
<1>6. Names(<<>>, {})
  BY <1>4, <1>5, FS_EmptySet DEF Names
<1>7. HeldInv
  <2>. SUFFICES ASSUME NEW s \in Session
                PROVE  /\ Distinct(changes[s]) /\ Len(changes[s]) <= MaxChanges
                       /\ Names(changes[s], Due(s, covered[s], dirty[s]))
    BY DEF HeldInv
  <2>1. changes[s] = <<>> /\ Due(s, covered[s], dirty[s]) = {} /\ Len(<<>>) <= MaxChanges
    BY <1>1, <1>3, <1>4, <1>5
  <2>. QED  BY <1>4, <1>6, <2>1
<1>8. ReceiptInv
  BY <1>1, <1>3 DEF ReceiptInv
<1>. QED  BY <1>2, <1>7, <1>8 DEF NamesInv, RowsNamed

LEMMA NamesStep ==
  ASSUME LoopInv, NamesInv, NEW p \in Proc, HookStep(p) \/ Fail(p) \/ Crash(p)
  PROVE  NamesInv'
<1>. USE DEF LoopInv
<1>1. CASE RecordCandidate(p) \/ MarkNote(p)
  <2>1. item[p] \in Marking /\ MarkDirty(item[p]) /\ UNCHANGED <<covered, outbox>>
    BY <1>1 DEF RecordCandidate, MarkNote, Marking
  <2>. QED  BY <2>1, MarkDirtyNames
<1>2. CASE Acknowledge(p)
  <2>0. PICK k : k = item[p]
    OBVIOUS
  <2>. DEFINE t == SessionOf[k]
  <2>1. k \in Explicit /\ outbox' = outbox /\ t \in Session /\ k \notin Marking
    BY <1>2, <2>0, Keys, LoopAssumption DEF Acknowledge
  <2>2. CASE Marked(k)
    <3>1. UNCHANGED <<dirty, covered, changes, marked>>
      BY <1>2, <2>0, <2>2 DEF Acknowledge, sessions, events
    <3>. QED  BY <2>1, <3>1, NamesFrame
  <2>3. CASE ~ Marked(k)
    <3>1. /\ Cover(t) /\ dirty' = dirty
          /\ marked' = With(marked, k, dirty[t]) /\ k \notin DOMAIN marked
      BY <1>2, <2>0, <2>3 DEF Acknowledge, Marked
    <3>2. /\ DOMAIN marked' = DOMAIN marked \cup {k} /\ marked'[k] = dirty[t]
          /\ \A j \in DOMAIN marked : marked'[j] = marked[j]
      BY <3>1 DEF With
    <3>3. \A s \in Session : WorkOf(s)' = WorkOf(s)
      BY <2>1, <3>2 DEF WorkOf
    <3>4. \A s \in Session : Receipts(s)' = Receipts(s) \cup IF s = t THEN {dirty[t]} ELSE {}
      BY <2>1, <3>1, <3>2 DEF Receipts
    <3>. QED  BY <2>1, <3>1, <3>2, <3>3, <3>4, CoverNames
  <2>. QED  BY <2>2, <2>3
<1>3. CASE Reserve(p)
  <2>0. PICK k : k = item[p]
    OBVIOUS
  <2>. DEFINE t == SessionOfKey(k)
  <2>1. k \in StopKey
    BY <1>3, <2>0 DEF Reserve, At, PlaceInv, ItemInv
  <2>2. t \in Session
    BY <2>1, Keys DEF Key
  <2>3. /\ k \notin DOMAIN outbox /\ Cover(t) /\ UNCHANGED <<dirty, marked>>
        /\ dirty[t] > covered[t]
    BY <1>3, <2>0 DEF Reserve, events
  <2>4. /\ DOMAIN outbox' = DOMAIN outbox \cup {k}
        /\ outbox'[k].gen = dirty[t] /\ outbox'[k].changes = changes[t]
        /\ \A j \in DOMAIN outbox : outbox'[j] = outbox[j]
    BY <1>3, <2>0, <2>1, ReserveRow
  <2>5. \A s \in Session : WorkOf(s)' = WorkOf(s)
    BY <2>3 DEF WorkOf
  <2>6. \A s \in Session : Receipts(s)' = Receipts(s) \cup IF s = t THEN {dirty[t]} ELSE {}
    BY <2>3, <2>4 DEF Receipts
  <2>7. covered[t] < dirty[t]
    BY <2>2, <2>3 DEF TypeOK
  <2>. QED  BY <2>2, <2>3, <2>4, <2>5, <2>6, <2>7, CoverNames
<1>4. CASE SaveRecord(p) \/ MarkWritten(p)
  <2>1. /\ item[p] \in DOMAIN outbox /\ UNCHANGED <<dirty, covered, changes, marked>>
        /\ \/ outbox' = [outbox EXCEPT ![item[p]].record = "saved"]
           \/ outbox' = [outbox EXCEPT ![item[p]].status = "written"]
    BY <1>4 DEF SaveRecord, MarkWritten, At, PlaceInv, ItemInv, sessions, events
  <2>. QED  BY <2>1, SaveRow, WriteRow, NamesFrame
<1>5. CASE UNCHANGED <<dirty, covered, changes, marked, outbox>>
  BY <1>5, NamesFrame
<1>6. CASE \/ Recovery(p) \/ \E d \in Payload : Deliver(p, d)
           \/ ReserveExisting(p) \/ NothingToReserve(p) \/ Fail(p) \/ Crash(p)
  BY <1>5, <1>6, QuietSteps DEF ledger, sessions, events
<1>7. CASE \/ Claim(p) \/ Finish(p) \/ FinishError(p) \/ AppendEpisode(p)
           \/ MarkMirrored(p) \/ AppendCheckpoint(p) \/ AppendAudit(p)
  BY <1>5, <1>7 DEF Claim, Finish, FinishError, AppendEpisode, MarkMirrored, AppendCheckpoint,
                    AppendAudit, ledger, sessions, events
<1>. QED  BY <1>1, <1>2, <1>3, <1>4, <1>6, <1>7 DEF HookStep, Own, PostTool, Terminal

(* A checkpoint row names the changes since the receipt before it, up to    *)
(* the cap, and the session still holds the rest: what _mark_dirty merges   *)
(* and reserve_checkpoint and acknowledge_explicit_checkpoint take is       *)
(* neither lost nor reported twice.                                         *)
THEOREM CheckpointNamesItsWorkHolds == Spec => []CheckpointNamesItsWork
<1>1. LoopInv /\ NamesInv /\ [Next]_vars => NamesInv'
  <2>. SUFFICES ASSUME LoopInv, NamesInv, [Next]_vars PROVE NamesInv'
    OBVIOUS
  <2>1. CASE UNCHANGED vars
    <3>1. UNCHANGED <<dirty, covered, changes, marked, outbox>>
      BY <2>1 DEF vars, ledger, sessions, events
    <3>. QED  BY <3>1, NamesFrame DEF LoopInv
  <2>. QED  BY <2>1, NamesStep DEF Next
<1>2. NamesInv => CheckpointNamesItsWork
  BY DEF NamesInv, HeldInv, RowsNamed, RowNamed, Latest, CheckpointNamesItsWork
<1>. QED  BY <1>1, <1>2, NamesInit, LoopInvariant, PTL DEF Spec
=============================================================================
