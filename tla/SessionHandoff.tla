--------------------------- MODULE SessionHandoff ---------------------------
(* How the work of one session reaches the next: loop.py hooks, the         *)
(* checkpoint stream and its reader (runtime.py handoff, resume), the       *)
(* context a session starts with (context.py) and the delivery record.      *)
(*                                                                          *)
(* A terminal hook stamps a handoff, makes it durable as a row of the       *)
(* ledger, and then appends it to the checkpoint stream; an agent's own     *)
(* handoff has no row.  Every hook first appends the rows of its entity     *)
(* that are not in the stream.  A session start then takes the handoff with *)
(* the latest stamp, records the delivery, and puts it into a context of    *)
(* bounded size; the next prompt acknowledges the delivery.  LoopLedger has *)
(* the ledger in detail: here a hook that finds something to cover reserves *)
(* a row, and an append happens at once or not at all.                      *)
EXTENDS Naturals, Sequences, SequencesExt

CONSTANTS
  Proc, Session, Entity, NoSession,
  MaxHandoffs, MaxTime, MaxFaults,  \* bounds: handoffs, clock, deaths and failed appends
  Budget,      \* max_bytes of a context
  Envelope,    \* possible lengths of header and footer, which name the project
  MaxRecord    \* max_record_bytes, with the newline

NoEntity == "none"

ASSUME HandoffAssumption ==
  /\ NoSession \notin Session /\ NoEntity \notin Entity
  /\ MaxHandoffs \in Nat /\ MaxTime \in Nat \ {0} /\ MaxFaults \in Nat
  /\ Envelope \subseteq Nat
  /\ Budget \in Nat /\ MaxRecord \in Nat \ {0}

VARIABLES
  home,      \* home[s]: the entity of session s
  envelope,  \* the length of header and footer
  clock,
  at, of,    \* at[h], of[h]: stamp and entity of handoff h
  rows,      \* loop_checkpoints
  written,   \* rows with mirror_status 'written'
  stream,    \* checkpoints.jsonl
  delivery,  \* delivery[s][h]: handoff_deliveries
  hook,      \* hook[p]: the event p handles; floor and failed are history
  faults,
  shown, lost \* history: the handoffs in the contexts a session got, and
              \* those its hook died with before it had one

checkpoints == <<at, of, rows, written, stream>>
vars == <<home, envelope, clock, checkpoints, delivery, hook, faults, shown, lost>>
history == <<shown, lost>>
-----------------------------------------------------------------------------
Handoff == 1 .. MaxHandoffs
None == 0
Kind == {"start", "prompt", "stop", "handoff"}
PC == {"idle", "load", "mirror", "mark", "resume", "deliver", "assemble",
       "acknowledge", "stamp", "reserve", "append"}

(* due: the handoffs of its entity that were durable when a session start   *)
(* began; failed: its recovery was cut short.                               *)
Hook == [pc : PC, kind : Kind, session : Session \cup {NoSession},
         stamp : 0 .. MaxTime, todo : SUBSET Handoff, row : Handoff \cup {None},
         found : Handoff \cup {None}, due : SUBSET Handoff, failed : BOOLEAN]

Event(l, k, s, due) == [pc |-> l, kind |-> k, session |-> s, stamp |-> None, todo |-> {},
                        row |-> None, found |-> None, due |-> due, failed |-> FALSE]
NoEvent == Event("idle", "start", NoSession, {})

At(p, l) == hook[p].pc = l
Goto(p, l) == hook' = [hook EXCEPT ![p].pc = l]
Done(p) == hook' = [hook EXCEPT ![p] = NoEvent]

EntityOf(p) == home[hook[p].session]

Durable(e) == {h \in rows \cup Range(stream) : of[h] = e}

(* The work of an event proper, after the recovery. *)
Own(k) == CASE k = "start" -> "resume" [] k = "prompt" -> "acknowledge"
            [] k = "stop" -> "stamp"

AppendOnce(h) == stream' = IF h \in Range(stream) THEN stream ELSE Append(stream, h)
-----------------------------------------------------------------------------
(* Events *)

Begin(p, s, k) ==
  /\ At(p, "idle")
  /\ hook' = [hook EXCEPT ![p] =
               Event(IF k = "handoff" THEN "stamp" ELSE "load", k, s,
                     IF k = "start" THEN Durable(home[s]) ELSE {})]
  /\ UNCHANGED <<home, envelope, clock, checkpoints, delivery, faults, history>>

Pending(p) == {h \in rows \ written : of[h] = EntityOf(p)}

(* recover_pending_checkpoints: the rows that are not in the stream.        *)
Load(p) ==
  /\ At(p, "load")
  /\ hook' = [hook EXCEPT ![p].todo = Pending(p),
                          ![p].pc = IF Pending(p) = {} THEN Own(hook[p].kind) ELSE "mirror"]
  /\ UNCHANGED <<home, envelope, clock, checkpoints, delivery, faults, history>>

Oldest(todo) == {h \in todo : \A g \in todo : at[h] <= at[g]}

(* The row is found in the stream, or appended to it; oldest first.         *)
Mirror(p, h) ==
  /\ At(p, "mirror") /\ h \in Oldest(hook[p].todo)
  /\ AppendOnce(h)
  /\ hook' = [hook EXCEPT ![p].row = h, ![p].pc = "mark"]
  /\ UNCHANGED <<home, envelope, clock, at, of, rows, written, delivery, faults, history>>

(* A hook that has stamped a handoff of its own is past its recovery. *)
Recovering(p) == hook[p].stamp = None

Mark(p) ==
  /\ At(p, "mark")
  /\ written' = written \cup {hook[p].row}
  /\ IF Recovering(p)
     THEN LET rest == hook[p].todo \ {hook[p].row}
          IN  hook' = [hook EXCEPT ![p].todo = rest, ![p].row = None,
                                   ![p].pc = IF rest = {} THEN Own(hook[p].kind) ELSE "mirror"]
     ELSE Done(p)
  /\ UNCHANGED <<home, envelope, clock, at, of, rows, stream, delivery, faults, history>>

(* The append fails: a recovery is given up, and the event goes on; an      *)
(* event that fails itself is over.                                         *)
MirrorFails(p) ==
  /\ At(p, "mirror") /\ faults < MaxFaults
  /\ faults' = faults + 1
  /\ IF Recovering(p)
     THEN hook' = [hook EXCEPT ![p].todo = {}, ![p].failed = TRUE,
                               ![p].pc = Own(hook[p].kind)]
     ELSE Done(p)
  /\ UNCHANGED <<home, envelope, clock, checkpoints, delivery, history>>
-----------------------------------------------------------------------------
(* Writing a handoff *)

(* The time is read before the transaction, or the append. *)
Stamp(p) ==
  /\ At(p, "stamp")
  /\ hook' = [hook EXCEPT ![p].stamp = clock,
                          ![p].pc = IF hook[p].kind = "stop" THEN "reserve" ELSE "append"]
  /\ UNCHANGED <<home, envelope, clock, checkpoints, delivery, faults, history>>

(* h is the next handoff. *)
Make(p, h) == /\ of[h] = NoEntity /\ \A g \in Handoff : g < h => of[g] # NoEntity
              /\ at' = [at EXCEPT ![h] = hook[p].stamp]
              /\ of' = [of EXCEPT ![h] = EntityOf(p)]

Reserve(p, h) ==
  /\ At(p, "reserve") /\ Make(p, h)
  /\ rows' = rows \cup {h}
  /\ hook' = [hook EXCEPT ![p].todo = {h}, ![p].pc = "mirror"]
  /\ UNCHANGED <<home, envelope, clock, written, stream, delivery, faults, history>>

NothingToReserve(p) ==
  /\ At(p, "reserve")
  /\ Done(p)
  /\ UNCHANGED <<home, envelope, clock, checkpoints, delivery, faults, history>>

(* handoff: an agent's own. *)
AppendHandoff(p, h) ==
  /\ At(p, "append") /\ Make(p, h)
  /\ AppendOnce(h)
  /\ Done(p)
  /\ UNCHANGED <<home, envelope, clock, rows, written, delivery, faults, history>>
-----------------------------------------------------------------------------
(* Starting a session *)

BugBefore(i, j) == i <= j  \* the order of the stream

(* Event time decides, and for handoffs of the same time the position. *)
Before(i, j) == \/ at[stream[i]] < at[stream[j]]
                \/ at[stream[i]] = at[stream[j]] /\ i <= j

Matches(e) == {i \in DOMAIN stream : of[stream[i]] = e}

Resume(p) ==
  /\ At(p, "resume")
  /\ \/ /\ Matches(EntityOf(p)) = {}
        /\ Goto(p, "assemble")
     \/ \E last \in Matches(EntityOf(p)) :
          /\ \A i \in Matches(EntityOf(p)) : Before(i, last)
          /\ hook' = [hook EXCEPT ![p].found = stream[last], ![p].pc = "deliver"]
  /\ UNCHANGED <<home, envelope, clock, checkpoints, delivery, faults, history>>

(* INSERT OR IGNORE: what the session has had already stays as it is. *)
Delivered(status) == IF status = "none" THEN "delivered" ELSE status

Deliver(p) ==
  /\ At(p, "deliver")
  /\ delivery' = [delivery EXCEPT ![hook[p].session][hook[p].found] = Delivered(@)]
  /\ Goto(p, "assemble")
  /\ UNCHANGED <<home, envelope, clock, checkpoints, faults, history>>

BugRendered(n) == n
Rendered(n) == IF n <= MaxRecord THEN n ELSE MaxRecord  \* a preview of a longer record

(* used[i]: the bytes used after the first i records; one that does not fit *)
(* is left out, and the next one tried.                                     *)
Fills(used, records) ==
  /\ used[0] = envelope
  /\ \A i \in DOMAIN records :
       LET size == Rendered(records[i])
       IN  used[i] = IF used[i - 1] + size <= Budget THEN used[i - 1] + size ELSE used[i - 1]

Size == {1, MaxRecord + 1}  \* a short record and one that is too long

(* The handoff comes first, then whatever else there is to say.             *)
Assemble(p) ==
  /\ At(p, "assemble") /\ envelope <= Budget
  /\ \E mine \in Size, others \in SeqOf(Size, 1) :
       LET records == (IF hook[p].found = None THEN <<>> ELSE <<mine>>) \o others
       IN  \E used \in [0 .. Len(records) -> 0 .. Budget] :
             /\ Fills(used, records)
             /\ shown' = IF hook[p].found # None /\ used[1] # used[0]
                         THEN [shown EXCEPT ![hook[p].session] = @ \cup {hook[p].found}]
                         ELSE shown
  /\ Done(p)
  /\ UNCHANGED <<home, envelope, clock, checkpoints, delivery, faults, lost>>

(* "context budget is too small for the safety envelope": no context, and   *)
(* an empty one when there is nothing to say.                               *)
AssembleFails(p) ==
  /\ At(p, "assemble") /\ envelope > Budget
  /\ Done(p)
  /\ UNCHANGED <<home, envelope, clock, checkpoints, delivery, faults, history>>

Acknowledged(status) == IF status = "delivered" THEN "acknowledged" ELSE status

Acknowledge(p) ==
  /\ At(p, "acknowledge")
  /\ delivery' = [delivery EXCEPT ![hook[p].session] =
                    [h \in Handoff |-> Acknowledged(@[h])]]
  /\ Done(p)
  /\ UNCHANGED <<home, envelope, clock, checkpoints, faults, history>>

HookStep(p) ==
  \/ \E s \in Session, k \in Kind : Begin(p, s, k)
  \/ Load(p) \/ (\E h \in Handoff : Mirror(p, h)) \/ Mark(p) \/ MirrorFails(p)
  \/ Stamp(p) \/ NothingToReserve(p)
  \/ \E h \in Handoff : Reserve(p, h) \/ AppendHandoff(p, h)
  \/ Resume(p) \/ Deliver(p) \/ Assemble(p) \/ AssembleFails(p) \/ Acknowledge(p)
-----------------------------------------------------------------------------
Die(p) ==
  /\ ~ At(p, "idle") /\ faults < MaxFaults
  /\ faults' = faults + 1
  /\ Done(p)
  /\ lost' = IF At(p, "assemble") /\ hook[p].found # None
             THEN [lost EXCEPT ![hook[p].session] = @ \cup {hook[p].found}] ELSE lost
  /\ UNCHANGED <<home, envelope, clock, checkpoints, delivery, shown>>

Tick ==
  /\ clock < MaxTime
  /\ clock' = clock + 1
  /\ UNCHANGED <<home, envelope, checkpoints, delivery, hook, faults, history>>

Init ==
  /\ home \in [Session -> Entity]
  /\ envelope \in Envelope
  /\ clock = 1
  /\ at = [h \in Handoff |-> None]
  /\ of = [h \in Handoff |-> NoEntity]
  /\ rows = {} /\ written = {} /\ stream = <<>>
  /\ delivery = [s \in Session |-> [h \in Handoff |-> "none"]]
  /\ hook = [p \in Proc |-> NoEvent]
  /\ faults = 0
  /\ shown = [s \in Session |-> {}] /\ lost = [s \in Session |-> {}]

Next == Tick \/ \E p \in Proc : HookStep(p) \/ Die(p)

Spec == Init /\ [][Next]_vars
-----------------------------------------------------------------------------
(* Properties *)

TypeOK ==
  /\ home \in [Session -> Entity]
  /\ envelope \in Envelope /\ clock \in 1 .. MaxTime /\ faults \in 0 .. MaxFaults
  /\ at \in [Handoff -> 0 .. MaxTime]
  /\ of \in [Handoff -> Entity \cup {NoEntity}]
  /\ written \subseteq rows /\ rows \subseteq Handoff
  /\ stream \in Seq(Handoff) /\ IsInjective(stream)
  /\ delivery \in [Session -> [Handoff -> {"none", "delivered", "acknowledged"}]]
  /\ hook \in [Proc -> Hook]
  /\ shown \in [Session -> SUBSET Handoff] /\ lost \in [Session -> SUBSET Handoff]

(* "Event time, not JSONL append order, defines which handoff is current"   *)
(* (runtime.py): a session start gets a handoff of its own entity that is   *)
(* not older than any that was durable when it began, a row whose process   *)
(* died before appending it included, unless appending it failed.           *)
ResumesTheLatest ==
  \A p \in Proc :
    hook[p].kind = "start" /\ hook[p].pc \in {"deliver", "assemble"} /\ ~ hook[p].failed =>
      IF hook[p].found = None THEN hook[p].due = {}
      ELSE /\ of[hook[p].found] = EntityOf(p)
           /\ \A h \in hook[p].due : at[h] <= at[hook[p].found]

(* A handoff that is marked delivered to a session, or acknowledged by it,  *)
(* is in a context the session got, whatever else there was to say and      *)
(* however long it is: unless the start that took it still assembles or     *)
(* died, or the project's name leaves no room for a record.  And no session *)
(* gets a handoff that is not marked.                                       *)
HandoffIsShown ==
  \A s \in Session, h \in Handoff :
    /\ h \in shown[s] => delivery[s][h] # "none"
    /\ delivery[s][h] # "none" /\ envelope + MaxRecord <= Budget =>
         \/ h \in shown[s] \cup lost[s]
         \/ \E p \in Proc : /\ At(p, "assemble")
                            /\ hook[p].session = s /\ hook[p].found = h
=============================================================================
