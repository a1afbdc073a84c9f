------------------------ MODULE SessionHandoff_proofs ------------------------
(* Theorems about SessionHandoff, for any processes, sessions and entities  *)
(* and any bounds.  A session start reads the rows, the stream and the      *)
(* delivery at different moments and without a lock; what it learned holds  *)
(* later because none of them ever loses anything (Grows).                  *)
EXTENDS SessionHandoff, TLAPS

(* What is durable has an entity, and what is marked written is mirrored.   *)
TableInv ==
  /\ \A h \in rows \cup Range(stream) : of[h] \in Entity
  /\ written \subseteq Range(stream)

(* What each place of a hook has behind it. *)
HookInv(p) ==
  /\ hook[p].pc # "idle" => hook[p].session \in Session
  /\ hook[p].kind = "handoff" => hook[p].pc \in {"stamp", "append"}
  /\ hook[p].kind = "start" => hook[p].pc \notin {"stamp", "reserve", "append"}
  /\ hook[p].pc \in {"mirror", "mark"} => hook[p].todo \subseteq rows
  /\ hook[p].pc = "mark" => hook[p].row \in rows \cap Range(stream)
  /\ hook[p].found # None => /\ hook[p].pc \in {"deliver", "assemble"}
                             /\ hook[p].found \in Range(stream)
  /\ hook[p].pc = "deliver" => hook[p].found # None
  /\ hook[p].pc = "assemble" /\ hook[p].found # None =>
       delivery[hook[p].session][hook[p].found] # "none"

(* Where the handoffs are that were durable when a start began. *)
DueInv(p) ==
  /\ hook[p].kind # "start" \/ hook[p].pc = "idle" => hook[p].due = {}
  /\ \A h \in hook[p].due : h \in rows \cup Range(stream) /\ of[h] = EntityOf(p)
  /\ ~ hook[p].failed =>
       /\ hook[p].pc \in {"mirror", "mark"} =>
            hook[p].due \subseteq Range(stream) \cup hook[p].todo
       /\ hook[p].pc = "resume" => hook[p].due \subseteq Range(stream)
  /\ hook[p].kind = "start" /\ hook[p].pc \in {"deliver", "assemble"} /\ ~ hook[p].failed =>
       IF hook[p].found = None THEN hook[p].due = {}
       ELSE /\ of[hook[p].found] = EntityOf(p)
            /\ \A h \in hook[p].due : at[h] <= at[hook[p].found]

Inv == /\ TypeOK /\ TableInv
       /\ \A p \in Proc : HookInv(p) /\ DueInv(p)
       /\ HandoffIsShown

(* No step takes back a row, a line of the stream or a delivery, or changes *)
(* a handoff that is durable.                                               *)
Grows ==
  /\ home' = home
  /\ rows \subseteq rows' /\ Range(stream) \subseteq Range(stream')
  /\ \A h \in rows \cup Range(stream) : of'[h] = of[h] /\ at'[h] = at[h]
  /\ \A s \in Session, h \in Handoff : delivery[s][h] # "none" => delivery'[s][h] # "none"

(* A step of p leaves the other hooks alone. *)
Local(p) == /\ hook' \in [Proc -> Hook]
            /\ \A q \in Proc \ {p} : hook'[q] = hook[q]

LEMMA NoEventIsHook == NoEvent \in Hook
BY HandoffAssumption DEF NoEvent, Event, Hook, PC, Kind, None

LEMMA InitInv == Init => Inv
<1> SUFFICES ASSUME Init PROVE Inv
  OBVIOUS
<1>1. Range(stream) = {} /\ stream \in Seq(Handoff) /\ IsInjective(stream)
  BY DEF Init, Range, IsInjective
<1>2. TypeOK
  BY <1>1, NoEventIsHook, HandoffAssumption DEF Init, TypeOK, None
<1>3. TableInv
  BY <1>1 DEF Init, TableInv
<1>4. \A p \in Proc : HookInv(p) /\ DueInv(p)
  BY DEF Init, HookInv, DueInv, NoEvent, Event, None
<1>5. HandoffIsShown
  BY DEF Init, HandoffIsShown
<1> QED
  BY <1>2, <1>3, <1>4, <1>5 DEF Inv
-----------------------------------------------------------------------------
(* Frames *)

LEMMA OthersInv ==
  ASSUME Inv, Grows, NEW q \in Proc, hook'[q] = hook[q]
  PROVE  HookInv(q)' /\ DueInv(q)'
<1>1. HookInv(q) /\ DueInv(q) /\ hook[q] \in Hook
  BY DEF Inv, TypeOK
<1>2. HookInv(q)'
  <2>1. hook[q].pc = "assemble" /\ hook[q].found # None =>
          delivery'[hook[q].session][hook[q].found] # "none"
    BY <1>1 DEF HookInv, Grows, Hook, None
  <2> QED
    BY <1>1, <2>1 DEF HookInv, Grows
<1>3. DueInv(q)'
  <2>1. \A h \in hook[q].due : h \in rows' \cup Range(stream') /\ of'[h] = home'[hook[q].session]
    BY <1>1 DEF DueInv, Grows, EntityOf
  <2>2. hook[q].found # None => /\ of'[hook[q].found] = of[hook[q].found]
                                /\ at'[hook[q].found] = at[hook[q].found]
    BY <1>1 DEF HookInv, Grows
  <2>3. \A h \in hook[q].due : at'[h] = at[h]
    BY <1>1 DEF DueInv, Grows
  <2>4. home'[hook[q].session] = home[hook[q].session]
    BY DEF Grows
  <2> QED
    BY <1>1, <2>1, <2>2, <2>3, <2>4 DEF DueInv, Grows, EntityOf
<1> QED
  BY <1>2, <1>3

LEMMA StepInv ==
  ASSUME Inv, NEW p \in Proc, TypeOK', TableInv', Grows, Local(p),
         HookInv(p)', DueInv(p)', HandoffIsShown'
  PROVE  Inv'
<1>1. ASSUME NEW q \in Proc PROVE HookInv(q)' /\ DueInv(q)'
  BY OthersInv DEF Local
<1> QED
  BY <1>1 DEF Inv

(* A step that touches no table and no history. *)
LEMMA CalmInv ==
  ASSUME Inv, NEW p \in Proc, Local(p), HookInv(p)', DueInv(p)',
         UNCHANGED <<home, envelope, checkpoints, delivery, history>>,
         clock' \in 1 .. MaxTime, faults' \in 0 .. MaxFaults,
         At(p, "assemble") => envelope > Budget
  PROVE  Inv'
<1> USE DEF checkpoints, history
<1>1. TypeOK'
  BY DEF Inv, TypeOK, Local
<1>2. TableInv' /\ Grows
  BY DEF Inv, TableInv, Grows
<1>3. HandoffIsShown'
  <2> SUFFICES ASSUME NEW s \in Session, NEW h \in Handoff,
                      delivery[s][h] # "none", envelope + MaxRecord <= Budget,
                      h \notin shown[s] \cup lost[s]
               PROVE  \E q \in Proc : /\ At(q, "assemble")' /\ hook'[q].session = s
                                      /\ hook'[q].found = h
    BY DEF Inv, HandoffIsShown
  <2>1. PICK q \in Proc : At(q, "assemble") /\ hook[q].session = s /\ hook[q].found = h
    BY DEF Inv, HandoffIsShown
  <2>2. envelope \in Nat
    BY HandoffAssumption DEF Inv, TypeOK
  <2>3. q # p
    BY <2>1, <2>2, HandoffAssumption
  <2> QED
    BY <2>1, <2>3 DEF Local, At
<1> QED
  BY <1>1, <1>2, <1>3, StepInv

(* The end of an event. *)
LEMMA DoneInv ==
  ASSUME Inv, NEW p \in Proc, Done(p)
  PROVE  Local(p) /\ HookInv(p)' /\ DueInv(p)'
<1>1. hook \in [Proc -> Hook]
  BY DEF Inv, TypeOK
<1>2. hook' = [hook EXCEPT ![p] = NoEvent]
  BY DEF Done
<1>3. Local(p) /\ hook'[p] = NoEvent
  BY <1>1, <1>2, NoEventIsHook DEF Local
<1>4. /\ NoEvent.pc = "idle" /\ NoEvent.kind = "start" /\ NoEvent.found = None
      /\ NoEvent.due = {}
  BY DEF NoEvent, Event
<1>5. HookInv(p)' /\ DueInv(p)'
  BY <1>3, <1>4 DEF HookInv, DueInv, None
<1> QED
  BY <1>3, <1>5

(* A hook goes on to l, with todo, row, stamp and failed as given. *)
LEMMA GotoIs ==
  ASSUME Inv, NEW p \in Proc, NEW l \in PC, Goto(p, l)
  PROVE  /\ Local(p) /\ hook'[p] \in Hook /\ hook'[p].pc = l
         /\ hook'[p].kind = hook[p].kind /\ hook'[p].session = hook[p].session
         /\ hook'[p].todo = hook[p].todo /\ hook'[p].row = hook[p].row
         /\ hook'[p].found = hook[p].found /\ hook'[p].due = hook[p].due
         /\ hook'[p].failed = hook[p].failed
<1>1. hook \in [Proc -> Hook] /\ hook[p] \in Hook
  BY DEF Inv, TypeOK
<1>2. hook' = [hook EXCEPT ![p].pc = l]
  BY DEF Goto
<1>3. hook'[p].pc = l /\ hook'[p].kind = hook[p].kind /\ hook'[p].session = hook[p].session
  BY <1>1, <1>2, Zenon DEF Hook
<1>4. hook'[p].todo = hook[p].todo /\ hook'[p].row = hook[p].row
  BY <1>1, <1>2, Zenon DEF Hook
<1>5. /\ hook'[p].found = hook[p].found /\ hook'[p].due = hook[p].due
      /\ hook'[p].failed = hook[p].failed
  BY <1>1, <1>2, Zenon DEF Hook
<1>6. hook' \in [Proc -> Hook]
  BY <1>1, <1>2, Zenon DEF Hook
<1>7. Local(p)
  BY <1>1, <1>2, <1>6, Zenon DEF Local
<1> QED
  BY <1>3, <1>4, <1>5, <1>6, <1>7
-----------------------------------------------------------------------------
(* The steps that touch no table *)

LEMMA BeginInv ==
  ASSUME Inv, NEW p \in Proc, NEW s \in Session, NEW k \in Kind, Begin(p, s, k)
  PROVE  Inv'
<1> DEFINE l == IF k = "handoff" THEN "stamp" ELSE "load"
           d == IF k = "start" THEN Durable(home[s]) ELSE {}
           e == Event(l, k, s, d)
<1>1. hook \in [Proc -> Hook] /\ rows \subseteq Handoff /\ Range(stream) \subseteq Handoff
  BY DEF Inv, TypeOK, Range
<1>2. hook' = [hook EXCEPT ![p] = e]
  BY Zenon DEF Begin
<1>3. d \in SUBSET Handoff /\ l \in PC
  BY <1>1 DEF Durable, PC
<1>4. \A h \in d : h \in rows \cup Range(stream) /\ of[h] = home[s]
  BY DEF Durable
<1>5. l \notin {"idle", "mirror", "mark", "resume", "deliver", "assemble"} /\ (k = "handoff" => l = "stamp")
  OBVIOUS
<1>a. (k = "start" => l = "load") /\ (k # "start" => d = {})
  OBVIOUS
<1> HIDE DEF d, l
<1>6. e = [pc |-> l, kind |-> k, session |-> s, stamp |-> None, todo |-> {},
           row |-> None, found |-> None, due |-> d, failed |-> FALSE]
  BY DEF Event
<1> HIDE DEF e
<1>7. e \in Hook
  <2>1. None \in 0 .. MaxTime /\ {} \in SUBSET Handoff /\ None \in Handoff \cup {None}
    BY HandoffAssumption DEF None
  <2> QED
    BY <1>3, <1>6, <2>1, Zenon DEF Hook
<1>8. Local(p) /\ hook'[p] = e
  BY <1>1, <1>2, <1>7 DEF Local
<1>9. UNCHANGED <<rows, stream, of, home>>
  BY DEF Begin, checkpoints
<1>10. HookInv(p)'
  BY <1>5, <1>a, <1>6, <1>8 DEF HookInv
<1>11. DueInv(p)'
  BY <1>4, <1>5, <1>a, <1>6, <1>8, <1>9 DEF DueInv, EntityOf
<1> QED
  BY <1>8, <1>10, <1>11, CalmInv DEF Begin, At, Inv, TypeOK

(* Where an event goes after the recovery. *)
LEMMA OwnIs ==
  ASSUME NEW k \in Kind, k # "handoff"
  PROVE  Own(k) \in {"resume", "acknowledge", "stamp"} /\ (k = "start" <=> Own(k) = "resume")
BY Zenon DEF Own, Kind

LEMMA LoadInv ==
  ASSUME Inv, NEW p \in Proc, Load(p)
  PROVE  Inv'
<1> DEFINE l == IF Pending(p) = {} THEN Own(hook[p].kind) ELSE "mirror"
<1>1. /\ hook \in [Proc -> Hook] /\ hook[p] \in Hook /\ hook[p].pc = "load"
      /\ rows \subseteq Handoff /\ written \subseteq Range(stream)
      /\ HookInv(p) /\ DueInv(p)
  BY DEF Inv, TypeOK, TableInv, Load, At
<1>2. hook' = [hook EXCEPT ![p].todo = Pending(p), ![p].pc = l]
  BY DEF Load
<1>3. hook[p].kind \in Kind /\ hook[p].kind # "handoff"
  BY <1>1 DEF HookInv, Hook
<1>4. /\ l \in {"resume", "acknowledge", "stamp", "mirror"} /\ (l = "mirror" <=> Pending(p) # {})
      /\ (hook[p].kind = "start" => l # "stamp")
  BY <1>3, OwnIs
<1>5. l \in PC /\ Pending(p) \in SUBSET Handoff /\ Pending(p) \subseteq rows
  BY <1>1, <1>4 DEF Pending, PC
<1>6. hook[p].due \subseteq Range(stream) \cup Pending(p)
  BY <1>1 DEF DueInv, Pending
<1> HIDE DEF l
<1>7. hook'[p].pc = l /\ hook'[p].todo = Pending(p)
  BY <1>1, <1>2, Zenon DEF Hook
<1>8. /\ hook'[p].kind = hook[p].kind /\ hook'[p].session = hook[p].session
      /\ hook'[p].found = hook[p].found
  BY <1>1, <1>2, Zenon DEF Hook
<1>9. hook'[p].due = hook[p].due /\ hook'[p].failed = hook[p].failed
  BY <1>1, <1>2, Zenon DEF Hook
<1>10. hook' \in [Proc -> Hook]
  BY <1>1, <1>2, <1>5, Zenon DEF Hook
<1>11. Local(p)
  BY <1>1, <1>2, <1>10, Zenon DEF Local
<1>12. UNCHANGED <<home, at, of, rows, stream, delivery>>
  BY DEF Load, checkpoints
<1>13. HookInv(p)'
  BY <1>1, <1>3, <1>4, <1>5, <1>7, <1>8, <1>12 DEF HookInv
<1>14. DueInv(p)'
  BY <1>1, <1>4, <1>6, <1>7, <1>8, <1>9, <1>12 DEF DueInv, EntityOf
<1> QED
  BY <1>1, <1>11, <1>13, <1>14, CalmInv DEF Load, At, Inv, TypeOK

LEMMA MirrorFailsInv ==
  ASSUME Inv, NEW p \in Proc, MirrorFails(p)
  PROVE  Inv'
<1>1. /\ hook \in [Proc -> Hook] /\ hook[p] \in Hook /\ hook[p].pc = "mirror"
      /\ HookInv(p) /\ DueInv(p)
  BY DEF Inv, TypeOK, MirrorFails, At
<1>2. faults' \in 0 .. MaxFaults
  BY HandoffAssumption DEF Inv, TypeOK, MirrorFails
<1>3. Local(p) /\ HookInv(p)' /\ DueInv(p)'
  <2>1. CASE Recovering(p)
    <3> DEFINE l == Own(hook[p].kind)
    <3>1. hook' = [hook EXCEPT ![p].todo = {}, ![p].failed = TRUE, ![p].pc = l]
      BY <2>1 DEF MirrorFails
    <3>2. hook[p].kind \in Kind /\ hook[p].kind # "handoff"
      BY <1>1 DEF HookInv, Hook
    <3>3. l \in {"resume", "acknowledge", "stamp"} /\ (hook[p].kind = "start" => l # "stamp")
      BY <3>2, OwnIs
    <3>4. l \in PC
      BY <3>3 DEF PC
    <3> HIDE DEF l
    <3>5. hook'[p].pc = l /\ hook'[p].failed = TRUE
      BY <1>1, <3>1, Zenon DEF Hook
    <3>6. /\ hook'[p].kind = hook[p].kind /\ hook'[p].session = hook[p].session
          /\ hook'[p].found = hook[p].found /\ hook'[p].due = hook[p].due
      BY <1>1, <3>1, Zenon DEF Hook
    <3>7. hook' \in [Proc -> Hook]
      BY <1>1, <3>1, <3>4, Zenon DEF Hook
    <3>8. Local(p)
      BY <1>1, <3>1, <3>7, Zenon DEF Local
    <3>9. UNCHANGED <<home, at, of, rows, stream, delivery>>
      BY DEF MirrorFails, checkpoints
    <3>10. HookInv(p)'
      BY <1>1, <3>2, <3>3, <3>5, <3>6, <3>9 DEF HookInv
    <3>11. DueInv(p)'
      <4>1. hook'[p].pc # "idle" /\ ~ (~ hook'[p].failed)
        BY <3>3, <3>5
      <4>2. \A h \in hook'[p].due : h \in rows' \cup Range(stream') /\ of'[h] = home'[hook'[p].session]
        BY <1>1, <3>6, <3>9 DEF DueInv, EntityOf
      <4>3. hook'[p].kind # "start" => hook'[p].due = {}
        BY <1>1, <3>6 DEF DueInv
      <4>4. hook'[p].pc \notin {"deliver", "assemble"}
        BY <3>3, <3>5
      <4> QED
        BY <4>1, <4>2, <4>3, <4>4 DEF DueInv, EntityOf
    <3> QED
      BY <3>8, <3>10, <3>11
  <2>2. CASE ~ Recovering(p)
    BY <2>2, DoneInv DEF MirrorFails
  <2> QED
    BY <2>1, <2>2
<1> QED
  BY <1>1, <1>2, <1>3, CalmInv DEF MirrorFails, At, Inv, TypeOK

LEMMA StampInv ==
  ASSUME Inv, NEW p \in Proc, Stamp(p)
  PROVE  Inv'
<1> DEFINE l == IF hook[p].kind = "stop" THEN "reserve" ELSE "append"
<1>1. /\ hook \in [Proc -> Hook] /\ hook[p] \in Hook /\ hook[p].pc = "stamp"
      /\ HookInv(p) /\ DueInv(p) /\ clock \in 0 .. MaxTime
  BY DEF Inv, TypeOK, Stamp, At
<1>2. hook' = [hook EXCEPT ![p].stamp = clock, ![p].pc = l]
  BY DEF Stamp
<1>3. l \in {"reserve", "append"} /\ (hook[p].kind = "handoff" => l = "append")
  OBVIOUS
<1>4. l \in PC
  BY <1>3 DEF PC
<1> HIDE DEF l
<1>5. /\ hook'[p].pc = l /\ hook'[p].failed = hook[p].failed
  BY <1>1, <1>2, Zenon DEF Hook
<1>6. /\ hook'[p].kind = hook[p].kind /\ hook'[p].session = hook[p].session
      /\ hook'[p].found = hook[p].found /\ hook'[p].due = hook[p].due
  BY <1>1, <1>2, Zenon DEF Hook
<1>7. hook' \in [Proc -> Hook]
  BY <1>1, <1>2, <1>4, Zenon DEF Hook
<1>8. Local(p)
  BY <1>1, <1>2, <1>7, Zenon DEF Local
<1>9. UNCHANGED <<home, at, of, rows, stream, delivery>>
  BY DEF Stamp, checkpoints
<1>10. HookInv(p)' /\ DueInv(p)'
  BY <1>1, <1>3, <1>5, <1>6, <1>9 DEF HookInv, DueInv, EntityOf
<1> QED
  BY <1>1, <1>8, <1>10, CalmInv DEF Stamp, At, Inv, TypeOK

LEMMA ResumeInv ==
  ASSUME Inv, NEW p \in Proc, Resume(p)
  PROVE  Inv'
<1>1. /\ hook \in [Proc -> Hook] /\ hook[p] \in Hook /\ hook[p].pc = "resume"
      /\ HookInv(p) /\ DueInv(p) /\ stream \in Seq(Handoff) /\ at \in [Handoff -> 0 .. MaxTime]
  BY DEF Inv, TypeOK, Resume, At
<1>2. /\ hook[p].found = None /\ hook[p].kind # "handoff" /\ hook[p].session \in Session
      /\ ~ hook[p].failed => hook[p].due \subseteq Range(stream)
  BY <1>1 DEF HookInv, DueInv
<1>3. UNCHANGED <<home, at, of, rows, stream, delivery>>
  BY DEF Resume, checkpoints
<1>4. \A h \in Range(stream) : of[h] = EntityOf(p) =>
        \E i \in Matches(EntityOf(p)) : stream[i] = h
  BY DEF Range, Matches
<1>5. Local(p) /\ HookInv(p)' /\ DueInv(p)'
  <2>1. CASE Matches(EntityOf(p)) = {} /\ Goto(p, "assemble")
    <3>1. "assemble" \in PC
      BY DEF PC
    <3>2. ~ hook[p].failed => hook[p].due = {}
      BY <1>1, <1>2, <1>4, <2>1 DEF DueInv
    <3>3. /\ Local(p) /\ hook'[p].pc = "assemble"
          /\ hook'[p].kind = hook[p].kind /\ hook'[p].session = hook[p].session
          /\ hook'[p].found = None /\ hook'[p].due = hook[p].due
          /\ hook'[p].failed = hook[p].failed
      BY <1>2, <2>1, <3>1, GotoIs
    <3>4. HookInv(p)'
      BY <1>2, <3>3 DEF HookInv
    <3>5. DueInv(p)'
      BY <1>1, <1>3, <3>2, <3>3 DEF DueInv, EntityOf
    <3> QED
      BY <3>3, <3>4, <3>5
  <2>2. ASSUME NEW last \in Matches(EntityOf(p)),
               \A i \in Matches(EntityOf(p)) : Before(i, last),
               hook' = [hook EXCEPT ![p].found = stream[last], ![p].pc = "deliver"]
        PROVE  Local(p) /\ HookInv(p)' /\ DueInv(p)'
    <3> DEFINE h == stream[last]
    <3>1. h \in Handoff /\ h \in Range(stream) /\ of[h] = EntityOf(p)
      BY <1>1 DEF Matches, Range
    <3>2. \A i \in Matches(EntityOf(p)) : at[stream[i]] <= at[h]
      <4> SUFFICES ASSUME NEW i \in Matches(EntityOf(p)) PROVE at[stream[i]] <= at[h]
        OBVIOUS
      <4>1. Before(i, last)
        BY <2>2
      <4>2. stream[i] \in Handoff /\ at[stream[i]] \in Nat /\ at[h] \in Nat
        BY <1>1, <3>1 DEF Matches
      <4> QED
        BY <4>1, <4>2 DEF Before
    <3>3. ~ hook[p].failed => \A g \in hook[p].due : at[g] <= at[h]
      BY <1>1, <1>2, <1>4, <3>2 DEF DueInv
    <3>4. hook' = [hook EXCEPT ![p].found = h, ![p].pc = "deliver"]
      BY <2>2
    <3>5. "deliver" \in PC /\ h # None
      BY <3>1 DEF PC, Handoff, None
    <3> HIDE DEF h
    <3>6. hook'[p].pc = "deliver" /\ hook'[p].found = h
      BY <1>1, <3>4, Zenon DEF Hook
    <3>7. /\ hook'[p].kind = hook[p].kind /\ hook'[p].session = hook[p].session
          /\ hook'[p].due = hook[p].due /\ hook'[p].failed = hook[p].failed
      BY <1>1, <3>4, Zenon DEF Hook
    <3>8. hook' \in [Proc -> Hook]
      BY <1>1, <3>1, <3>4, <3>5, Zenon DEF Hook
    <3>9. Local(p)
      BY <1>1, <3>4, <3>8, Zenon DEF Local
    <3>10. HookInv(p)'
      BY <1>2, <1>3, <3>1, <3>5, <3>6, <3>7 DEF HookInv
    <3>11. DueInv(p)'
      BY <1>1, <1>3, <3>1, <3>3, <3>5, <3>6, <3>7 DEF DueInv, EntityOf
    <3> QED
      BY <3>9, <3>10, <3>11
  <2> QED
    BY <2>1, <2>2 DEF Resume
<1> QED
  BY <1>1, <1>5, CalmInv DEF Resume, At, Inv, TypeOK
-----------------------------------------------------------------------------
(* The steps that write handoffs *)

LEMMA AppendOnceIs ==
  ASSUME NEW h \in Handoff, stream \in Seq(Handoff), IsInjective(stream), AppendOnce(h)
  PROVE  /\ stream' \in Seq(Handoff) /\ IsInjective(stream')
         /\ Range(stream') = Range(stream) \cup {h}
<1>1. CASE h \in Range(stream)
  BY <1>1 DEF AppendOnce
<1>2. CASE h \notin Range(stream)
  <2>1. stream' = Append(stream, h)
    BY <1>2 DEF AppendOnce
  <2>2. /\ stream' \in Seq(Handoff) /\ DOMAIN stream' = 1 .. Len(stream) + 1
        /\ \A i \in 1 .. Len(stream) : stream'[i] = stream[i]
        /\ stream'[Len(stream) + 1] = h /\ DOMAIN stream = 1 .. Len(stream)
        /\ Len(stream) \in Nat
    BY <2>1
  <2>3. IsInjective(stream')
    <3>1. \A i \in 1 .. Len(stream) : stream[i] # h
      BY <1>2, <2>2 DEF Range
    <3>2. \A i, j \in 1 .. Len(stream) : stream[i] = stream[j] => i = j
      BY <2>2 DEF IsInjective
    <3> QED
      BY <2>2, <3>1, <3>2 DEF IsInjective
  <2>4. Range(stream') = Range(stream) \cup {h}
    BY <2>2 DEF Range
  <2> QED
    BY <2>2, <2>3, <2>4
<1> QED
  BY <1>1, <1>2

(* A step that changes the tables, but no delivery and no history. *)
LEMMA TablesInv ==
  ASSUME Inv, NEW p \in Proc, Local(p), HookInv(p)', DueInv(p)', TableInv', Grows,
         UNCHANGED <<home, envelope, clock, delivery, faults, history>>,
         at' \in [Handoff -> 0 .. MaxTime], of' \in [Handoff -> Entity \cup {NoEntity}],
         written' \subseteq rows', rows' \subseteq Handoff,
         stream' \in Seq(Handoff), IsInjective(stream'), ~ At(p, "assemble")
  PROVE  Inv'
<1> USE DEF history
<1>1. TypeOK'
  BY DEF Inv, TypeOK, Local
<1>2. HandoffIsShown'
  <2> SUFFICES ASSUME NEW s \in Session, NEW h \in Handoff,
                      delivery[s][h] # "none", envelope + MaxRecord <= Budget,
                      h \notin shown[s] \cup lost[s]
               PROVE  \E q \in Proc : /\ At(q, "assemble")' /\ hook'[q].session = s
                                      /\ hook'[q].found = h
    BY DEF Inv, HandoffIsShown
  <2>1. PICK q \in Proc : At(q, "assemble") /\ hook[q].session = s /\ hook[q].found = h
    BY DEF Inv, HandoffIsShown
  <2>2. q # p
    BY <2>1
  <2> QED
    BY <2>1, <2>2 DEF Local, At
<1> QED
  BY <1>1, <1>2, StepInv

LEMMA MirrorInv ==
  ASSUME Inv, NEW p \in Proc, NEW h \in Handoff, Mirror(p, h)
  PROVE  Inv'
<1>1. /\ hook \in [Proc -> Hook] /\ hook[p] \in Hook /\ hook[p].pc = "mirror"
      /\ HookInv(p) /\ DueInv(p) /\ TableInv /\ stream \in Seq(Handoff) /\ IsInjective(stream)
  BY DEF Inv, TypeOK, Mirror, At
<1>2. h \in hook[p].todo /\ hook[p].todo \subseteq rows
  BY <1>1 DEF Mirror, Oldest, HookInv
<1>3. /\ stream' \in Seq(Handoff) /\ IsInjective(stream')
      /\ Range(stream') = Range(stream) \cup {h}
  BY <1>1, AppendOnceIs DEF Mirror
<1>4. UNCHANGED <<home, envelope, clock, at, of, rows, written, delivery, faults, history>>
  BY DEF Mirror
<1>5. hook' = [hook EXCEPT ![p].row = h, ![p].pc = "mark"] /\ "mark" \in PC
  BY DEF Mirror, PC
<1>6. hook'[p].pc = "mark" /\ hook'[p].row = h /\ hook'[p].todo = hook[p].todo
  BY <1>1, <1>5, Zenon DEF Hook
<1>7. /\ hook'[p].kind = hook[p].kind /\ hook'[p].session = hook[p].session
      /\ hook'[p].found = hook[p].found
  BY <1>1, <1>5, Zenon DEF Hook
<1>8. hook'[p].due = hook[p].due /\ hook'[p].failed = hook[p].failed
  BY <1>1, <1>5, Zenon DEF Hook
<1>9. hook' \in [Proc -> Hook]
  BY <1>1, <1>5, Zenon DEF Hook
<1>10. Local(p)
  BY <1>1, <1>5, <1>9, Zenon DEF Local
<1>11. HookInv(p)'
  BY <1>1, <1>2, <1>3, <1>4, <1>6, <1>7 DEF HookInv
<1>12. DueInv(p)'
  BY <1>1, <1>3, <1>4, <1>6, <1>7, <1>8 DEF DueInv, EntityOf
<1>13. TableInv' /\ Grows
  BY <1>1, <1>2, <1>3, <1>4 DEF TableInv, Grows
<1> QED
  BY <1>1, <1>3, <1>4, <1>10, <1>11, <1>12, <1>13, TablesInv DEF At, Inv, TypeOK

LEMMA MarkInv ==
  ASSUME Inv, NEW p \in Proc, Mark(p)
  PROVE  Inv'
<1>1. /\ hook \in [Proc -> Hook] /\ hook[p] \in Hook /\ hook[p].pc = "mark"
      /\ HookInv(p) /\ DueInv(p) /\ TableInv /\ rows \subseteq Handoff /\ written \subseteq rows
  BY DEF Inv, TypeOK, Mark, At
<1>2. hook[p].row \in rows \cap Range(stream) /\ hook[p].todo \subseteq rows
  BY <1>1 DEF HookInv
<1>3. UNCHANGED <<home, envelope, clock, at, of, rows, stream, delivery, faults, history>>
  BY DEF Mark
<1>4. written' = written \cup {hook[p].row}
  BY DEF Mark
<1>5. Local(p) /\ HookInv(p)' /\ DueInv(p)'
  <2>1. CASE Recovering(p)
    <3> DEFINE rest == hook[p].todo \ {hook[p].row}
               l == IF rest = {} THEN Own(hook[p].kind) ELSE "mirror"
    <3>1. hook' = [hook EXCEPT ![p].todo = rest, ![p].row = None, ![p].pc = l]
      BY <2>1 DEF Mark
    <3>2. hook[p].kind \in Kind /\ hook[p].kind # "handoff"
      BY <1>1 DEF HookInv, Hook
    <3>3. /\ l \in {"resume", "acknowledge", "stamp", "mirror"} /\ (l = "mirror" <=> rest # {})
          /\ (hook[p].kind = "start" => l # "stamp")
      BY <3>2, OwnIs
    <3>4. l \in PC /\ rest \in SUBSET Handoff /\ rest \subseteq rows /\ None \in Handoff \cup {None}
      BY <1>1, <1>2, <3>3 DEF PC
    <3>5. ~ hook[p].failed => hook[p].due \subseteq Range(stream) \cup rest
      BY <1>1, <1>2 DEF DueInv
    <3> HIDE DEF rest, l
    <3>6. hook'[p].pc = l /\ hook'[p].todo = rest /\ hook'[p].found = hook[p].found
      BY <1>1, <3>1, Zenon DEF Hook
    <3>7. hook'[p].kind = hook[p].kind /\ hook'[p].session = hook[p].session
      BY <1>1, <3>1, Zenon DEF Hook
    <3>8. hook'[p].due = hook[p].due /\ hook'[p].failed = hook[p].failed
      BY <1>1, <3>1, Zenon DEF Hook
    <3>9. hook' \in [Proc -> Hook]
      BY <1>1, <3>1, <3>4, Zenon DEF Hook
    <3>10. Local(p)
      BY <1>1, <3>1, <3>9, Zenon DEF Local
    <3>11. HookInv(p)'
      BY <1>1, <1>3, <3>2, <3>3, <3>4, <3>6, <3>7 DEF HookInv
    <3>12. DueInv(p)'
      BY <1>1, <1>3, <3>3, <3>5, <3>6, <3>7, <3>8 DEF DueInv, EntityOf
    <3> QED
      BY <3>10, <3>11, <3>12
  <2>2. CASE ~ Recovering(p)
    BY <2>2, DoneInv DEF Mark
  <2> QED
    BY <2>1, <2>2
<1>6. TableInv' /\ Grows
  BY <1>1, <1>2, <1>3, <1>4 DEF TableInv, Grows
<1>7. written' \subseteq rows'
  BY <1>1, <1>2, <1>3, <1>4
<1> QED
  BY <1>1, <1>3, <1>5, <1>6, <1>7, TablesInv DEF At, Inv, TypeOK

(* A new handoff is none of those that are durable. *)
LEMMA MakeIs ==
  ASSUME Inv, NEW p \in Proc, NEW h \in Handoff, Make(p, h), hook[p].pc # "idle"
  PROVE  /\ at' \in [Handoff -> 0 .. MaxTime] /\ of' \in [Handoff -> Entity \cup {NoEntity}]
         /\ h \notin rows \cup Range(stream) /\ of'[h] \in Entity
         /\ \A g \in rows \cup Range(stream) : of'[g] = of[g] /\ at'[g] = at[g]
<1>1. /\ hook[p] \in Hook /\ HookInv(p) /\ TableInv /\ home \in [Session -> Entity]
      /\ at \in [Handoff -> 0 .. MaxTime] /\ of \in [Handoff -> Entity \cup {NoEntity}]
      /\ rows \cup Range(stream) \subseteq Handoff
  BY DEF Inv, TypeOK, Range
<1>2. EntityOf(p) \in Entity /\ hook[p].stamp \in 0 .. MaxTime
  BY <1>1 DEF HookInv, EntityOf, Hook
<1>3. /\ of[h] = NoEntity /\ at' = [at EXCEPT ![h] = hook[p].stamp]
      /\ of' = [of EXCEPT ![h] = EntityOf(p)]
  BY DEF Make
<1>4. h \notin rows \cup Range(stream)
  BY <1>1, <1>3, HandoffAssumption DEF TableInv
<1> QED
  BY <1>1, <1>2, <1>3, <1>4

LEMMA ReserveInv ==
  ASSUME Inv, NEW p \in Proc, NEW h \in Handoff, Reserve(p, h)
  PROVE  Inv'
<1>1. /\ hook \in [Proc -> Hook] /\ hook[p] \in Hook /\ hook[p].pc = "reserve"
      /\ HookInv(p) /\ DueInv(p) /\ TableInv
  BY DEF Inv, TypeOK, Reserve, At
<1>2. /\ at' \in [Handoff -> 0 .. MaxTime] /\ of' \in [Handoff -> Entity \cup {NoEntity}]
      /\ h \notin rows \cup Range(stream) /\ of'[h] \in Entity
      /\ \A g \in rows \cup Range(stream) : of'[g] = of[g] /\ at'[g] = at[g]
  BY <1>1, MakeIs DEF Reserve
<1>3. /\ rows' = rows \cup {h}
      /\ UNCHANGED <<home, envelope, clock, written, stream, delivery, faults, history>>
  BY DEF Reserve
<1>4. hook' = [hook EXCEPT ![p].todo = {h}, ![p].pc = "mirror"] /\ "mirror" \in PC
  BY DEF Reserve, PC
<1>5. hook'[p].pc = "mirror" /\ hook'[p].todo = {h} /\ hook'[p].found = hook[p].found
  BY <1>1, <1>4, Zenon DEF Hook
<1>6. hook'[p].kind = hook[p].kind /\ hook'[p].session = hook[p].session
  BY <1>1, <1>4, Zenon DEF Hook
<1>7. hook'[p].due = hook[p].due /\ hook'[p].failed = hook[p].failed
  BY <1>1, <1>4, Zenon DEF Hook
<1>8. hook' \in [Proc -> Hook]
  BY <1>1, <1>4, Zenon DEF Hook
<1>9. Local(p)
  BY <1>1, <1>4, <1>8, Zenon DEF Local
<1>10. HookInv(p)'
  BY <1>1, <1>3, <1>5, <1>6 DEF HookInv
<1>11. hook[p].due = {}
  BY <1>1 DEF HookInv, DueInv
<1>12. DueInv(p)'
  BY <1>5, <1>6, <1>7, <1>11 DEF DueInv
<1>13. TableInv' /\ Grows
  BY <1>1, <1>2, <1>3 DEF TableInv, Grows
<1> QED
  BY <1>1, <1>2, <1>3, <1>9, <1>10, <1>12, <1>13, TablesInv DEF At, Inv, TypeOK
LEMMA AppendHandoffInv ==
  ASSUME Inv, NEW p \in Proc, NEW h \in Handoff, AppendHandoff(p, h)
  PROVE  Inv'
<1>1. /\ hook[p].pc = "append" /\ TableInv
      /\ stream \in Seq(Handoff) /\ IsInjective(stream)
  BY DEF Inv, TypeOK, AppendHandoff, At
<1>2. /\ at' \in [Handoff -> 0 .. MaxTime] /\ of' \in [Handoff -> Entity \cup {NoEntity}]
      /\ h \notin rows \cup Range(stream) /\ of'[h] \in Entity
      /\ \A g \in rows \cup Range(stream) : of'[g] = of[g] /\ at'[g] = at[g]
  BY <1>1, MakeIs DEF AppendHandoff
<1>3. /\ stream' \in Seq(Handoff) /\ IsInjective(stream')
      /\ Range(stream') = Range(stream) \cup {h}
  BY <1>1, AppendOnceIs DEF AppendHandoff
<1>4. UNCHANGED <<home, envelope, clock, rows, written, delivery, faults, history>>
  BY DEF AppendHandoff
<1>5. Local(p) /\ HookInv(p)' /\ DueInv(p)'
  BY DoneInv DEF AppendHandoff
<1>6. TableInv' /\ Grows
  BY <1>1, <1>2, <1>3, <1>4 DEF TableInv, Grows
<1> QED
  BY <1>1, <1>2, <1>3, <1>4, <1>5, <1>6, TablesInv DEF At, Inv, TypeOK
-----------------------------------------------------------------------------
(* The steps that deliver and show one *)

LEMMA DeliverInv ==
  ASSUME Inv, NEW p \in Proc, Deliver(p)
  PROVE  Inv'
<1> DEFINE s == hook[p].session
           h == hook[p].found
<1>1. /\ hook[p] \in Hook /\ hook[p].pc = "deliver" /\ HookInv(p) /\ DueInv(p)
      /\ delivery \in [Session -> [Handoff -> {"none", "delivered", "acknowledged"}]]
  BY DEF Inv, TypeOK, Deliver, At
<1>2. s \in Session /\ h \in Handoff /\ h \in Range(stream) /\ h # None
  BY <1>1 DEF HookInv, Hook
<1>3. /\ delivery' = [delivery EXCEPT ![s][h] = Delivered(@)]
      /\ UNCHANGED <<home, envelope, clock, checkpoints, faults, history>>
      /\ Goto(p, "assemble")
  BY DEF Deliver
<1>4. /\ delivery' \in [Session -> [Handoff -> {"none", "delivered", "acknowledged"}]]
      /\ delivery'[s][h] # "none"
      /\ \A t \in Session, g \in Handoff : t # s \/ g # h => delivery'[t][g] = delivery[t][g]
  BY <1>1, <1>2, <1>3 DEF Delivered
<1>5. "assemble" \in PC
  BY DEF PC
<1>6. /\ Local(p) /\ hook'[p].pc = "assemble"
      /\ hook'[p].kind = hook[p].kind /\ hook'[p].session = s
      /\ hook'[p].found = h /\ hook'[p].due = hook[p].due
      /\ hook'[p].failed = hook[p].failed
  BY <1>3, <1>5, GotoIs
<1> HIDE DEF s, h
<1>7. HookInv(p)'
  BY <1>1, <1>2, <1>3, <1>4, <1>6 DEF HookInv, checkpoints, s, h
<1>8. DueInv(p)'
  BY <1>1, <1>3, <1>6 DEF DueInv, EntityOf, checkpoints, s, h
<1>9. TableInv' /\ Grows
  <2>1. \A t \in Session, g \in Handoff : delivery[t][g] # "none" => delivery'[t][g] # "none"
    BY <1>4
  <2> QED
    BY <1>3, <2>1 DEF Inv, TableInv, Grows, checkpoints
<1>10. TypeOK'
  BY <1>3, <1>4, <1>6 DEF Inv, TypeOK, Local, checkpoints, history
<1>11. HandoffIsShown'
  <2> SUFFICES ASSUME NEW t \in Session, NEW g \in Handoff
               PROVE  /\ g \in shown[t] => delivery'[t][g] # "none"
                      /\ delivery'[t][g] # "none" /\ envelope + MaxRecord <= Budget =>
                           \/ g \in shown[t] \cup lost[t]
                           \/ \E q \in Proc : /\ At(q, "assemble")'
                                              /\ hook'[q].session = t /\ hook'[q].found = g
    BY <1>3 DEF HandoffIsShown, history
  <2>1. CASE t = s /\ g = h
    BY <1>4, <1>6, <2>1 DEF At
  <2>2. CASE t # s \/ g # h
    <3>1. delivery'[t][g] = delivery[t][g]
      BY <1>4, <2>2
    <3>2. ASSUME NEW q \in Proc, At(q, "assemble") PROVE hook'[q] = hook[q]
      BY <1>1, <1>6, <3>2 DEF At, Local
    <3> QED
      BY <3>1, <3>2 DEF Inv, HandoffIsShown, At
  <2> QED
    BY <2>1, <2>2
<1> QED
  BY <1>6, <1>7, <1>8, <1>9, <1>10, <1>11, StepInv

LEMMA AcknowledgeInv ==
  ASSUME Inv, NEW p \in Proc, Acknowledge(p)
  PROVE  Inv'
<1> DEFINE s == hook[p].session
<1>1. /\ hook[p] \in Hook /\ hook[p].pc = "acknowledge" /\ HookInv(p)
      /\ delivery \in [Session -> [Handoff -> {"none", "delivered", "acknowledged"}]]
  BY DEF Inv, TypeOK, Acknowledge, At
<1>2. s \in Session
  BY <1>1 DEF HookInv
<1>3. /\ delivery' = [delivery EXCEPT ![s] = [g \in Handoff |-> Acknowledged(@[g])]]
      /\ UNCHANGED <<home, envelope, clock, checkpoints, faults, history>>
      /\ Done(p)
  BY DEF Acknowledge
<1> HIDE DEF s
<1>4. /\ delivery' \in [Session -> [Handoff -> {"none", "delivered", "acknowledged"}]]
      /\ \A t \in Session, g \in Handoff : delivery'[t][g] = "none" <=> delivery[t][g] = "none"
  BY <1>1, <1>2, <1>3 DEF Acknowledged
<1>5. Local(p) /\ HookInv(p)' /\ DueInv(p)'
  BY <1>3, DoneInv
<1>6. TableInv' /\ Grows
  BY <1>3, <1>4 DEF Inv, TableInv, Grows, checkpoints
<1>7. TypeOK'
  BY <1>3, <1>4, <1>5 DEF Inv, TypeOK, Local, checkpoints, history
<1>8. HandoffIsShown'
  <2>1. ASSUME NEW q \in Proc, At(q, "assemble") PROVE hook'[q] = hook[q]
    BY <1>1, <1>5, <2>1 DEF At, Local
  <2> QED
    BY <1>3, <1>4, <2>1 DEF Inv, HandoffIsShown, At, history
<1> QED
  BY <1>5, <1>6, <1>7, <1>8, StepInv

(* The first record fits whenever there is room for a record. *)
LEMMA FirstIsShown ==
  ASSUME NEW size \in Size, NEW others \in SeqOf(Size, 1),
         NEW used \in [0 .. Len(<<size>> \o others) -> 0 .. Budget],
         Fills(used, <<size>> \o others), envelope \in Nat, envelope + MaxRecord <= Budget
  PROVE  used[1] # used[0]
<1>1. others \in Seq(Size)
  BY DEF SeqOf
<1>2. Size \subseteq Nat \ {0}
  BY HandoffAssumption DEF Size
<1>3. 1 \in DOMAIN (<<size>> \o others) /\ (<<size>> \o others)[1] = size
  BY <1>1, <1>2
<1>4. used[0] = envelope
      /\ used[1] = IF used[0] + Rendered(size) <= Budget THEN used[0] + Rendered(size) ELSE used[0]
  BY <1>3 DEF Fills
<1>5. Rendered(size) \in 1 .. MaxRecord
  BY <1>2, HandoffAssumption DEF Rendered
<1> QED
  BY <1>4, <1>5, HandoffAssumption

LEMMA AssembleInv ==
  ASSUME Inv, NEW p \in Proc, Assemble(p)
  PROVE  Inv'
<1> DEFINE s == hook[p].session
           h == hook[p].found
<1>1. /\ hook[p] \in Hook /\ hook[p].pc = "assemble" /\ HookInv(p) /\ envelope \in Nat
      /\ shown \in [Session -> SUBSET Handoff]
  BY HandoffAssumption DEF Inv, TypeOK, Assemble, At
<1>2. s \in Session /\ h \in Handoff \cup {None} /\ (h # None => h \in Handoff /\ delivery[s][h] # "none")
  BY <1>1 DEF HookInv, Hook
<1>3. Done(p) /\ UNCHANGED <<home, envelope, clock, checkpoints, delivery, faults, lost>>
  BY DEF Assemble
<1>4. /\ \/ shown' = shown
         \/ h # None /\ shown' = [shown EXCEPT ![s] = @ \cup {h}]
      /\ h # None /\ envelope + MaxRecord <= Budget => shown' = [shown EXCEPT ![s] = @ \cup {h}]
  <2>1. PICK mine \in Size, others \in SeqOf(Size, 1) :
          LET records == (IF h = None THEN <<>> ELSE <<mine>>) \o others
          IN  \E used \in [0 .. Len(records) -> 0 .. Budget] :
                /\ Fills(used, records)
                /\ shown' = IF h # None /\ used[1] # used[0]
                            THEN [shown EXCEPT ![s] = @ \cup {h}] ELSE shown
    BY Zenon DEF Assemble
  <2> QED
    BY <1>1, <2>1, FirstIsShown
<1> HIDE DEF s, h
<1>5. /\ shown' \in [Session -> SUBSET Handoff]
      /\ \A t \in Session : shown[t] \subseteq shown'[t]
      /\ \A t \in Session, g \in Handoff : g \in shown'[t] => g \in shown[t] \/ (t = s /\ g = h /\ h # None)
      /\ h # None /\ envelope + MaxRecord <= Budget => h \in shown'[s]
  BY <1>1, <1>2, <1>4
<1>6. Local(p) /\ HookInv(p)' /\ DueInv(p)'
  BY <1>3, DoneInv
<1>7. TableInv' /\ Grows
  BY <1>3 DEF Inv, TableInv, Grows, checkpoints
<1>8. TypeOK'
  BY <1>3, <1>5, <1>6 DEF Inv, TypeOK, Local, checkpoints
<1>9. HandoffIsShown'
  <2> SUFFICES ASSUME NEW t \in Session, NEW g \in Handoff
               PROVE  /\ g \in shown'[t] => delivery[t][g] # "none"
                      /\ delivery[t][g] # "none" /\ envelope + MaxRecord <= Budget =>
                           \/ g \in shown'[t] \cup lost[t]
                           \/ \E q \in Proc : /\ At(q, "assemble")'
                                              /\ hook'[q].session = t /\ hook'[q].found = g
    BY <1>3 DEF HandoffIsShown
  <2>1. g \in shown'[t] => delivery[t][g] # "none"
    BY <1>2, <1>5 DEF Inv, HandoffIsShown
  <2>2. ASSUME delivery[t][g] # "none", envelope + MaxRecord <= Budget,
               g \notin shown'[t] \cup lost[t]
        PROVE  \E q \in Proc : /\ At(q, "assemble")'
                               /\ hook'[q].session = t /\ hook'[q].found = g
    <3>1. PICK q \in Proc : At(q, "assemble") /\ hook[q].session = t /\ hook[q].found = g
      BY <1>5, <2>2 DEF Inv, HandoffIsShown
    <3>2. g # None
      BY DEF Handoff, None
    <3>3. q # p
      BY <1>5, <2>2, <3>1, <3>2 DEF s, h
    <3> QED
      BY <1>6, <3>1, <3>3 DEF At, Local
  <2> QED
    BY <2>1, <2>2
<1> QED
  BY <1>6, <1>7, <1>8, <1>9, StepInv

LEMMA DieInv ==
  ASSUME Inv, NEW p \in Proc, Die(p)
  PROVE  Inv'
<1> DEFINE s == hook[p].session
           h == hook[p].found
           late == hook[p].pc = "assemble" /\ h # None
<1>1. hook[p] \in Hook /\ HookInv(p) /\ hook[p].pc # "idle" /\ lost \in [Session -> SUBSET Handoff]
  BY DEF Inv, TypeOK, Die, At
<1>2. s \in Session /\ h \in Handoff \cup {None}
  BY <1>1 DEF HookInv, Hook
<1>3. /\ Done(p) /\ UNCHANGED <<home, envelope, clock, checkpoints, delivery, shown>>
      /\ lost' = IF late THEN [lost EXCEPT ![s] = @ \cup {h}] ELSE lost
  BY Zenon DEF Die, At
<1>4. faults' \in 0 .. MaxFaults
  BY HandoffAssumption DEF Inv, TypeOK, Die
<1>5. /\ lost' \in [Session -> SUBSET Handoff] /\ \A t \in Session : lost[t] \subseteq lost'[t]
      /\ late => h \in lost'[s]
  BY <1>1, <1>2, <1>3
<1>6. Local(p) /\ HookInv(p)' /\ DueInv(p)'
  BY <1>3, DoneInv
<1>7. TableInv' /\ Grows
  BY <1>3 DEF Inv, TableInv, Grows, checkpoints
<1>8. TypeOK'
  BY <1>3, <1>4, <1>5, <1>6 DEF Inv, TypeOK, Local, checkpoints
<1> HIDE DEF s, h, late
<1>9. HandoffIsShown'
  <2> SUFFICES ASSUME NEW t \in Session, NEW g \in Handoff
               PROVE  /\ g \in shown[t] => delivery[t][g] # "none"
                      /\ delivery[t][g] # "none" /\ envelope + MaxRecord <= Budget =>
                           \/ g \in shown[t] \cup lost'[t]
                           \/ \E q \in Proc : /\ At(q, "assemble")'
                                              /\ hook'[q].session = t /\ hook'[q].found = g
    BY <1>3 DEF HandoffIsShown
  <2>1. g \in shown[t] => delivery[t][g] # "none"
    BY DEF Inv, HandoffIsShown
  <2>2. ASSUME delivery[t][g] # "none", envelope + MaxRecord <= Budget,
               g \notin shown[t] \cup lost'[t]
        PROVE  \E q \in Proc : /\ At(q, "assemble")'
                               /\ hook'[q].session = t /\ hook'[q].found = g
    <3>1. PICK q \in Proc : At(q, "assemble") /\ hook[q].session = t /\ hook[q].found = g
      BY <1>5, <2>2 DEF Inv, HandoffIsShown
    <3>2. g # None
      BY DEF Handoff, None
    <3>3. q # p
      BY <1>5, <2>2, <3>1, <3>2 DEF s, h, late, At
    <3> QED
      BY <1>6, <3>1, <3>3 DEF At, Local
  <2> QED
    BY <2>1, <2>2
<1> QED
  BY <1>6, <1>7, <1>8, <1>9, StepInv
-----------------------------------------------------------------------------
(* Theorems *)

LEMMA EndsInv ==
  ASSUME Inv, NEW p \in Proc, NothingToReserve(p) \/ AssembleFails(p)
  PROVE  Inv'
<1>1. /\ Done(p)
      /\ At(p, "reserve") \/ envelope > Budget
      /\ UNCHANGED <<home, envelope, clock, checkpoints, delivery, faults, history>>
  BY DEF NothingToReserve, AssembleFails
<1>2. Local(p) /\ HookInv(p)' /\ DueInv(p)'
  BY <1>1, DoneInv
<1>3. At(p, "assemble") => envelope > Budget
  BY <1>1 DEF At
<1> QED
  BY <1>1, <1>2, <1>3, CalmInv DEF Inv, TypeOK

LEMMA IdleInv ==
  ASSUME Inv, Tick \/ UNCHANGED vars
  PROVE  Inv'
<1>1. /\ UNCHANGED <<home, envelope, checkpoints, delivery, hook, faults, history>>
      /\ clock' \in 1 .. MaxTime
  BY HandoffAssumption DEF Inv, TypeOK, Tick, vars, history
<1>2. TypeOK'
  BY <1>1 DEF Inv, TypeOK, checkpoints, history
<1>3. TableInv' /\ HandoffIsShown'
  BY <1>1 DEF Inv, TableInv, HandoffIsShown, At, checkpoints, history
<1>4. \A p \in Proc : HookInv(p)' /\ DueInv(p)'
  BY <1>1 DEF Inv, HookInv, DueInv, EntityOf, checkpoints
<1> QED
  BY <1>2, <1>3, <1>4 DEF Inv

LEMMA NextInv == Inv /\ [Next]_vars => Inv'
<1> SUFFICES ASSUME Inv, [Next]_vars PROVE Inv'
  OBVIOUS
<1>1. CASE Tick \/ UNCHANGED vars
  BY <1>1, IdleInv
<1>2. ASSUME NEW p \in Proc, HookStep(p) PROVE Inv'
  BY <1>2, BeginInv, LoadInv, MirrorInv, MarkInv, MirrorFailsInv, StampInv, EndsInv,
     ReserveInv, AppendHandoffInv, ResumeInv, DeliverInv, AssembleInv, AcknowledgeInv
     DEF HookStep
<1>3. ASSUME NEW p \in Proc, Die(p) PROVE Inv'
  BY <1>3, DieInv
<1> QED
  BY <1>1, <1>2, <1>3 DEF Next

LEMMA SpecInv == Spec => []Inv
BY InitInv, NextInv, PTL DEF Spec

(* The tables, the stream and the hooks keep their types, and a handoff is  *)
(* in the stream once, for any number of processes, sessions and faults.    *)
THEOREM HandoffTypeCorrect == Spec => []TypeOK
<1>1. Inv => TypeOK
  BY DEF Inv
<1> QED
  BY <1>1, SpecInv, PTL

(* A session resumes no older handoff than any that was durable when its    *)
(* start began, whoever writes, recovers or dies meanwhile.                 *)
THEOREM ResumesTheLatestHolds == Spec => []ResumesTheLatest
<1>1. Inv => ResumesTheLatest
  BY DEF Inv, DueInv, ResumesTheLatest
<1> QED
  BY <1>1, SpecInv, PTL

(* A handoff that counts as delivered was put before the session, for any   *)
(* budget that leaves room for a record.                                    *)
THEOREM HandoffIsShownHolds == Spec => []HandoffIsShown
<1>1. Inv => HandoffIsShown
  BY DEF Inv
<1> QED
  BY <1>1, SpecInv, PTL
=============================================================================
