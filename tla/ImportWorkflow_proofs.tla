----------------------- MODULE ImportWorkflow_proofs -----------------------
(***************************************************************************)
(* Proofs about Knowledge, by itself, and about ImportWorkflow, which      *)
(* extends it, for any processes, files, contents, entries, entities and   *)
(* bounds.                                                                 *)
(*                                                                         *)
(* Of Knowledge the inductive invariant Inv adds to the invariants that a  *)
(* row that is not there has no scope, no link and no edge to it, and that *)
(* what put_knowledge remembers of the scope of an existing row stays true *)
(* where it matters: a row once seen scoped is never global again.         *)
(*                                                                         *)
(* An import and a rollback go through a list of any length in one step.   *)
(* What they do is proved by induction over the items (UpTo, which rests   *)
(* on the least element of a set of numbers): every item leaves what the   *)
(* next one needs.  Three facts about an import come from it: what each    *)
(* decision has in effect in the end (Holds), what the rows were between   *)
(* each two items and that the undo of each row leads back (Carried, with  *)
(* its Chain of pictures), and which row or which earlier batch answers    *)
(* for each decision (Booked).                                             *)
(*                                                                         *)
(* The inductive invariant ImportInv is what makes a check of two          *)
(* revisions enough for a rollback.  There is a history that names one     *)
(* picture of the rows for each revision, and every batch lies between the *)
(* pictures of its two revisions by a Chain (HistoryInv); so a store at    *)
(* the revision after the batch has the picture after it, and the undo of  *)
(* the chain, the last row first, leads to what is like the picture before *)
(* (RollbackBack).  It is not the same picture: a row the import made is   *)
(* archived, and nobody sees it (Alike).  LedgerInv says of the other      *)
(* batches why they lose nothing: each decision of a live batch has its    *)
(* row there or in a batch it depends on, and no two live batches of an    *)
(* entity have the same row.                                               *)
(***************************************************************************)
EXTENDS ImportWorkflow, SequenceTheorems, WellFoundedInduction, TLAPS

-----------------------------------------------------------------------------
(* Semantic memory by itself *)


AbsentIsBare ==
  \A t \in Text : status[t] = "absent" => t \notin global /\ LinksOf(t) = {}

CallInv ==
  \A p \in Proc :
    /\ pc[p] # "idle" => call[p] \in Call
    /\ pc[p] = "write" /\ call[p].exists =>
         /\ status[call[p].text] # "absent"
         /\ ~ call[p].global => call[p].text \notin global

Inv == /\ TypeOK /\ AbsentIsBare /\ CallInv
       /\ OneReplacement /\ SupersededIsReplaced /\ GlobalIsUnlinked

LEMMA InitInv == Init => Inv
<1> SUFFICES ASSUME Init PROVE Inv
  OBVIOUS
<1>1. TypeOK
  BY DEF Init, TypeOK
<1>2. AbsentIsBare /\ CallInv
  BY DEF Init, AbsentIsBare, CallInv, LinksOf
<1>3. OneReplacement /\ SupersededIsReplaced /\ GlobalIsUnlinked
  BY DEF Init, OneReplacement, SupersededIsReplaced, GlobalIsUnlinked
<1> QED
  BY <1>1, <1>2, <1>3 DEF Inv

(* ReadExisting refuses the call or remembers what it saw. *)
LEMMA ReadExistingStep ==
  ASSUME Inv, NEW p \in Proc, ReadExisting(p)
  PROVE  /\ UNCHANGED <<rows, writes>>
         /\ \/ pc' = [pc EXCEPT ![p] = "idle"] /\ call' = [call EXCEPT ![p] = NoCall]
            \/ /\ pc' = [pc EXCEPT ![p] = "write"]
               /\ \E c \in Call :
                    /\ call' = [call EXCEPT ![p] = c]
                    /\ c.exists => /\ status[c.text] # "absent"
                                   /\ ~ c.global => c.text \notin global
<1> DEFINE c == call[p]
           exists == status[c.text] # "absent"
           seen == [text |-> c.text, old |-> c.old, entities |-> c.entities,
                    exists |-> exists, global |-> exists /\ c.text \in global]
<1>1. c \in Call
  BY DEF ReadExisting, Inv, CallInv
<1>2. c.text \in Text /\ c.old \in Text \cup {NoText} /\ c.entities \in SUBSET Entity
  BY <1>1 DEF Call
<1>3. seen \in Call
  BY <1>2 DEF Call
<1>4. seen.text = c.text /\ seen.exists = exists
      /\ seen.global = (exists /\ c.text \in global)
  OBVIOUS
<1>5. seen.exists => status[seen.text] # "absent" /\ (~ seen.global => seen.text \notin global)
  BY <1>4
<1>6. \/ Return(p)
      \/ pc' = [pc EXCEPT ![p] = "write"] /\ call' = [call EXCEPT ![p] = seen]
  BY DEF ReadExisting
<1>7. UNCHANGED <<rows, writes>>
  BY DEF ReadExisting
<1> HIDE DEF seen, exists, c
<1> QED
  BY <1>3, <1>5, <1>6, <1>7 DEF Return

(* Recording an edge that does not conflict leaves one replacement. *)
LEMMA RecordedIsOne ==
  ASSUME Inv, NEW old \in Text, NEW new \in Text, NEW scope \in Scope,
         ~ Conflicts(old, new, scope), edges' = Recorded(old, new, scope)
  PROVE  OneReplacement'
<1> DEFINE added == <<old, new, scope>>
<1>1. added[1] = old /\ added[2] = new /\ added[3] = scope
  OBVIOUS
<1>2. \A edge \in edges : edge = <<edge[1], edge[2], edge[3]>>
  BY DEF Inv, TypeOK
<1>3. \A edge \in edges : edge[1] = old /\ edge[3] = scope => edge = added
  BY <1>2 DEF Conflicts
<1> SUFFICES ASSUME NEW a \in edges', NEW b \in edges', a[1] = b[1], a[3] = b[3]
             PROVE  a = b
  BY DEF OneReplacement
<1>4. edges' = edges \cup {added}
  BY DEF Recorded
<1> HIDE DEF added
<1>5. CASE a \in edges /\ b \in edges
  BY <1>5 DEF Inv, OneReplacement
<1>6. CASE a = added \/ b = added
  BY <1>1, <1>3, <1>4, <1>6
<1> QED
  BY <1>4, <1>5, <1>6

(* Recording an edge says what the old row is replaced by. *)
LEMMA RecordedSays ==
  ASSUME NEW old, NEW new, NEW scope, edges' = Recorded(old, new, scope)
  PROVE  /\ \E edge \in edges' : edge[1] = old
         /\ edges \subseteq edges'
<1>1. <<old, new, scope>> \in edges' /\ <<old, new, scope>>[1] = old
  BY DEF Recorded
<1> QED
  BY <1>1 DEF Recorded

(* Steps of put_knowledge that write no row. *)
LEMMA ReadsKeepInv ==
  ASSUME Inv, NEW p \in Proc,
         \/ \E t \in Text, old \in Text \cup {NoText}, S \in SUBSET Entity :
              StartPut(p, t, old, S)
         \/ ReadExisting(p) \/ FailPut(p)
  PROVE  Inv'
<1>1. /\ UNCHANGED rows /\ writes' = writes
      /\ pc' \in [Proc -> {"idle", "existing", "write"}]
      /\ call' \in [Proc -> Call \cup {NoCall}]
      /\ \A q \in Proc \ {p} : pc'[q] = pc[q] /\ call'[q] = call[q]
  <2>1. CASE \E t \in Text, old \in Text \cup {NoText}, S \in SUBSET Entity :
               StartPut(p, t, old, S)
    BY <2>1 DEF StartPut, Inv, TypeOK, Call
  <2>2. CASE ReadExisting(p)
    BY <2>2, ReadExistingStep DEF Inv, TypeOK
  <2>3. CASE FailPut(p)
    BY <2>3 DEF FailPut, Return, Inv, TypeOK
  <2> QED
    BY <2>1, <2>2, <2>3
<1>2. /\ pc'[p] # "idle" => call'[p] \in Call
      /\ pc'[p] = "write" /\ call'[p].exists =>
           /\ status[call'[p].text] # "absent"
           /\ ~ call'[p].global => call'[p].text \notin global
  <2>1. CASE \E t \in Text, old \in Text \cup {NoText}, S \in SUBSET Entity :
               StartPut(p, t, old, S)
    BY <2>1 DEF StartPut, Inv, TypeOK, Call
  <2>2. CASE ReadExisting(p)
    BY <2>2, ReadExistingStep DEF Inv, TypeOK
  <2>3. CASE FailPut(p)
    BY <2>3 DEF FailPut, Return, Inv, TypeOK
  <2> QED
    BY <2>1, <2>2, <2>3
<1>3. TypeOK'
  BY <1>1 DEF Inv, TypeOK, rows
<1>4. CallInv'
  BY <1>1, <1>2 DEF Inv, CallInv, rows
<1>5. AbsentIsBare' /\ OneReplacement' /\ SupersededIsReplaced' /\ GlobalIsUnlinked'
  BY <1>1 DEF Inv, AbsentIsBare, OneReplacement, SupersededIsReplaced,
              GlobalIsUnlinked, LinksOf, rows
<1> QED
  BY <1>3, <1>4, <1>5 DEF Inv

LEMMA WritePutKeepsInv ==
  ASSUME Inv, NEW p \in Proc, WritePut(p)
  PROVE  Inv'
<1> DEFINE c == call[p]
<1>1. c \in Call
  BY DEF WritePut, Inv, CallInv
<1>2. c.text \in Text /\ c.old \in Text \cup {NoText} /\ c.entities \subseteq Entity
      /\ c.exists \in BOOLEAN /\ c.global \in BOOLEAN
  BY <1>1 DEF Call
<1>3. /\ c.exists => status[c.text] # "absent"
      /\ ~ c.exists => status[c.text] = "absent"
      /\ c.exists /\ ~ c.global => c.text \notin global
  BY <1>1 DEF WritePut, PutFails, Inv, CallInv
<1>4. TypeOK'
  BY <1>2 DEF WritePut, Commit, Return, Recorded, Scope, Inv, TypeOK
<1>5. AbsentIsBare'
  <2> SUFFICES ASSUME NEW t \in Text, status'[t] = "absent"
               PROVE  t \notin global' /\ LinksOf(t)' = {}
    BY DEF AbsentIsBare
  <2>1. status[t] = "absent" /\ t # c.text
    BY <1>2, <1>3 DEF WritePut, Inv, TypeOK
  <2> QED
    BY <2>1 DEF WritePut, Inv, AbsentIsBare, LinksOf
<1>6. CallInv'
  <2> SUFFICES ASSUME NEW q \in Proc
               PROVE  /\ pc'[q] # "idle" => call'[q] \in Call
                      /\ pc'[q] = "write" /\ call'[q].exists =>
                           /\ status'[call'[q].text] # "absent"
                           /\ ~ call'[q].global => call'[q].text \notin global'
    BY DEF CallInv
  <2>1. CASE q = p
    BY <2>1 DEF WritePut, Return, Inv, TypeOK
  <2>2. CASE q # p
    <3>1. pc'[q] = pc[q] /\ call'[q] = call[q]
      BY <2>2 DEF WritePut, Return, Inv, TypeOK
    <3>2. pc[q] # "idle" => call[q].text \in Text
      BY DEF Inv, CallInv, Call
    <3>3. \A t \in Text : status[t] # "absent" =>
            /\ status'[t] # "absent"
            /\ t \notin global => t \notin global'
      BY <1>3 DEF WritePut, Inv, TypeOK
    <3> QED
      BY <3>1, <3>2, <3>3 DEF Inv, CallInv
  <2> QED
    BY <2>1, <2>2
<1>7. OneReplacement'
  <2>1. CASE c.old = NoText
    BY <2>1 DEF WritePut, Inv, OneReplacement
  <2>2. CASE c.old # NoText
    BY <2>2, <1>2, RecordedIsOne DEF WritePut, PutFails, Scope
  <2> QED
    BY <2>1, <2>2
<1>8. SupersededIsReplaced'
  <2> SUFFICES ASSUME NEW t \in Text, status'[t] = "superseded"
               PROVE  \E edge \in edges' : edge[1] = t
    BY DEF SupersededIsReplaced
  <2>1. CASE t = c.old
    <3>1. c.old # NoText
      BY <2>1, KnowledgeAssumption
    <3>2. edges' = Recorded(c.old, c.text, Everyone)
      BY <3>1 DEF WritePut
    <3> QED
      BY <3>2, <2>1, RecordedSays
  <2>2. CASE t # c.old
    <3>1. status[t] = "superseded"
      BY <2>2 DEF WritePut, Inv, TypeOK
    <3> QED
      BY <3>1 DEF WritePut, Recorded, Inv, SupersededIsReplaced
  <2> QED
    BY <2>1, <2>2
<1>9. GlobalIsUnlinked'
  <2> SUFFICES ASSUME NEW t \in global', NEW l \in links', l[1] = t
               PROVE  FALSE
    BY DEF GlobalIsUnlinked, LinksOf
  <2>1. t \in Text
    BY <1>4 DEF TypeOK
  <2>2. CASE t # c.text
    BY <2>1, <2>2 DEF WritePut, Inv, GlobalIsUnlinked, LinksOf
  <2>3. CASE t = c.text /\ c.exists
    <3>1. t \in global /\ l \notin links
      BY <2>3 DEF WritePut, Inv, GlobalIsUnlinked, LinksOf
    <3> QED
      BY <3>1, <2>3, <1>3 DEF WritePut
  <2>4. CASE t = c.text /\ ~ c.exists
    <3>1. t \notin global /\ l \notin links
      BY <2>1, <2>4, <1>3 DEF Inv, AbsentIsBare, LinksOf
    <3> QED
      BY <3>1, <2>4 DEF WritePut
  <2> QED
    BY <2>2, <2>3, <2>4, <1>2
<1> QED
  BY <1>4, <1>5, <1>6, <1>7, <1>8, <1>9 DEF Inv

(* The writers that are one transaction change no call and widen no row. *)
LEMMA DirectKeepsCalls ==
  ASSUME Inv, UNCHANGED <<pc, call>>,
         global' \subseteq global,
         \A t \in Text : status[t] # "absent" => status'[t] # "absent"
  PROVE  CallInv'
BY DEF Inv, CallInv, Call

LEMMA SupersedeForKeepsInv ==
  ASSUME Inv, NEW old \in Text, NEW new \in Text, NEW e \in Entity,
         SupersedeFor(old, new, e)
  PROVE  Inv'
<1>1. TypeOK'
  BY DEF SupersedeFor, Commit, Recorded, Scope, Inv, TypeOK
<1>2. AbsentIsBare'
  <2> SUFFICES ASSUME NEW t \in Text, status'[t] = "absent"
               PROVE  t \notin global' /\ LinksOf(t)' = {}
    BY DEF AbsentIsBare
  <2>1. status[t] = "absent" /\ t # new
    BY DEF SupersedeFor, Inv, TypeOK
  <2> QED
    BY <2>1 DEF SupersedeFor, Inv, AbsentIsBare, LinksOf
<1>3. CallInv'
  <2>1. /\ UNCHANGED <<pc, call>> /\ global' \subseteq global
        /\ \A t \in Text : status[t] # "absent" => status'[t] # "absent"
    BY DEF SupersedeFor, Inv, TypeOK
  <2> QED
    BY <2>1, DirectKeepsCalls
<1>4. OneReplacement'
  BY RecordedIsOne DEF SupersedeFor, Scope
<1>5. SupersededIsReplaced'
  <2> SUFFICES ASSUME NEW t \in Text, status'[t] = "superseded"
               PROVE  \E edge \in edges' : edge[1] = t
    BY DEF SupersededIsReplaced
  <2>1. /\ \E edge \in edges' : edge[1] = old
        /\ edges \subseteq edges'
    BY RecordedSays DEF SupersedeFor
  <2>2. CASE t = old
    BY <2>1, <2>2
  <2>3. CASE t # old
    <3>1. status[t] = "superseded"
      BY <2>3 DEF SupersedeFor, Inv, TypeOK
    <3> QED
      BY <2>1, <3>1 DEF Inv, SupersededIsReplaced
  <2> QED
    BY <2>2, <2>3
<1>6. GlobalIsUnlinked'
  BY DEF SupersedeFor, Inv, GlobalIsUnlinked, LinksOf
<1> QED
  BY <1>1, <1>2, <1>3, <1>4, <1>5, <1>6 DEF Inv

LEMMA LinkEntityKeepsInv ==
  ASSUME Inv, NEW t \in Text, NEW e \in Entity, LinkEntity(t, e)
  PROVE  Inv'
<1>1. TypeOK'
  BY DEF LinkEntity, Commit, Inv, TypeOK
<1>2. AbsentIsBare'
  BY DEF LinkEntity, Inv, AbsentIsBare, LinksOf
<1>3. CallInv'
  <2>1. /\ UNCHANGED <<pc, call>> /\ global' \subseteq global
        /\ \A u \in Text : status[u] # "absent" => status'[u] # "absent"
    BY DEF LinkEntity
  <2> QED
    BY <2>1, DirectKeepsCalls
<1>4. OneReplacement' /\ SupersededIsReplaced' /\ GlobalIsUnlinked'
  BY DEF LinkEntity, Inv, OneReplacement, SupersededIsReplaced, GlobalIsUnlinked, LinksOf
<1> QED
  BY <1>1, <1>2, <1>3, <1>4 DEF Inv

LEMMA RetireKeepsInv ==
  ASSUME Inv, NEW t \in Text, NEW how \in {"archived", "deleted"}, Retire(t, how)
  PROVE  Inv'
<1>1. TypeOK'
  BY DEF Retire, Commit, Inv, TypeOK
<1>2. AbsentIsBare'
  BY DEF Retire, Inv, TypeOK, AbsentIsBare, LinksOf
<1>3. CallInv'
  <2>1. /\ UNCHANGED <<pc, call>> /\ global' \subseteq global
        /\ \A u \in Text : status[u] # "absent" => status'[u] # "absent"
    BY DEF Retire, Inv, TypeOK
  <2> QED
    BY <2>1, DirectKeepsCalls
<1>4. OneReplacement' /\ SupersededIsReplaced' /\ GlobalIsUnlinked'
  BY DEF Retire, Inv, TypeOK, OneReplacement, SupersededIsReplaced, GlobalIsUnlinked, LinksOf
<1> QED
  BY <1>1, <1>2, <1>3, <1>4 DEF Inv

LEMMA StepInv == Inv /\ [Next]_vars => Inv'
<1> SUFFICES ASSUME Inv, [Next]_vars PROVE Inv'
  OBVIOUS
<1>1. CASE UNCHANGED vars
  BY <1>1 DEF Inv, TypeOK, AbsentIsBare, CallInv, OneReplacement, SupersededIsReplaced,
              GlobalIsUnlinked, LinksOf, vars, rows
<1>2. CASE Direct
  BY <1>2, SupersedeForKeepsInv, LinkEntityKeepsInv, RetireKeepsInv DEF Direct
<1>3. ASSUME NEW p \in Proc, Put(p) PROVE Inv'
  BY <1>3, ReadsKeepInv, WritePutKeepsInv DEF Put
<1> QED
  BY <1>1, <1>2, <1>3 DEF Next

(* All the invariants hold together. *)
THEOREM KnowledgeInvariant == Spec => []Inv
BY InitInv, StepInv, PTL DEF Spec

-----------------------------------------------------------------------------
(* The rows, links and edges keep their types. *)
THEOREM KnowledgeTypeCorrect == Spec => []TypeOK
<1>1. Inv => TypeOK
  BY DEF Inv
<1> QED
  BY KnowledgeInvariant, <1>1, PTL

(* Of the sessions that replace one fact in one scope, one wins. *)
THEOREM OneReplacementHolds == Spec => []OneReplacement
<1>1. Inv => OneReplacement
  BY DEF Inv
<1> QED
  BY KnowledgeInvariant, <1>1, PTL

(* What is marked superseded has the edge that says by what. *)
THEOREM SupersededIsReplacedHolds == Spec => []SupersededIsReplaced
<1>1. Inv => SupersededIsReplaced
  BY DEF Inv
<1> QED
  BY KnowledgeInvariant, <1>1, PTL

(* A fact is global or bound to entities, never both. *)
THEOREM GlobalIsUnlinkedHolds == Spec => []GlobalIsUnlinked
<1>1. Inv => GlobalIsUnlinked
  BY DEF Inv
<1> QED
  BY KnowledgeInvariant, <1>1, PTL

LEMMA SupersedeForSparesOthers ==
  ASSUME Inv, NEW old \in Text, NEW new \in Text, NEW e \in Entity,
         SupersedeFor(old, new, e), NEW f \in Entity \ {e}
  PROVE  Visible(f)' = Visible(f)
<1> SUFFICES ASSUME NEW t \in Text PROVE (t \in Visible(f))' <=> t \in Visible(f)
  BY DEF Visible
<1>1. global' = global
  BY DEF SupersedeFor
<1>2. <<t, f>> \in links' <=> <<t, f>> \in links
  BY DEF SupersedeFor
<1>3. CASE t = new
  <2>1. CASE status[new] = "active"
    BY <1>1, <1>2, <1>3, <2>1 DEF SupersedeFor, Visible, Active, Inv, TypeOK
  <2>2. CASE status[new] = "absent"
    <3>1. new \notin global /\ <<new, f>> \notin links
      BY <2>2 DEF Inv, AbsentIsBare, LinksOf
    <3> QED
      BY <1>1, <1>2, <1>3, <3>1 DEF Visible
  <2> QED
    BY <2>1, <2>2 DEF SupersedeFor
<1>4. CASE t = old
  <2>1. t \notin global /\ t # new
    BY <1>4 DEF SupersedeFor
  <2>2. CASE <<t, f>> \in links
    <3>1. <<t, f>> \in Remaining(old, e)
      BY <1>4, <2>2 DEF Remaining, LinksOf
    <3>2. status'[t] = status[t]
      BY <1>4, <2>1, <3>1 DEF SupersedeFor, Inv, TypeOK
    <3> QED
      BY <1>1, <1>2, <3>2 DEF Visible, Active
  <2>3. CASE <<t, f>> \notin links
    BY <1>1, <1>2, <2>1, <2>3 DEF Visible
  <2> QED
    BY <2>2, <2>3
<1>5. CASE t # new /\ t # old
  BY <1>1, <1>2, <1>5 DEF SupersedeFor, Visible, Active, Inv, TypeOK
<1> QED
  BY <1>3, <1>4, <1>5

(* Replacing one entity's fact changes nothing another entity sees. *)
THEOREM ScopeIsolationHolds == Spec => ScopeIsolation
<1>1. Inv /\ [Next]_vars =>
        [\A old, new \in Text, e \in Entity :
           SupersedeFor(old, new, e) =>
             \A f \in Entity \ {e} : Visible(f)' = Visible(f)]_vars
  BY SupersedeForSparesOthers
<1> QED
  BY KnowledgeInvariant, <1>1, PTL DEF Spec, ScopeIsolation

-----------------------------------------------------------------------------
(* Induction over the items of an import and of its rollback *)

(* Every set of numbers that is not empty has a least one. *)
LEMMA LeastNatural ==
  ASSUME NEW T \in SUBSET Nat, T # {}
  PROVE  \E x \in T : \A y \in T : x <= y
<1> DEFINE R == OpToRel(<, Nat)
<1>1. IsWellFoundedOn(R, Nat)
  BY NatLessThanWellFounded
<1>2. \A x, y \in Nat : <<x, y>> \in R <=> x < y
  BY DEF OpToRel
<1> HIDE DEF R
<1>3. PICK x \in T : \A y \in T : ~ (<<y, x>> \in R)
  BY <1>1, WFMin
<1>4. \A y \in T : ~ (y < x)
  BY <1>2, <1>3
<1> QED  BY <1>3, <1>4

(* What holds at 0 and at the successor of each number before N where it     *)
(* holds, holds up to N.                                                     *)
LEMMA UpTo ==
  ASSUME NEW N \in Nat, NEW T, 0 \in T,
         \A n \in Nat : n < N /\ n \in T => n + 1 \in T
  PROVE  \A n \in 0 .. N : n \in T
<1> DEFINE F == {n \in 0 .. N : n \notin T}
<1> SUFFICES ASSUME F # {} PROVE FALSE
  OBVIOUS
<1>1. F \in SUBSET Nat
  OBVIOUS
<1> HIDE DEF F
<1>2. PICK x \in F : \A y \in F : x <= y
  BY <1>1, LeastNatural
<1> USE DEF F
<1>3. x # 0 /\ x - 1 \in Nat /\ x - 1 < N /\ x - 1 + 1 = x
  BY <1>2
<1>4. x - 1 \in T
  BY <1>2, <1>3
<1> QED
  BY <1>2, <1>3, <1>4

(* The recursion of Progress has a solution, and CHOOSE takes one: by *)
(* induction on how far a solution goes.                              *)
LEMMA ProgressIs ==
  ASSUME NEW review, NEW k, Len(review.decisions) \in Nat
  PROVE  Progress(review, k) =
           [n \in 0 .. Len(review.decisions) |->
              IF n = 0 THEN Store
              ELSE ImportItem(Progress(review, k)[n - 1], review.decisions[n],
                              review.entity, k)]
<1> DEFINE N == Len(review.decisions)
           Solves(f, m) == f = [n \in 0 .. m |->
              IF n = 0 THEN Store
              ELSE ImportItem(f[n - 1], review.decisions[n], review.entity, k)]
           T == {m \in Nat : \E f : Solves(f, m)}
<1> HIDE DEF N
<1>1. 0 \in T
  <2> DEFINE f == [n \in 0 .. 0 |-> Store]
  <2>1. Solves(f, 0)
    OBVIOUS
  <2> QED
    BY <2>1
<1>2. ASSUME NEW m \in Nat, m \in T
      PROVE  m + 1 \in T
  <2>1. PICK f : Solves(f, m)
    BY <1>2
  <2> DEFINE g == [n \in 0 .. m + 1 |->
                IF n = m + 1
                THEN ImportItem(f[m], review.decisions[n], review.entity, k)
                ELSE f[n]]
  <2>2. \A n \in 0 .. m : f[n] = IF n = 0 THEN Store
              ELSE ImportItem(f[n - 1], review.decisions[n], review.entity, k)
    BY <2>1
  <2>3. ASSUME NEW n \in 0 .. m + 1
        PROVE  g[n] = IF n = 0 THEN Store
              ELSE ImportItem(g[n - 1], review.decisions[n], review.entity, k)
    <3>1. CASE n = m + 1
      <4>1. g[n - 1] = f[m]
        BY <3>1
      <4> QED
        BY <3>1, <4>1
    <3>2. CASE n \in 0 .. m /\ n # 0
      <4>1. g[n] = f[n] /\ g[n - 1] = f[n - 1]
        BY <3>2
      <4> QED
        BY <3>2, <4>1, <2>2
    <3>3. CASE n = 0
      BY <3>3, <2>2
    <3> QED
      BY <3>1, <3>2, <3>3
  <2>4. g = [n \in 0 .. m + 1 |-> g[n]]
    OBVIOUS
  <2> HIDE DEF g
  <2>5. Solves(g, m + 1)
    BY <2>3, <2>4, Zenon
  <2> QED
    BY <2>5
<1>3. N \in Nat
  BY DEF N
<1> HIDE DEF Solves
<1> HIDE DEF T
<1>4. N \in 0 .. N
  BY <1>3
<1>5. \A m \in Nat : m < N /\ m \in T => m + 1 \in T
  BY <1>2
<1>6. N \in T
  BY <1>1, <1>5, <1>3, <1>4, UpTo
<1> USE DEF Solves
<1> USE DEF T
<1>7. \E f : Solves(f, N)
  BY <1>6
<1>8. Progress(review, k) = CHOOSE f : Solves(f, N)
  BY DEF Progress, N
<1>9. Solves(Progress(review, k), N)
  BY <1>7, <1>8
<1> QED
  BY <1>9 DEF N

-----------------------------------------------------------------------------
Statuses == {"absent", "active", "superseded", "archived", "deleted"}

(* Only what replaces a text names one. *)
Coherent(d) == IF d.action = "supersede" THEN d.old \in Text ELSE d.old = NoText

Decisions == {d \in Decision : Coherent(d)}

Rows == {row \in Row : Coherent(row)}

(* The rows while batch k is applied. *)
Stores(k) ==
  [status : [Text -> Statuses], global : SUBSET Text, links : SUBSET (Text \X Entity),
   edges : SUBSET (Text \X Text \X Scope), state : [Entity -> Entry \cup {Unset, Said}],
   rules : SUBSET ((1 .. k) \X Entry), rows : Seq(Rows), deps : SUBSET ({k} \X live),
   ok : BOOLEAN]

(* ImportItem, one disjunct per outcome. *)
LEMMA ItemCases ==
  ASSUME NEW S, NEW d, NEW e, NEW k, NEW X, X = ImportItem(S, d, e, k)
  PROVE  \/ X = S /\ (S.ok => d.action = "skip")
         \/ X = Failed(S)
         \/ /\ S.ok /\ d.action # "skip" /\ Priors(d, e) # {}
            /\ \A j \in Priors(d, e) : Current(S, d, e, j)
            /\ X = [S EXCEPT !.deps = @ \cup {<<k, j>> : j \in Priors(d, e)}]
         \/ /\ S.ok /\ d.action # "skip" /\ Priors(d, e) = {} /\ ~ Refused(S, d, e)
            /\ IF d.action \in {"semantic", "supersede"} THEN X = ImportFact(S, d, e)
               ELSE X = ImportOther(S, d, e, k)
  BY Zenon DEF ImportItem

(* A fact was imported and left this row in the ledger. *)
FactDone(S, d, e, X, row) ==
  LET t == TextOf[d.entry]
      kept == IF d.action = "supersede" THEN S.links \ {<<d.old, e>>} ELSE S.links
      emptied == d.action = "supersede" /\ Emptied(d.old, kept)
      linked == NeedsLink(S, t, e, kept)
  IN
  /\ d.action \in {"semantic", "supersede"}
  /\ row.entry = d.entry /\ row.action = d.action /\ row.old = d.old
  /\ row.created = (S.status[t] = "absent")
  /\ row.reactivated = (S.status[t] = "archived")
  /\ row.linked = linked /\ row.emptied = emptied
  /\ X.rows = Append(S.rows, row)
  /\ X.status = [u \in Text |-> IF u = t THEN "active"
                                 ELSE IF emptied /\ u = d.old THEN "superseded"
                                 ELSE S.status[u]]
  /\ X.links = IF linked THEN kept \cup {<<t, e>>} ELSE kept
  /\ X.edges = IF d.action = "supersede" THEN S.edges \cup {<<d.old, t, e>>}
               ELSE S.edges
  /\ X.global = S.global /\ X.state = S.state /\ X.rules = S.rules
  /\ X.deps = S.deps /\ X.ok = S.ok

(* A state was set or a rule made. *)
OtherDone(S, d, e, k, X, row) ==
  /\ d.action \in {"state", "rule"}
  /\ row.entry = d.entry /\ row.action = d.action /\ row.old = NoText
  /\ X.rows = Append(S.rows, row)
  /\ d.action = "state" => /\ row.before = S.state[e]
                           /\ X.state = [S.state EXCEPT ![e] = d.entry]
                           /\ X.rules = S.rules
  /\ d.action = "rule" => X.state = S.state /\ X.rules = S.rules \cup {RuleId(k, d.entry)}
  /\ X.status = S.status /\ X.links = S.links /\ X.edges = S.edges
  /\ X.global = S.global /\ X.deps = S.deps /\ X.ok = S.ok

(* The decision was found imported already. *)
Repeated(S, d, e, k, X) ==
  /\ d.action # "skip" /\ Priors(d, e) # {}
  /\ \A j \in Priors(d, e) : Current(S, d, e, j)
  /\ X.deps = S.deps \cup {<<k, j>> : j \in Priors(d, e)}
  /\ X.status = S.status /\ X.links = S.links /\ X.edges = S.edges
  /\ X.global = S.global /\ X.state = S.state /\ X.rules = S.rules
  /\ X.rows = S.rows /\ X.ok = S.ok

(* ImportFact, component by component. *)
LEMMA FactIs ==
  ASSUME NEW k, NEW S \in Stores(k), NEW d \in Decisions, NEW e \in Entity,
         d.action \in {"semantic", "supersede"},
         NEW X, X = ImportFact(S, d, e)
  PROVE  \E row \in Rows : X \in Stores(k) /\ FactDone(S, d, e, X, row)
<1> DEFINE t == TextOf[d.entry]
           kept == IF d.action = "supersede" THEN S.links \ {<<d.old, e>>} ELSE S.links
           emptied == d.action = "supersede" /\ Emptied(d.old, kept)
           linked == NeedsLink(S, t, e, kept)
           row == [entry |-> d.entry, action |-> d.action, old |-> d.old,
              created |-> S.status[t] = "absent",
              reactivated |-> S.status[t] = "archived",
              linked |-> linked, emptied |-> emptied, before |-> Unset]
           st == [u \in Text |-> IF u = t THEN "active"
                                   ELSE IF emptied /\ u = d.old THEN "superseded"
                                   ELSE S.status[u]]
           li == IF linked THEN kept \cup {<<t, e>>} ELSE kept
           ed == IF d.action = "supersede" THEN S.edges \cup {<<d.old, t, e>>}
                        ELSE S.edges
<1>1. t \in Text /\ d.entry \in Entry
  BY ImportAssumption DEF Decisions, Decision
<1>2. emptied \in BOOLEAN /\ linked \in BOOLEAN
  BY DEF Emptied, NeedsLink
<1>3. row \in Rows
  <2>1. row \in Row
    BY <1>1, <1>2 DEF Row, Decisions, Decision, Action
  <2>2. Coherent(row)
    BY DEF Coherent, Decisions
  <2> QED
    BY <2>1, <2>2 DEF Rows
<1>4. S.status \in [Text -> Statuses] /\ S.links \in SUBSET (Text \X Entity)
      /\ S.edges \in SUBSET (Text \X Text \X Scope) /\ S.rows \in Seq(Rows)
  BY DEF Stores
<1>5. st \in [Text -> Statuses]
  BY <1>4 DEF Statuses
<1>6. li \in SUBSET (Text \X Entity)
  BY <1>1, <1>4
<1>7. ed \in SUBSET (Text \X Text \X Scope)
  BY <1>1, <1>4 DEF Scope, Decisions, Coherent
<1>8. Append(S.rows, row) \in Seq(Rows)
  BY <1>3, <1>4
<1>9. X = [S EXCEPT !.status = st, !.links = li, !.edges = ed, !.rows = Append(S.rows, row)]
  BY DEF ImportFact
<1> HIDE DEF st, li, ed, row, emptied, linked
<1>10. /\ X \in Stores(k)
       /\ X.rows = Append(S.rows, row) /\ X.status = st /\ X.links = li /\ X.edges = ed
       /\ X.global = S.global /\ X.state = S.state /\ X.rules = S.rules
       /\ X.deps = S.deps /\ X.ok = S.ok
  BY <1>5, <1>6, <1>7, <1>8, <1>9 DEF Stores
<1>11. /\ row.entry = d.entry /\ row.action = d.action /\ row.old = d.old
       /\ row.created = (S.status[t] = "absent")
       /\ row.reactivated = (S.status[t] = "archived")
       /\ row.linked = linked /\ row.emptied = emptied
  BY DEF row
<1> QED
  BY <1>3, <1>10, <1>11 DEF FactDone, st, li, ed, emptied, linked

(* ImportOther, component by component. *)
LEMMA OtherIs ==
  ASSUME NEW k \in Nat \ {0}, NEW S \in Stores(k), NEW d \in Decisions, NEW e \in Entity,
         d.action \in {"state", "rule"},
         NEW X, X = ImportOther(S, d, e, k)
  PROVE  \E row \in Rows : X \in Stores(k) /\ OtherDone(S, d, e, k, X, row)
<1> DEFINE row == [entry |-> d.entry, action |-> d.action, old |-> NoText,
              created |-> d.action = "rule" \/ S.state[e] = Unset,
              reactivated |-> FALSE, linked |-> d.action = "rule",
              emptied |-> FALSE,
              before |-> IF d.action = "state" THEN S.state[e] ELSE Unset]
<1>1. d.entry \in Entry /\ S.state \in [Entity -> Entry \cup {Unset, Said}]
      /\ S.rows \in Seq(Rows)
  BY DEF Decisions, Decision, Stores
<1>2. row \in Rows
  <2>1. row \in Row
    BY <1>1 DEF Row, Action
  <2>2. Coherent(row)
    BY DEF Coherent
  <2> QED
    BY <2>1, <2>2 DEF Rows
<1>3. /\ row.entry = d.entry /\ row.action = d.action /\ row.old = NoText
      /\ d.action = "state" => row.before = S.state[e]
  OBVIOUS
<1>4. X = IF d.action = "state"
          THEN [S EXCEPT !.state[e] = d.entry, !.rows = Append(@, row)]
          ELSE [S EXCEPT !.rules = @ \cup {RuleId(k, d.entry)}, !.rows = Append(@, row)]
  BY DEF ImportOther
<1> HIDE DEF row
<1>5. Append(S.rows, row) \in Seq(Rows)
  BY <1>1, <1>2
<1>6. CASE d.action = "state"
  <2>1. X = [S EXCEPT !.state = [S.state EXCEPT ![e] = d.entry],
                      !.rows = Append(S.rows, row)]
    BY <1>4, <1>6
  <2>2. [S.state EXCEPT ![e] = d.entry] \in [Entity -> Entry \cup {Unset, Said}]
    BY <1>1
  <2>3. /\ X \in Stores(k)
        /\ X.rows = Append(S.rows, row) /\ X.state = [S.state EXCEPT ![e] = d.entry]
        /\ X.status = S.status /\ X.links = S.links /\ X.edges = S.edges
        /\ X.global = S.global /\ X.deps = S.deps /\ X.ok = S.ok /\ X.rules = S.rules
    BY <1>5, <2>1, <2>2 DEF Stores
  <2> QED
    BY <1>2, <1>3, <1>6, <2>3 DEF OtherDone
<1>7. CASE d.action = "rule"
  <2>1. X = [S EXCEPT !.rules = S.rules \cup {RuleId(k, d.entry)},
                      !.rows = Append(S.rows, row)]
    BY <1>4, <1>7
  <2>2. S.rules \cup {RuleId(k, d.entry)} \in SUBSET ((1 .. k) \X Entry)
    BY <1>1 DEF Stores, RuleId
  <2>3. /\ X \in Stores(k)
        /\ X.rows = Append(S.rows, row) /\ X.rules = S.rules \cup {RuleId(k, d.entry)}
        /\ X.status = S.status /\ X.links = S.links /\ X.edges = S.edges
        /\ X.global = S.global /\ X.deps = S.deps /\ X.ok = S.ok /\ X.state = S.state
    BY <1>5, <2>1, <2>2 DEF Stores
  <2> QED
    BY <1>2, <1>3, <1>7, <2>3 DEF OtherDone
<1> QED
  BY <1>6, <1>7

(* An item keeps the types of the copy of the rows. *)
LEMMA ItemKeepsTypes ==
  ASSUME NEW k \in Nat \ {0}, NEW S \in Stores(k), NEW d \in Decisions, NEW e \in Entity
  PROVE  ImportItem(S, d, e, k) \in Stores(k)
<1> DEFINE X == ImportItem(S, d, e, k)
<1>1. CASE X = S
  BY <1>1
<1>2. CASE X = Failed(S)
  BY <1>2 DEF Failed, Stores
<1>3. CASE X = [S EXCEPT !.deps = @ \cup {<<k, j>> : j \in Priors(d, e)}]
  <2>1. S.deps \cup {<<k, j>> : j \in Priors(d, e)} \in SUBSET ({k} \X live)
    BY DEF Stores, Priors
  <2> QED
    BY <1>3, <2>1 DEF Stores
<1>4. CASE d.action \in {"semantic", "supersede"} /\ X = ImportFact(S, d, e)
  <2> HIDE DEF X
  <2>1. X \in Stores(k)
    BY <1>4, FactIs, Zenon
  <2> QED
    BY <2>1 DEF X
<1>5. CASE d.action \in {"state", "rule"} /\ X = ImportOther(S, d, e, k)
  BY <1>5, OtherIs
<1>6. d.action \in {"skip", "semantic", "supersede", "state", "rule"}
  BY DEF Decisions, Decision, Action
<1> HIDE DEF X
<1> QED
  BY <1>1, <1>2, <1>3, <1>4, <1>5, <1>6, ItemCases DEF X

(* What an item does that does not fail. *)
LEMMA ItemIs ==
  ASSUME NEW k \in Nat \ {0}, NEW S \in Stores(k), NEW d \in Decisions, NEW e \in Entity,
         S.ok = TRUE, NEW X, X = ImportItem(S, d, e, k), X.ok = TRUE
  PROVE  \/ X = S /\ d.action = "skip"
         \/ Repeated(S, d, e, k, X)
         \/ /\ Priors(d, e) = {} /\ ~ Refused(S, d, e)
            /\ \E row \in Rows : FactDone(S, d, e, X, row) \/ OtherDone(S, d, e, k, X, row)
<1>1. CASE X = S /\ (S.ok => d.action = "skip")
  BY <1>1
<1>2. CASE X = Failed(S)
  BY <1>2 DEF Failed, Stores
<1>3. CASE /\ d.action # "skip" /\ Priors(d, e) # {}
           /\ \A j \in Priors(d, e) : Current(S, d, e, j)
           /\ X = [S EXCEPT !.deps = @ \cup {<<k, j>> : j \in Priors(d, e)}]
  <2> DEFINE more == S.deps \cup {<<k, j>> : j \in Priors(d, e)}
  <2>1. X = [S EXCEPT !.deps = more]
    BY <1>3
  <2> HIDE DEF more
  <2>2. /\ X.deps = more
        /\ X.status = S.status /\ X.links = S.links /\ X.edges = S.edges
        /\ X.global = S.global /\ X.state = S.state /\ X.rules = S.rules
        /\ X.rows = S.rows /\ X.ok = S.ok
    BY <2>1 DEF Stores
  <2>3. Repeated(S, d, e, k, X)
    BY <1>3, <2>2, Zenon DEF Repeated, more
  <2> QED
    BY <2>3
<1>4. CASE /\ Priors(d, e) = {} /\ ~ Refused(S, d, e)
           /\ d.action \in {"semantic", "supersede"} /\ X = ImportFact(S, d, e)
  <2>1. \E row \in Rows : X \in Stores(k) /\ FactDone(S, d, e, X, row)
    BY <1>4, FactIs, Zenon
  <2> QED
    BY <1>4, <2>1
<1>5. CASE /\ Priors(d, e) = {} /\ ~ Refused(S, d, e)
           /\ d.action \in {"state", "rule"} /\ X = ImportOther(S, d, e, k)
  <2>1. \E row \in Rows : X \in Stores(k) /\ OtherDone(S, d, e, k, X, row)
    BY <1>5, OtherIs, Zenon
  <2> QED
    BY <1>5, <2>1
<1>6. d.action \in {"skip", "semantic", "supersede", "state", "rule"}
  BY DEF Decisions, Decision, Action
<1> QED
  BY <1>1, <1>2, <1>3, <1>4, <1>5, <1>6, ItemCases

-----------------------------------------------------------------------------
Reviews == [version : Version, entity : Entity, revision : Nat,
            decisions : Seq(Decisions)]

Sights == [seen : SUBSET Text, state : Entry \cup {Unset, Said}]

Batches == [review : Reviews, status : {"applied", "rolled_back"}, after : Nat,
            rows : Seq(Rows), was : [Entity -> Sights]]

Applying == [at : {"apply"}, review : Reviews]

RollingBack == [at : {"rollback"}, by : {"batch", "review"}, batch : DOMAIN batches]

(* The types, stronger than ImportTypeOK says them: what replaces a text *)
(* names one, and a batch is known by its number.                        *)
TypesInv ==
  /\ TypeOK
  /\ file \in [Source -> Version]
  /\ clock \in Nat /\ revision \in 0 .. clock
  /\ state \in [Entity -> Entry \cup {Unset, Said}]
  /\ batches \in Seq(Batches)
  /\ \A k \in DOMAIN batches : batches[k].review.revision <= clock
  /\ rules \subseteq (DOMAIN batches) \X Entry
  /\ live \subseteq DOMAIN batches
  /\ deps \subseteq (DOMAIN batches) \X (DOMAIN batches)
  /\ job \in [Session -> Applying \cup RollingBack \cup {NoJob}]

LEMMA StoreTypes ==
  ASSUME TypesInv, NEW k \in Nat, Len(batches) <= k
  PROVE  Store \in Stores(k)
<1>1. DOMAIN batches \subseteq 1 .. k
  BY DEF TypesInv
<1>2. rules \subseteq (1 .. k) \X Entry
  BY <1>1 DEF TypesInv
<1>3. << >> \in Seq(Rows)
  BY EmptySeq
<1> QED
  BY <1>2, <1>3 DEF TypesInv, TypeOK, Store, Stores, Statuses

(* Every copy of the rows on the way of an import has the types of rows. *)
LEMMA ProgressTypes ==
  ASSUME TypesInv, NEW review \in Reviews, NEW k, k = Len(batches) + 1
  PROVE  \A n \in 0 .. Len(review.decisions) : Progress(review, k)[n] \in Stores(k)
<1> DEFINE N == Len(review.decisions)
           P == Progress(review, k)
           T == {n \in Nat : n <= N => P[n] \in Stores(k)}
<1>1. review.decisions \in Seq(Decisions) /\ review.entity \in Entity /\ N \in Nat
  BY DEF Reviews
<1>2. k \in Nat \ {0} /\ Len(batches) <= k
  BY DEF TypesInv
<1> HIDE DEF N, P
<1>3. \A n \in 0 .. N : P[n] = IF n = 0 THEN Store
        ELSE ImportItem(P[n - 1], review.decisions[n], review.entity, k)
  BY <1>1, ProgressIs DEF N, P
<1>4. 0 \in T
  BY <1>1, <1>2, <1>3, StoreTypes
<1>5. ASSUME NEW n \in Nat, n < N, n \in T
      PROVE  n + 1 \in T
  <2>1. P[n] \in Stores(k)
    BY <1>5, <1>1
  <2>2. review.decisions[n + 1] \in Decisions
    BY <1>1, <1>5 DEF N
  <2>3. P[n + 1] = ImportItem(P[n], review.decisions[n + 1], review.entity, k)
    BY <1>1, <1>3, <1>5
  <2>4. P[n + 1] \in Stores(k)
    BY <1>1, <1>2, <2>1, <2>2, <2>3, ItemKeepsTypes
  <2> QED
    BY <2>4
<1> HIDE DEF T
<1>6. \A n \in 0 .. N : n \in T
  BY <1>1, <1>4, <1>5, UpTo
<1> QED
  BY <1>1, <1>6 DEF T, N, P

(* The same of Retreat. *)
LEMMA RetreatIs ==
  ASSUME NEW k, Len(batches[k].rows) \in Nat
  PROVE  Retreat(k) =
           [n \in 0 .. Len(batches[k].rows) |->
              IF n = 0 THEN Store
              ELSE Undo(Retreat(k)[n - 1],
                        batches[k].rows[Len(batches[k].rows) + 1 - n],
                        batches[k].review.entity, k)]
<1> DEFINE N == Len(batches[k].rows)
           RowAt(n) == batches[k].rows[N + 1 - n]
           Solves(f, m) == f = [n \in 0 .. m |->
              IF n = 0 THEN Store
              ELSE Undo(f[n - 1], RowAt(n), batches[k].review.entity, k)]
           T == {m \in Nat : \E f : Solves(f, m)}
<1> HIDE DEF N, RowAt
<1>1. 0 \in T
  <2> DEFINE f == [n \in 0 .. 0 |-> Store]
  <2>1. Solves(f, 0)
    OBVIOUS
  <2> QED
    BY <2>1
<1>2. ASSUME NEW m \in Nat, m \in T
      PROVE  m + 1 \in T
  <2>1. PICK f : Solves(f, m)
    BY <1>2
  <2> DEFINE g == [n \in 0 .. m + 1 |->
                IF n = m + 1
                THEN Undo(f[m], RowAt(n), batches[k].review.entity, k)
                ELSE f[n]]
  <2>2. \A n \in 0 .. m : f[n] = IF n = 0 THEN Store
              ELSE Undo(f[n - 1], RowAt(n), batches[k].review.entity, k)
    BY <2>1
  <2>3. ASSUME NEW n \in 0 .. m + 1
        PROVE  g[n] = IF n = 0 THEN Store
              ELSE Undo(g[n - 1], RowAt(n), batches[k].review.entity, k)
    <3>1. CASE n = m + 1
      <4>1. g[n - 1] = f[m]
        BY <3>1
      <4> QED
        BY <3>1, <4>1
    <3>2. CASE n \in 0 .. m /\ n # 0
      <4>1. g[n] = f[n] /\ g[n - 1] = f[n - 1]
        BY <3>2
      <4> QED
        BY <3>2, <4>1, <2>2
    <3>3. CASE n = 0
      BY <3>3, <2>2
    <3> QED
      BY <3>1, <3>2, <3>3
  <2>4. g = [n \in 0 .. m + 1 |-> g[n]]
    OBVIOUS
  <2> HIDE DEF g
  <2>5. Solves(g, m + 1)
    BY <2>3, <2>4, Zenon
  <2> QED
    BY <2>5
<1>3. N \in Nat
  BY DEF N
<1> HIDE DEF Solves
<1> HIDE DEF T
<1>4. N \in 0 .. N
  BY <1>3
<1>5. \A m \in Nat : m < N /\ m \in T => m + 1 \in T
  BY <1>2
<1>6. N \in T
  BY <1>1, <1>3, <1>4, <1>5, UpTo
<1> USE DEF Solves
<1> USE DEF T
<1>7. \E f : Solves(f, N)
  BY <1>6
<1>8. Retreat(k) = CHOOSE f : Solves(f, N)
  BY DEF Retreat, N, RowAt
<1>9. Solves(Retreat(k), N)
  BY <1>7, <1>8
<1> QED
  BY <1>9 DEF N, RowAt

IsFact(row) == row.action \in {"semantic", "supersede"}

(* What the undo of one row makes of each table. *)
StatusBefore(x, row) ==
  IF IsFact(row)
  THEN [u \in Text |->
          IF u = TextOf[row.entry] /\ (row.created \/ row.reactivated) THEN "archived"
          ELSE IF u = row.old /\ row.emptied THEN "active"
          ELSE x.status[u]]
  ELSE x.status

LinksBefore(x, row, e) ==
  IF IsFact(row)
  THEN (IF row.linked THEN x.links \ {<<TextOf[row.entry], e>>} ELSE x.links)
       \cup (IF row.action = "supersede" THEN {<<row.old, e>>} ELSE {})
  ELSE x.links

StateBefore(x, row, e) ==
  IF row.action = "state" THEN [x.state EXCEPT ![e] = row.before] ELSE x.state

(* A row of the ledger was undone. *)
UndoDone(S, row, e, k, X) ==
  /\ X.status = StatusBefore(S, row) /\ X.links = LinksBefore(S, row, e)
  /\ X.state = StateBefore(S, row, e) /\ X.global = S.global
  /\ X.rules = IF row.action = "rule" THEN S.rules \ {RuleId(k, row.entry)} ELSE S.rules

(* Undo, component by component. *)
LEMMA UndoIs ==
  ASSUME NEW m, NEW S \in Stores(m), NEW row \in Rows, NEW e \in Entity, NEW k,
         NEW X, X = Undo(S, row, e, k)
  PROVE  X \in Stores(m) /\ UndoDone(S, row, e, k, X)
<1> DEFINE t == TextOf[row.entry]
<1>1. row.action \in Action /\ row.entry \in Entry /\ t \in Text
      /\ row.before \in Entry \cup {Unset, Said}
  BY ImportAssumption DEF Rows, Row
<1>2. CASE row.action = "state"
  <2>1. X = [S EXCEPT !.state = [S.state EXCEPT ![e] = row.before]]
    BY <1>2 DEF Undo
  <2>2. [S.state EXCEPT ![e] = row.before] \in [Entity -> Entry \cup {Unset, Said}]
    BY <1>1 DEF Stores
  <2> QED
    BY <1>2, <2>1, <2>2 DEF Stores, UndoDone, StatusBefore, LinksBefore, StateBefore, IsFact
<1>3. CASE row.action = "rule"
  <2>1. X = [S EXCEPT !.rules = S.rules \ {RuleId(k, row.entry)}]
    BY <1>3 DEF Undo
  <2> QED
    BY <1>3, <2>1 DEF Stores, UndoDone, StatusBefore, LinksBefore, StateBefore, IsFact
<1>4. CASE row.action \in {"semantic", "supersede"}
  <2> DEFINE st == [u \in Text |->
                        IF u = t /\ (row.created \/ row.reactivated) THEN "archived"
                        ELSE IF u = row.old /\ row.emptied THEN "active"
                        ELSE S.status[u]]
             li == (IF row.linked THEN S.links \ {<<t, e>>} ELSE S.links)
                    \cup (IF row.action = "supersede" THEN {<<row.old, e>>} ELSE {})
             ed == IF row.action = "supersede" THEN S.edges \ {<<row.old, t, e>>}
                   ELSE S.edges
  <2>1. X = [S EXCEPT !.status = st, !.links = li, !.edges = ed]
    BY <1>4 DEF Undo
  <2>2. st \in [Text -> Statuses]
    BY DEF Stores, Statuses
  <2>3. row.action = "supersede" => row.old \in Text
    BY DEF Rows, Coherent
  <2>4. li \in SUBSET (Text \X Entity)
    BY <1>1, <2>3 DEF Stores
  <2>5. ed \in SUBSET (Text \X Text \X Scope)
    BY DEF Stores
  <2> HIDE DEF st, li, ed
  <2>6. /\ X \in Stores(m)
        /\ X.status = st /\ X.links = li /\ X.state = S.state /\ X.rules = S.rules
        /\ X.global = S.global /\ X.rows = S.rows /\ X.deps = S.deps /\ X.ok = S.ok
    BY <2>1, <2>2, <2>4, <2>5 DEF Stores
  <2> QED
    BY <1>4, <2>6 DEF st, li, UndoDone, StatusBefore, LinksBefore, StateBefore, IsFact
<1> QED
  BY <1>1, <1>2, <1>3, <1>4 DEF Action

LEMMA UndoKeepsTypes ==
  ASSUME NEW m, NEW S \in Stores(m), NEW row \in Rows, NEW e \in Entity, NEW k
  PROVE  Undo(S, row, e, k) \in Stores(m)
<1>1. PICK X : X = Undo(S, row, e, k)
  OBVIOUS
<1>2. X \in Stores(m)
  BY <1>1, UndoIs
<1> QED
  BY <1>1, <1>2

(* Every copy of the rows on the way of a rollback has the types of rows. *)
LEMMA RetreatTypes ==
  ASSUME TypesInv, NEW k \in DOMAIN batches
  PROVE  \A n \in 0 .. Len(batches[k].rows) : Retreat(k)[n] \in Stores(Len(batches))
<1> DEFINE undone == batches[k].rows
           e == batches[k].review.entity
           N == Len(undone)
           R == Retreat(k)
           T == {n \in Nat : n <= N => R[n] \in Stores(Len(batches))}
<1>1. batches[k] \in Batches /\ Len(batches) \in Nat
  BY DEF TypesInv
<1>2. undone \in Seq(Rows) /\ e \in Entity
  BY <1>1 DEF Batches, Reviews
<1>3. N \in Nat
  BY <1>2
<1> HIDE DEF undone, e, R, N
<1>4. \A n \in 0 .. N : R[n] = IF n = 0 THEN Store ELSE Undo(R[n - 1], undone[N + 1 - n], e, k)
  BY <1>3, RetreatIs DEF undone, e, R, N
<1>5. 0 \in T
  BY <1>1, <1>3, <1>4, StoreTypes
<1>6. ASSUME NEW n \in Nat, n < N, n \in T
      PROVE  n + 1 \in T
  <2>1. R[n] \in Stores(Len(batches))
    BY <1>3, <1>6
  <2>2. N - n \in 1 .. N /\ N + 1 - (n + 1) = N - n /\ n + 1 \in 0 .. N /\ n + 1 - 1 = n
    BY <1>3, <1>6
  <2>3. undone[N - n] \in Rows
    BY <1>2, <2>2 DEF N
  <2>4. R[n + 1] = Undo(R[n], undone[N - n], e, k)
    BY <1>4, <2>2
  <2> DEFINE row == undone[N - n]
  <2> HIDE DEF row
  <2>5. row \in Rows /\ R[n + 1] = Undo(R[n], row, e, k)
    BY <2>3, <2>4 DEF row
  <2>6. R[n + 1] \in Stores(Len(batches))
    BY <1>2, <2>1, <2>5, UndoKeepsTypes
  <2> QED
    BY <2>6
<1> HIDE DEF T
<1>7. \A n \in 0 .. N : n \in T
  BY <1>3, <1>5, <1>6, UpTo
<1> QED
  BY <1>3, <1>7 DEF T, N, R, undone

-----------------------------------------------------------------------------
LEMMA InitTypes == ImportInit => TypesInv
<1> SUFFICES ASSUME ImportInit PROVE TypesInv
  OBVIOUS
<1>1. TypeOK
  BY ImportAssumption DEF ImportInit, TypeOK
<1>2. << >> \in Seq(Batches)
  BY EmptySeq
<1>3. batches \in Seq(Batches) /\ DOMAIN batches = {}
  BY <1>2 DEF ImportInit
<1>4. job \in [Session -> Applying \cup RollingBack \cup {NoJob}]
  BY DEF ImportInit
<1> QED
  BY <1>1, <1>3, <1>4 DEF ImportInit, TypesInv

LEMMA DirectTypes ==
  ASSUME TypeOK, Direct
  PROVE  TypeOK'
<1>1. CASE \E old, new \in Text, e \in Entity : SupersedeFor(old, new, e)
  BY <1>1 DEF SupersedeFor, Commit, Recorded, Scope, TypeOK
<1>2. CASE \E t \in Text, e \in Entity : LinkEntity(t, e)
  BY <1>2 DEF LinkEntity, Commit, TypeOK
<1>3. CASE \E t \in Text, how \in {"archived", "deleted"} : Retire(t, how)
  BY <1>3 DEF Retire, Commit, TypeOK
<1> QED
  BY <1>1, <1>2, <1>3 DEF Direct

LEMMA OptionTypes ==
  ASSUME NEW entry \in Entry, NEW e, NEW d \in Options(entry, e)
  PROVE  d \in Decisions
<1>1. Kinds[entry] \subseteq Action
  BY ImportAssumption
<1>2. CASE d = [entry |-> entry, action |-> "skip", old |-> NoText]
  BY <1>2 DEF Decisions, Decision, Coherent
<1>3. CASE d \in {[entry |-> entry, action |-> a, old |-> NoText] : a \in Kinds[entry] \ {"supersede"}}
  <2>1. PICK a \in Kinds[entry] \ {"supersede"} :
          d = [entry |-> entry, action |-> a, old |-> NoText]
    BY <1>3
  <2> QED
    BY <1>1, <2>1 DEF Decisions, Decision, Coherent
<1>4. CASE d \in {[entry |-> entry, action |-> "supersede", old |-> old] :
          old \in {t \in Text : /\ "supersede" \in Kinds[entry]
                                /\ Active(t) /\ t \notin global /\ <<t, e>> \in links}}
  <2>1. PICK old \in Text : d = [entry |-> entry, action |-> "supersede", old |-> old]
    BY <1>4
  <2> QED
    BY <2>1 DEF Decisions, Decision, Coherent, Action
<1> QED
  BY <1>2, <1>3, <1>4 DEF Options

(* A review names one decision per entry of its version. *)
LEMMA NewReviewTypes ==
  ASSUME TypesInv, NEW review \in NewReviews
  PROVE  review \in Reviews
<1>1. PICK s \in Source, e \in Entity :
        \E ds \in [DOMAIN Items[file[s]] ->
                    UNION {Options(Items[file[s]][n], e) : n \in DOMAIN Items[file[s]]}] :
          /\ review = [version |-> file[s], entity |-> e, revision |-> revision,
                       decisions |-> ds]
  BY DEF NewReviews
<1> DEFINE v == file[s]
           items == Items[v]
<1>2. v \in Version /\ items \in Seq(Entry) /\ revision \in Nat
  BY ImportAssumption DEF TypesInv
<1> HIDE DEF v, items
<1>3. PICK ds \in [DOMAIN items -> UNION {Options(items[n], e) : n \in DOMAIN items}] :
        review = [version |-> v, entity |-> e, revision |-> revision, decisions |-> ds]
  BY <1>1 DEF v, items
<1>4. Len(items) \in Nat /\ DOMAIN items = 1 .. Len(items)
  BY <1>2
<1>5. ASSUME NEW n \in DOMAIN items
      PROVE  ds[n] \in Decisions
  <2>1. PICK m \in DOMAIN items : ds[n] \in Options(items[m], e)
    BY <1>3
  <2>2. items[m] \in Entry
    BY <1>2, <2>1
  <2> QED
    BY <2>1, <2>2, OptionTypes
<1>6. ds \in [1 .. Len(items) -> Decisions]
  BY <1>3, <1>4, <1>5
<1>7. ds \in Seq(Decisions)
  BY <1>4, <1>6, SeqDef
<1> QED
  BY <1>2, <1>3, <1>7 DEF Reviews

LEMMA StartApplyTypes ==
  ASSUME TypesInv, NEW p \in Session,
         NEW review \in NewReviews \cup {batches[k].review : k \in DOMAIN batches},
         StartApply(p, review)
  PROVE  TypesInv'
<1>1. review \in Reviews
  <2>1. CASE review \in NewReviews
    BY <2>1, NewReviewTypes
  <2>2. CASE \E k \in DOMAIN batches : review = batches[k].review
    <3>1. PICK k \in DOMAIN batches : review = batches[k].review
      BY <2>2
    <3>2. batches[k] \in Batches
      BY DEF TypesInv
    <3> QED
      BY <3>1, <3>2 DEF Batches
  <2> QED
    BY <2>1, <2>2
<1>2. [at |-> "apply", review |-> review] \in Applying
  BY <1>1 DEF Applying
<1>3. job' \in [Session -> Applying \cup RollingBack \cup {NoJob}]
  BY <1>2 DEF StartApply, TypesInv
<1>4. UNCHANGED <<vars, file, imports>>
  BY DEF StartApply
<1>5. RollingBack' = RollingBack
  BY <1>4 DEF RollingBack, imports
<1> QED
  BY <1>3, <1>4, <1>5 DEF TypesInv, TypeOK, vars, rows, imports

LEMMA StartRollbackTypes ==
  ASSUME TypesInv, NEW p \in Session, NEW k \in DOMAIN batches,
         NEW by \in {"batch", "review"}, StartRollback(p, k, by)
  PROVE  TypesInv'
<1>1. [at |-> "rollback", by |-> by, batch |-> k] \in RollingBack
  BY DEF RollingBack
<1>2. job' \in [Session -> Applying \cup RollingBack \cup {NoJob}]
  BY <1>1 DEF StartRollback, TypesInv
<1>3. UNCHANGED <<vars, file, imports>>
  BY DEF StartRollback
<1>4. RollingBack' = RollingBack
  BY <1>3 DEF RollingBack, imports
<1> QED
  BY <1>2, <1>3, <1>4 DEF TypesInv, TypeOK, vars, rows, imports

(* A session gives up. *)
LEMMA QuitTypes ==
  ASSUME TypesInv, NEW p \in Session, job' = [job EXCEPT ![p] = NoJob],
         UNCHANGED <<vars, file, imports>>
  PROVE  TypesInv'
<1>1. job' \in [Session -> Applying \cup RollingBack \cup {NoJob}]
  BY DEF TypesInv
<1>2. RollingBack' = RollingBack
  BY DEF RollingBack, imports
<1> QED
  BY <1>1, <1>2 DEF TypesInv, TypeOK, vars, rows, imports

LEMMA SightTypes ==
  ASSUME TypesInv, NEW e \in Entity
  PROVE  What(e) \in Sights
  BY DEF What, Sights, Visible, TypesInv

(* The commit of an import keeps the types. *)
LEMMA CommitApplyTypes ==
  ASSUME TypesInv, NEW p \in Session, CommitApply(p)
  PROVE  TypesInv'
<1> DEFINE review == job[p].review
           k == Len(batches) + 1
           S == Import(review, k)
           batch == [review |-> review, status |-> "applied", after |-> revision',
                     rows |-> S.rows, was |-> [e \in Entity |-> What(e)]]
<1>1. review \in Reviews
  <2>1. job[p] \in Applying
    BY DEF CommitApply, Holding, TypesInv, RollingBack
  <2> QED
    BY <2>1 DEF Applying
<1>2. k \in Nat /\ Len(batches) \in Nat /\ DOMAIN batches = 1 .. Len(batches)
  BY DEF TypesInv
<1>3. S \in Stores(k)
  <2>1. Len(review.decisions) \in Nat
    BY <1>1 DEF Reviews
  <2>2. \A n \in 0 .. Len(review.decisions) : Progress(review, k)[n] \in Stores(k)
    BY <1>1, ProgressTypes
  <2> QED
    BY <2>1, <2>2 DEF Import
<1>4. /\ SetRows(S)
      /\ IF \A n \in DOMAIN S.rows : Inert(S.rows[n]) THEN Still ELSE Touch
      /\ batches' = Append(batches, batch)
      /\ live' = live \cup {k}
      /\ deps' = deps \cup S.deps
      /\ job' = [job EXCEPT ![p] = NoJob]
      /\ UNCHANGED <<pc, call, writes, file>>
      /\ review.revision = revision
  BY DEF CommitApply, Commits
<1>5. clock' \in Nat /\ revision' \in 0 .. clock' /\ clock <= clock'
  <2>1. Still \/ Touch
    BY <1>4
  <2> QED
    BY <2>1 DEF Still, Touch, TypesInv
<1>6. batch \in Batches
  BY <1>1, <1>3, <1>5, SightTypes DEF Batches, Stores
<1>7. batch.review = review
  OBVIOUS
<1> HIDE DEF batch, S, k, review
<1>8. batches' \in Seq(Batches) /\ DOMAIN batches' = 1 .. k
  BY <1>2, <1>4, <1>6 DEF TypesInv, k
<1>9. \A i \in DOMAIN batches' : batches'[i].review.revision <= clock'
  <2> SUFFICES ASSUME NEW i \in 1 .. k
               PROVE  batches'[i].review.revision <= clock'
    BY <1>8
  <2>1. CASE i = k
    <3>1. batches'[i] = batch
      BY <1>2, <1>4, <2>1 DEF TypesInv, k
    <3> QED
      BY <3>1, <1>4, <1>5, <1>7 DEF TypesInv
  <2>2. CASE i \in DOMAIN batches
    <3>1. batches'[i] = batches[i] /\ batches[i] \in Batches
      BY <1>2, <1>4, <2>2 DEF TypesInv, k
    <3> QED
      BY <3>1, <2>2, <1>5 DEF TypesInv, Batches, Reviews
  <2> QED
    BY <1>2, <2>1, <2>2 DEF k
<1>10. DOMAIN batches \subseteq DOMAIN batches' /\ k \in DOMAIN batches'
  BY <1>2, <1>8 DEF k
<1>11. TypeOK' /\ state' \in [Entity -> Entry \cup {Unset, Said}]
  BY <1>3, <1>4 DEF SetRows, Stores, Statuses, TypesInv, TypeOK
<1>12. rules' \subseteq (DOMAIN batches') \X Entry
  BY <1>3, <1>4, <1>8 DEF SetRows, Stores
<1>13. live' \subseteq DOMAIN batches'
  BY <1>4, <1>10 DEF TypesInv
<1>14. deps' \subseteq (DOMAIN batches') \X (DOMAIN batches')
  <2>1. S.deps \subseteq {k} \X live
    BY <1>3 DEF Stores
  <2>2. deps \subseteq (DOMAIN batches) \X (DOMAIN batches) /\ live \subseteq DOMAIN batches
    BY DEF TypesInv
  <2> QED
    BY <1>4, <1>10, <2>1, <2>2
<1>15. job' \in [Session -> Applying \cup RollingBack' \cup {NoJob}]
  <2>1. RollingBack \subseteq RollingBack'
    BY <1>10 DEF RollingBack
  <2> QED
    BY <1>4, <2>1 DEF TypesInv
<1> QED
  BY <1>4, <1>5, <1>8, <1>9, <1>11, <1>12, <1>13, <1>14, <1>15 DEF TypesInv

(* The commit of a rollback keeps the types. *)
LEMMA CommitRollbackTypes ==
  ASSUME TypesInv, NEW p \in Session, CommitRollback(p)
  PROVE  TypesInv'
<1> DEFINE k == job[p].batch
           S == Undone(k)
<1>1. k \in DOMAIN batches
  <2>1. job[p] \in RollingBack
    BY DEF CommitRollback, Holding, TypesInv, Applying
  <2> QED
    BY <2>1 DEF RollingBack
<1>2. batches[k] \in Batches /\ Len(batches) \in Nat /\ DOMAIN batches = 1 .. Len(batches)
  BY <1>1 DEF TypesInv
<1>3. S \in Stores(Len(batches))
  <2>1. Len(batches[k].rows) \in Nat
    BY <1>2 DEF Batches
  <2>2. \A n \in 0 .. Len(batches[k].rows) : Retreat(k)[n] \in Stores(Len(batches))
    BY <1>1, RetreatTypes
  <2> QED
    BY <2>1, <2>2 DEF Undone
<1>4. /\ SetRows(S)
      /\ \/ Still \/ Touch
         \/ revision' = batches[k].review.revision /\ UNCHANGED clock
      /\ revision = batches[k].after
      /\ batches' = [batches EXCEPT ![k].status = "rolled_back"]
      /\ live' = live \ {k}
      /\ job' = [job EXCEPT ![p] = NoJob]
      /\ UNCHANGED <<pc, call, writes, deps, file>>
  BY DEF CommitRollback, RollsBack
<1>5. clock' \in Nat /\ revision' \in 0 .. clock' /\ clock <= clock'
  <2>1. batches[k].review.revision \in 0 .. clock
    BY <1>1, <1>2 DEF TypesInv, Batches, Reviews
  <2> HIDE DEF k
  <2> QED
    BY <1>4, <2>1 DEF Still, Touch, TypesInv
<1> HIDE DEF S, k
<1>6. [batches[k] EXCEPT !.status = "rolled_back"] \in Batches
  BY <1>2 DEF Batches
<1>7. batches' \in Seq(Batches) /\ DOMAIN batches' = DOMAIN batches
  BY <1>1, <1>4, <1>6 DEF TypesInv
<1>8. \A i \in DOMAIN batches' : batches'[i].review.revision <= clock'
  <2> SUFFICES ASSUME NEW i \in DOMAIN batches
               PROVE  batches'[i].review.revision <= clock'
    BY <1>7
  <2>1. batches'[i].review = batches[i].review
    BY <1>4
  <2>2. batches[i] \in Batches
    BY DEF TypesInv
  <2> QED
    BY <1>5, <2>1, <2>2 DEF TypesInv, Batches, Reviews
<1>9. TypeOK' /\ state' \in [Entity -> Entry \cup {Unset, Said}]
  BY <1>3, <1>4 DEF SetRows, Stores, Statuses, TypesInv, TypeOK
<1>10. rules' \subseteq (DOMAIN batches') \X Entry
  BY <1>2, <1>3, <1>4, <1>7 DEF SetRows, Stores
<1>11. job' \in [Session -> Applying \cup RollingBack' \cup {NoJob}]
  <2>1. RollingBack = RollingBack'
    BY <1>7 DEF RollingBack
  <2> QED
    BY <1>4, <2>1 DEF TypesInv
<1> QED
  BY <1>4, <1>5, <1>7, <1>8, <1>9, <1>10, <1>11 DEF TypesInv

LEMMA LaterRevisions ==
  ASSUME TypesInv, clock' = clock + 1, NEW k \in DOMAIN batches
  PROVE  batches[k].review.revision <= clock'
<1>1. batches[k] \in Batches
  BY DEF TypesInv
<1>2. batches[k].review.revision \in Nat
  BY <1>1 DEF Batches, Reviews
<1> QED
  BY <1>2 DEF TypesInv

LEMMA OtherTypes ==
  ASSUME TypesInv, Others
  PROVE  TypesInv'
<1>1. CASE \E s \in Source, v \in Version : EditFile(s, v)
  <2>1. file' \in [Source -> Version] /\ UNCHANGED <<vars, imports, job>>
    BY <1>1 DEF EditFile, TypesInv
  <2>2. RollingBack' = RollingBack
    BY <2>1 DEF RollingBack, imports
  <2> QED
    BY <2>1, <2>2 DEF TypesInv, TypeOK, vars, rows, imports
<1>2. CASE OtherDirect
  <2>1. TypeOK'
    BY <1>2, DirectTypes DEF OtherDirect, TypesInv
  <2>2. clock' = clock + 1 /\ revision' = clock' /\ Elsewhere
    BY <1>2 DEF OtherDirect, Touch
  <2>3. RollingBack' = RollingBack
    BY <2>2 DEF RollingBack, Elsewhere
  <2>4. \A k \in DOMAIN batches : batches[k].review.revision <= clock'
    BY <2>2, LaterRevisions
  <2>5. clock' \in Nat /\ revision' \in 0 .. clock'
    BY <2>2 DEF TypesInv
  <2> QED
    BY <2>1, <2>2, <2>3, <2>4, <2>5 DEF TypesInv, Elsewhere
<1>3. CASE \E e \in Entity : SetState(e)
  <2>1. PICK e \in Entity : SetState(e)
    BY <1>3
  <2>2. TypeOK'
    BY <2>1 DEF SetState, Commit, TypesInv, TypeOK, rows
  <2>3. clock' = clock + 1 /\ revision' = clock'
        /\ UNCHANGED <<rows, pc, call, file, rules, batches, live, deps, job>>
    BY <2>1 DEF SetState, Touch
  <2>4. state' \in [Entity -> Entry \cup {Unset, Said}]
    BY <2>1 DEF SetState, TypesInv
  <2>5. RollingBack' = RollingBack
    BY <2>3 DEF RollingBack
  <2>6. \A k \in DOMAIN batches : batches[k].review.revision <= clock'
    BY <2>3, LaterRevisions
  <2>7. clock' \in Nat /\ revision' \in 0 .. clock'
    BY <2>3 DEF TypesInv
  <2> QED
    BY <2>2, <2>3, <2>4, <2>5, <2>6, <2>7 DEF TypesInv
<1> QED
  BY <1>1, <1>2, <1>3 DEF Others

(* Every step keeps the types. *)
LEMMA StepTypes == TypesInv /\ [ImportNext]_allVars => TypesInv'
<1> SUFFICES ASSUME TypesInv, [ImportNext]_allVars PROVE TypesInv'
  OBVIOUS
<1>1. CASE UNCHANGED allVars
  <2>1. UNCHANGED <<vars, file, imports, job>>
    BY <1>1 DEF allVars, importVars
  <2>2. RollingBack' = RollingBack
    BY <2>1 DEF RollingBack, imports
  <2> QED
    BY <2>1, <2>2 DEF TypesInv, TypeOK, vars, rows, imports
<1>2. CASE Others
  BY <1>2, OtherTypes
<1>3. ASSUME NEW p \in Session, Apply(p)
      PROVE  TypesInv'
  <2>1. CASE RefuseApply(p)
    BY <2>1, QuitTypes DEF RefuseApply
  <2>2. CASE CommitApply(p)
    BY <2>2, CommitApplyTypes
  <2> QED
    BY <1>3, <2>1, <2>2, StartApplyTypes DEF Apply
<1>4. ASSUME NEW p \in Session, Rollback(p)
      PROVE  TypesInv'
  <2>1. CASE RefuseRollback(p)
    BY <2>1, QuitTypes DEF RefuseRollback
  <2>2. CASE CommitRollback(p)
    BY <2>2, CommitRollbackTypes
  <2> QED
    BY <1>4, <2>1, <2>2, StartRollbackTypes DEF Rollback
<1>5. ASSUME NEW p \in Session, Crash(p)
      PROVE  TypesInv'
  BY <1>5, QuitTypes DEF Crash
<1> QED
  BY <1>1, <1>2, <1>3, <1>4, <1>5 DEF ImportNext

LEMMA TypesHold == ImportSpec => []TypesInv
BY InitTypes, StepTypes, PTL DEF ImportSpec

(* Every table and job keeps its type, through imports and rollbacks. *)
THEOREM ImportTypeCorrect == ImportSpec => []ImportTypeOK
<1>1. TypesInv => ImportTypeOK
  <2> SUFFICES ASSUME TypesInv PROVE ImportTypeOK
    OBVIOUS
  <2>1. Seq(Decisions) \subseteq Seq(Decision) /\ Seq(Rows) \subseteq Seq(Row)
    BY SeqMonotonic DEF Decisions, Rows
  <2>2. Reviews \subseteq Review
    BY <2>1 DEF Reviews, Review
  <2>3. ASSUME NEW k \in DOMAIN batches
        PROVE  /\ batches[k].review \in Review
               /\ batches[k].status \in {"applied", "rolled_back"}
               /\ batches[k].after \in Nat
               /\ batches[k].rows \in Seq(Row)
    <3>1. batches[k] \in Batches
      BY DEF TypesInv
    <3> QED
      BY <3>1, <2>1, <2>2 DEF Batches
  <2>4. Applying \cup RollingBack \subseteq Job
    <3>1. DOMAIN batches \subseteq Nat
      BY DEF TypesInv
    <3> QED
      BY <2>2, <3>1 DEF Applying, RollingBack, Job
  <2> QED
    BY <2>3, <2>4 DEF TypesInv, ImportTypeOK
<1> QED
  BY <1>1, TypesHold, PTL

-----------------------------------------------------------------------------
(* What every item of a successful import started from and led to. *)
Steps(review, k, N, P) ==
  /\ N \in Nat /\ N = Len(review.decisions) /\ Import(review, k) = P[N]
  /\ P[0] = Store
  /\ \A n \in 0 .. N : P[n] \in Stores(k) /\ P[n].ok = TRUE
  /\ \A n \in 1 .. N : /\ review.decisions[n] \in Decisions
                       /\ P[n] = ImportItem(P[n - 1], review.decisions[n], review.entity, k)

(* Of an import that succeeds no item failed. *)
LEMMA ProgressSteps ==
  ASSUME TypesInv, NEW review \in Reviews, NEW k, k = Len(batches) + 1,
         Import(review, k).ok = TRUE
  PROVE  \E N, P : Steps(review, k, N, P)
<1>1. PICK N, P : N = Len(review.decisions) /\ P = Progress(review, k)
  OBVIOUS
<1>2. review.decisions \in Seq(Decisions) /\ review.entity \in Entity /\ N \in Nat
  BY <1>1 DEF Reviews
<1>3. k \in Nat \ {0}
  BY DEF TypesInv
<1>4. \A n \in 0 .. N : P[n] = IF n = 0 THEN Store
        ELSE ImportItem(P[n - 1], review.decisions[n], review.entity, k)
  BY <1>1, <1>2, ProgressIs
<1>5. \A n \in 0 .. N : P[n] \in Stores(k)
  <2>1. \A n \in 0 .. Len(review.decisions) : Progress(review, k)[n] \in Stores(k)
    BY ProgressTypes
  <2> QED
    BY <1>1, <1>2, <2>1
<1>6. \A n \in 1 .. N : /\ review.decisions[n] \in Decisions
                        /\ P[n] = ImportItem(P[n - 1], review.decisions[n], review.entity, k)
  BY <1>1, <1>2, <1>4
<1>7. \A n \in 0 .. N : P[n].ok = TRUE
  <2> DEFINE T == {n \in Nat : n <= N => P[N - n].ok = TRUE}
  <2>1. 0 \in T
    <3>1. N - 0 = N /\ P[N].ok \in BOOLEAN
      BY <1>2, <1>5 DEF Stores
    <3>2. P[N].ok = TRUE
      BY <1>1 DEF Import
    <3> QED
      BY <3>1, <3>2
  <2>2. ASSUME NEW n \in Nat, n < N, n \in T
        PROVE  n + 1 \in T
    <3> DEFINE m == N - n
    <3>1. m \in 1 .. N /\ N - (n + 1) = m - 1 /\ m - 1 \in 0 .. N
      BY <1>2, <2>2
    <3>2. P[m].ok = TRUE
      BY <1>2, <2>2
    <3> HIDE DEF m
    <3>3. P[m - 1].ok \in BOOLEAN
      BY <1>5, <3>1 DEF Stores
    <3>4. P[m] = ImportItem(P[m - 1], review.decisions[m], review.entity, k)
      BY <1>6, <3>1
    <3>5. ~ P[m - 1].ok => P[m] = P[m - 1]
      BY <3>4 DEF ImportItem
    <3>6. P[m - 1].ok = TRUE
      BY <3>2, <3>3, <3>5
    <3> QED
      BY <3>1, <3>6
  <2> HIDE DEF T
  <2>3. \A n \in 0 .. N : n \in T
    BY <1>2, <2>1, <2>2, UpTo
  <2> USE DEF T
  <2> SUFFICES ASSUME NEW n \in 0 .. N PROVE P[n].ok = TRUE
    OBVIOUS
  <2>4. N - n \in 0 .. N /\ N - (N - n) = n
    BY <1>2
  <2> QED
    BY <2>3, <2>4
<1>8. P[0] = Store
  BY <1>2, <1>4
<1> QED
  <2>1. Import(review, k) = P[N]
    BY <1>1 DEF Import
  <2>2. Steps(review, k, N, P)
    BY <1>1, <1>2, <1>5, <1>6, <1>7, <1>8, <2>1 DEF Steps
  <2> QED
    BY <2>2

(* The commit of an import, in full. *)
LEMMA CommitApplyIs ==
  ASSUME TypesInv, NEW p \in Session, CommitApply(p)
  PROVE  \E review \in Reviews, k \in Nat \ {0} :
           LET S == Import(review, k) IN
           /\ k = Len(batches) + 1 /\ k \notin DOMAIN batches
           /\ S \in Stores(k) /\ S.ok = TRUE /\ review.revision = revision
           /\ SetRows(S) /\ live' = live \cup {k} /\ deps' = deps \cup S.deps
           /\ IF \A n \in DOMAIN S.rows : Inert(S.rows[n]) THEN Still ELSE Touch
           /\ DOMAIN batches' = DOMAIN batches \cup {k}
           /\ \A i \in DOMAIN batches : batches'[i] = batches[i]
           /\ batches'[k].review = review /\ batches'[k].status = "applied"
           /\ batches'[k].after = revision' /\ batches'[k].rows = S.rows
           /\ \A e \in Entity : batches'[k].was[e] = What(e)
<1>1. PICK review, k : review = job[p].review /\ k = Len(batches) + 1
  OBVIOUS
<1>2. review \in Reviews
  <2>1. job[p] \in Applying
    BY DEF CommitApply, Holding, TypesInv, RollingBack
  <2> QED
    BY <1>1, <2>1 DEF Applying
<1>3. k \in Nat \ {0} /\ Len(batches) \in Nat /\ DOMAIN batches = 1 .. Len(batches)
  BY <1>1 DEF TypesInv
<1>4. PICK S : S = Import(review, k)
  OBVIOUS
<1>5. S \in Stores(k)
  <2>1. Len(review.decisions) \in Nat
    BY <1>2 DEF Reviews
  <2>2. \A n \in 0 .. Len(review.decisions) : Progress(review, k)[n] \in Stores(k)
    BY <1>1, <1>2, ProgressTypes
  <2> QED
    BY <1>4, <2>1, <2>2 DEF Import
<1>6. PICK batch : batch = [review |-> review, status |-> "applied", after |-> revision',
                            rows |-> S.rows, was |-> [e \in Entity |-> What(e)]]
  OBVIOUS
<1>7. /\ SetRows(S) /\ S.ok /\ review.revision = revision
      /\ IF \A n \in DOMAIN S.rows : Inert(S.rows[n]) THEN Still ELSE Touch
      /\ batches' = Append(batches, batch)
      /\ live' = live \cup {k}
      /\ deps' = deps \cup S.deps
  BY <1>1, <1>4, <1>6, Zenon DEF CommitApply, Commits
<1>8. /\ DOMAIN batches' = DOMAIN batches \cup {k} /\ batches'[k] = batch
      /\ \A i \in DOMAIN batches : batches'[i] = batches[i]
      /\ k \notin DOMAIN batches
  BY <1>1, <1>3, <1>7 DEF TypesInv
<1>9. S.ok = TRUE
  BY <1>5, <1>7 DEF Stores
<1>10. /\ batches'[k].review = review /\ batches'[k].status = "applied"
       /\ batches'[k].after = revision' /\ batches'[k].rows = S.rows
       /\ \A e \in Entity : batches'[k].was[e] = What(e)
  BY <1>6, <1>8
<1> WITNESS review \in Reviews, k \in Nat \ {0}
<1> QED
  BY <1>1, <1>3, <1>4, <1>5, <1>7, <1>8, <1>10, <1>9

-----------------------------------------------------------------------------
(* What an import gave its entity *)

(* The decision is in effect in S. *)
Holds(S, d, e) ==
  \/ /\ d.action \in {"semantic", "supersede"} /\ S.status[TextOf[d.entry]] = "active"
     /\ TextOf[d.entry] \in S.global \/ <<TextOf[d.entry], e>> \in S.links
  \/ d.action = "state" /\ S.state[e] = d.entry
  \/ d.action = "rule" /\ \E j \in Nat : RuleId(j, d.entry) \in S.rules

(* An item that does not fail is in effect, *)
LEMMA ComesIntoEffect ==
  ASSUME TypesInv, NEW k \in Nat \ {0}, NEW S \in Stores(k), NEW d \in Decisions,
         NEW e \in Entity,
         S.ok = TRUE, NEW X, X = ImportItem(S, d, e, k), X.ok = TRUE, d.action # "skip"
  PROVE  Holds(X, d, e)
<1>1. d.entry \in Entry /\ TextOf[d.entry] \in Text
  BY ImportAssumption DEF Decisions, Decision
<1>2. CASE Repeated(S, d, e, k, X)
  <2>1. PICK j \in live : Current(S, d, e, j)
    BY <1>2 DEF Repeated, Priors
  <2>2. j \in Nat
    BY DEF TypesInv
  <2>3. X.status = S.status /\ X.links = S.links /\ X.global = S.global
        /\ X.state = S.state /\ X.rules = S.rules
    BY <1>2 DEF Repeated
  <2> QED
    BY <2>1, <2>2, <2>3, Zenon DEF Current, Holds
<1>3. ASSUME NEW row, FactDone(S, d, e, X, row)
      PROVE  Holds(X, d, e)
  BY <1>1, <1>3 DEF FactDone, Holds, NeedsLink
<1>4. ASSUME NEW row, OtherDone(S, d, e, k, X, row)
      PROVE  Holds(X, d, e)
  <2>1. S.state \in [Entity -> Entry \cup {Unset, Said}]
    BY DEF Stores
  <2> QED
    BY <1>4, <2>1 DEF OtherDone, Holds
<1> QED
  BY <1>2, <1>3, <1>4, ItemIs

(* and stays so unless a later one replaces the same text or sets the state. *)
LEMMA StaysInEffect ==
  ASSUME NEW k \in Nat \ {0}, NEW S \in Stores(k), NEW c \in Decisions,
         NEW e \in Entity,
         S.ok = TRUE, NEW X, X = ImportItem(S, c, e, k), X.ok = TRUE,
         NEW d \in Decisions, Holds(S, d, e), c.old # TextOf[d.entry],
         ~ (d.action = "state" /\ c.action = "state")
  PROVE  Holds(X, d, e)
<1>1. d.entry \in Entry /\ TextOf[d.entry] \in Text
  BY ImportAssumption DEF Decisions, Decision
<1>2. CASE X = S
  BY <1>2
<1>3. CASE Repeated(S, c, e, k, X)
  <2>1. X.status = S.status /\ X.links = S.links /\ X.global = S.global
        /\ X.state = S.state /\ X.rules = S.rules
    BY <1>3 DEF Repeated
  <2> QED
    BY <2>1, Zenon DEF Holds
<1>4. ASSUME NEW row, FactDone(S, c, e, X, row)
      PROVE  Holds(X, d, e)
  BY <1>1, <1>4 DEF FactDone, Holds
<1>5. ASSUME NEW row, OtherDone(S, c, e, k, X, row)
      PROVE  Holds(X, d, e)
  BY <1>5 DEF OtherDone, Holds
<1> QED
  BY <1>2, <1>3, <1>4, <1>5, ItemIs

LEMMA Rest ==
  ASSUME NEW N \in Nat, NEW n \in 1 .. N
  PROVE  N - n \in 0 .. N /\ n + (N - n) = N
OBVIOUS

(* A decision nobody excuses is in effect after all of them. *)
LEMMA EndsInEffect ==
  ASSUME TypesInv, NEW review \in Reviews, NEW k, k = Len(batches) + 1,
         NEW ds, ds = review.decisions, NEW e, e = review.entity,
         NEW S, S = Import(review, k), S.ok = TRUE, NEW n \in DOMAIN ds, ds[n].action # "skip",
         ~ \E m \in DOMAIN ds : ds[m].old = TextOf[ds[n].entry],
         ~ (ds[n].action = "state" /\ \E m \in DOMAIN ds : m > n /\ ds[m].action = "state")
  PROVE  Holds(S, ds[n], e)
<1>1. ds \in Seq(Decisions) /\ e \in Entity /\ k \in Nat \ {0}
  BY DEF Reviews, TypesInv
<1>2. PICK N, P :
        /\ N \in Nat /\ N = Len(ds) /\ S = P[N]
        /\ \A m \in 0 .. N : P[m] \in Stores(k) /\ P[m].ok = TRUE
        /\ \A m \in 1 .. N : ds[m] \in Decisions /\ P[m] = ImportItem(P[m - 1], ds[m], e, k)
  <2>1. Import(review, k).ok = TRUE
    OBVIOUS
  <2>2. PICK N, P : Steps(review, k, N, P)
    BY <2>1, ProgressSteps
  <2> QED
    BY <2>2 DEF Steps
<1>3. DOMAIN ds = 1 .. N /\ n \in 1 .. N /\ N \in Nat
  BY <1>1, <1>2
<1>4. PICK d \in Decisions : d = ds[n]
  BY <1>2, <1>3
<1> DEFINE T == {i \in Nat : n + i <= N => Holds(P[n + i], d, e)}
<1>5. 0 \in T
  <2>1. n - 1 \in 0 .. N /\ n \in 0 .. N /\ n + 0 = n
    BY <1>2, <1>3
  <2>2. P[n - 1] \in Stores(k) /\ P[n - 1].ok = TRUE /\ P[n].ok = TRUE
        /\ P[n] = ImportItem(P[n - 1], d, e, k)
    BY <1>2, <1>3, <1>4, <2>1
  <2>3. Holds(P[n], d, e)
    BY <1>1, <1>2, <1>4, <2>2, ComesIntoEffect
  <2> QED
    BY <2>1, <2>3
<1>6. ASSUME NEW i \in Nat, i < N, i \in T
      PROVE  i + 1 \in T
  <2> SUFFICES ASSUME n + (i + 1) <= N PROVE Holds(P[n + (i + 1)], d, e)
    OBVIOUS
  <2>1. PICK m : m = n + i
    OBVIOUS
  <2>2. m \in 0 .. N /\ m + 1 \in 1 .. N /\ m + 1 = n + (i + 1) /\ m + 1 > n
        /\ m + 1 \in 0 .. N /\ m + 1 - 1 = m
    BY <1>3, <2>1
  <2>3. Holds(P[m], d, e)
    BY <1>6, <2>1, <2>2, <1>3
  <2>4. PICK c \in Decisions : c = ds[m + 1]
    BY <1>2, <2>2
  <2>5. P[m] \in Stores(k) /\ P[m].ok = TRUE /\ P[m + 1].ok = TRUE
        /\ P[m + 1] = ImportItem(P[m], c, e, k)
    BY <1>2, <2>2, <2>4
  <2>6. c.old # TextOf[d.entry] /\ ~ (d.action = "state" /\ c.action = "state")
    BY <1>3, <1>4, <2>2, <2>4
  <2>7. PICK U, X : U = P[m] /\ X = P[m + 1]
    OBVIOUS
  <2>8. U \in Stores(k) /\ U.ok = TRUE /\ X.ok = TRUE /\ X = ImportItem(U, c, e, k)
        /\ Holds(U, d, e) /\ e \in Entity /\ k \in Nat \ {0}
    BY <1>1, <1>2, <2>3, <2>5, <2>7
  <2>9. Holds(X, d, e)
    BY <2>6, <2>8, StaysInEffect
  <2> QED
    BY <2>2, <2>7, <2>9
<1> HIDE DEF T
<1>7. \A i \in 0 .. N : i \in T
  BY <1>2, <1>5, <1>6, UpTo
<1>8. PICK i \in 0 .. N : n + i = N
  BY <1>3, Rest
<1>9. Holds(P[n + i], d, e)
  <2>1. i \in T /\ n + i <= N
    BY <1>3, <1>7, <1>8
  <2> QED
    BY <2>1 DEF T
<1> QED
  BY <1>2, <1>4, <1>8, <1>9

(* Only a commit touches the batches. *)
LEMMA StepKinds ==
  ASSUME [ImportNext]_allVars
  PROVE  \/ \E p \in Session : CommitApply(p)
         \/ \E p \in Session : CommitRollback(p)
         \/ UNCHANGED <<batches, live, deps, rules>>
<1>1. CASE UNCHANGED allVars
  BY <1>1 DEF allVars, importVars, imports
<1>2. CASE Others
  BY <1>2 DEF Others, EditFile, OtherDirect, Elsewhere, SetState, imports
<1>3. ASSUME NEW p \in Session, Apply(p) \/ Rollback(p) \/ Crash(p)
      PROVE  CommitApply(p) \/ CommitRollback(p) \/ UNCHANGED <<batches, live, deps, rules>>
  BY <1>3 DEF Apply, StartApply, RefuseApply, Rollback, StartRollback, RefuseRollback,
              Crash, imports
<1> QED
  BY <1>1, <1>2, <1>3 DEF ImportNext

(* A new batch has every decision in effect that nothing excuses. *)
LEMMA CommitTakesEffect ==
  ASSUME TypesInv, NEW p \in Session, CommitApply(p),
         NEW k \in DOMAIN batches' \ DOMAIN batches,
         NEW ds, ds = batches'[k].review.decisions, NEW n \in DOMAIN ds
  PROVE  \/ ds[n].action = "skip"
         \/ \E m \in DOMAIN ds : ds[m].old = TextOf[ds[n].entry]
         \/ ds[n].action = "state" /\ \E m \in DOMAIN ds : m > n /\ ds[m].action = "state"
         \/ Gives(k, n)'
<1> SUFFICES ASSUME ds[n].action # "skip",
                    ~ \E m \in DOMAIN ds : ds[m].old = TextOf[ds[n].entry],
                    ~ (ds[n].action = "state"
                       /\ \E m \in DOMAIN ds : m > n /\ ds[m].action = "state")
             PROVE  Gives(k, n)'
  OBVIOUS
<1>1. PICK review \in Reviews, j \in Nat \ {0} :
        LET S == Import(review, j) IN
           /\ j = Len(batches) + 1
           /\ S \in Stores(j) /\ S.ok = TRUE
           /\ SetRows(S)
           /\ DOMAIN batches' = DOMAIN batches \cup {j}
           /\ batches'[j].review = review
  BY CommitApplyIs
<1>2. k = j
  BY <1>1
<1>3. PICK S, e, d : S = Import(review, k) /\ e = review.entity /\ d = ds[n]
  OBVIOUS
<1>4. ds = review.decisions /\ e \in Entity /\ d \in Decisions
  <2>1. ds = review.decisions
    BY <1>1, <1>2
  <2>2. review.decisions \in Seq(Decisions) /\ review.entity \in Entity
    BY DEF Reviews
  <2> QED
    BY <1>3, <2>1, <2>2
<1>5. Holds(S, d, e)
  BY <1>1, <1>2, <1>3, <1>4, EndsInEffect
<1>6. /\ S.status = status' /\ S.global = global' /\ S.links = links'
      /\ S.state = state' /\ S.rules = rules' /\ S \in Stores(k)
  BY <1>1, <1>2, <1>3 DEF SetRows
<1>7. batches'[k].review.entity = e /\ batches'[k].review.decisions[n] = d
  BY <1>1, <1>2, <1>3
<1>8. d.entry \in Entry /\ TextOf[d.entry] \in Text
  BY <1>4, ImportAssumption DEF Decisions, Decision
<1>9. TypesInv'
  BY CommitApplyTypes
<1>10. ASSUME NEW i \in Nat, RuleId(i, d.entry) \in rules'
       PROVE  i \in DOMAIN batches'
  BY <1>9, <1>10 DEF TypesInv, RuleId
<1>11. \/ d.action \in {"semantic", "supersede"} /\ TextOf[d.entry] \in Visible(e)'
       \/ d.action = "state" /\ state'[e] = d.entry
       \/ d.action = "rule" /\ \E i \in DOMAIN batches' : RuleId(i, d.entry) \in rules'
  BY <1>5, <1>6, <1>8, <1>10 DEF Holds, Visible, Active
<1> QED
  BY <1>7, <1>11 DEF Gives, RuleId

(* A batch is applied with every decision of its review in effect. *)
THEOREM ImportTakesEffectHolds == ImportSpec => ImportTakesEffect
<1>1. TypesInv /\ [ImportNext]_allVars =>
       [\A k \in DOMAIN batches' \ DOMAIN batches :
         LET decided == batches'[k].review.decisions IN
         \A n \in DOMAIN decided :
         \/ decided[n].action = "skip"
         \/ \E m \in DOMAIN decided : decided[m].old = TextOf[decided[n].entry]
         \/ /\ decided[n].action = "state"
            /\ \E m \in DOMAIN decided : m > n /\ decided[m].action = "state"
         \/ Gives(k, n)']_allVars
  <2> SUFFICES ASSUME TypesInv, [ImportNext]_allVars,
                      NEW k \in DOMAIN batches' \ DOMAIN batches,
                      NEW ds, ds = batches'[k].review.decisions, NEW n \in DOMAIN ds
               PROVE  \/ ds[n].action = "skip"
                      \/ \E m \in DOMAIN ds : ds[m].old = TextOf[ds[n].entry]
                      \/ /\ ds[n].action = "state"
                         /\ \E m \in DOMAIN ds : m > n /\ ds[m].action = "state"
                      \/ Gives(k, n)'
    OBVIOUS
  <2>1. CASE \E p \in Session : CommitApply(p)
    BY <2>1, CommitTakesEffect
  <2>2. CASE \E p \in Session : CommitRollback(p)
    <3>1. DOMAIN batches' = DOMAIN batches
      BY <2>2 DEF CommitRollback
    <3> QED
      BY <3>1
  <2>3. CASE UNCHANGED <<batches, live, deps, rules>>
    BY <2>3
  <2> QED
    BY <2>1, <2>2, <2>3, StepKinds
<1> QED
  BY <1>1, TypesHold, PTL DEF ImportSpec, ImportTakesEffect

-----------------------------------------------------------------------------
(* What an undo brings back *)

(* A fact that was made goes to the archive: nobody sees it, as before. *)
Alike(one, other) == one = other \/ {one, other} \subseteq {"absent", "archived"}

(* Nobody can tell x from y. *)
Same(x, y) == /\ x.status = y.status /\ x.links = y.links
              /\ x.global = y.global /\ x.state = y.state

(* Nobody sees a difference between x and y. *)
Like(x, y) == /\ \A u \in Text : Alike(x.status[u], y.status[u])
              /\ x.links = y.links /\ x.global = y.global /\ x.state = y.state

(* To undo the row leads from y back to x. *)
Back(x, y, row, e) ==
  /\ \A u \in Text : Alike(StatusBefore(y, row)[u], x.status[u])
  /\ Exact(row) => StatusBefore(y, row) = x.status
  /\ LinksBefore(y, row, e) = x.links
  /\ y.global = x.global
  /\ StateBefore(y, row, e) = x.state
  /\ Inert(row) => Same(x, y)

(* The row a fact left leads back. *)
LEMMA FactBack ==
  ASSUME NEW k \in Nat \ {0}, NEW S \in Stores(k), NEW X \in Stores(k), NEW d \in Decisions,
         NEW e \in Entity, NEW row \in Rows, FactDone(S, d, e, X, row), ~ Refused(S, d, e)
  PROVE  Back(S, X, row, e)
<1>1. PICK t, old : t = TextOf[d.entry] /\ old = d.old
  OBVIOUS
<1>2. /\ t \in Text /\ S.status \in [Text -> Statuses] /\ S.links \subseteq Text \X Entity
      /\ S.state \in [Entity -> Entry \cup {Unset, Said}]
      /\ row.created \in BOOLEAN /\ row.reactivated \in BOOLEAN /\ row.linked \in BOOLEAN
      /\ row.emptied \in BOOLEAN
  BY <1>1, ImportAssumption DEF Decisions, Decision, Stores, Rows, Row
<1>3. /\ row.entry = d.entry /\ row.action = d.action /\ row.old = old
      /\ d.action \in {"semantic", "supersede"}
      /\ row.created = (S.status[t] = "absent")
      /\ row.reactivated = (S.status[t] = "archived")
      /\ X.global = S.global /\ X.state = S.state
  BY <1>1 DEF FactDone
<1>4. S.status[t] \in {"absent", "active", "archived"}
  BY <1>1, <1>3 DEF Refused
<1>5. d.action = "supersede" =>
        /\ S.status[old] = "active" /\ <<old, e>> \in S.links /\ old # t /\ old \in Text
  BY <1>1, <1>3 DEF Refused, Decisions, Coherent
<1>6. d.action = "semantic" => old \notin Text
  BY <1>1, KnowledgeAssumption DEF Decisions, Coherent
<1>7. row.emptied => d.action = "supersede"
  BY DEF FactDone
<1>8. X.status = [u \in Text |-> IF u = t THEN "active"
                                 ELSE IF row.emptied /\ u = old THEN "superseded"
                                 ELSE S.status[u]]
  BY <1>1 DEF FactDone
<1>9. StatusBefore(X, row) =
        [u \in Text |-> IF u = t /\ (row.created \/ row.reactivated) THEN "archived"
                        ELSE IF u = old /\ row.emptied THEN "active"
                        ELSE X.status[u]]
  BY <1>1, <1>3 DEF StatusBefore, IsFact
<1>10. ASSUME NEW u \in Text
       PROVE  /\ Alike(StatusBefore(X, row)[u], S.status[u])
              /\ ~ row.created => StatusBefore(X, row)[u] = S.status[u]
  <2>1. CASE u = t
    <3>1. ~ (u = old /\ row.emptied)
      BY <2>1, <1>5, <1>7
    <3>2. X.status[u] = "active"
      BY <2>1, <1>8
    <3>3. CASE S.status[t] = "absent"
      BY <2>1, <3>3, <1>3, <1>9 DEF Alike
    <3>4. CASE S.status[t] = "archived"
      BY <2>1, <3>4, <1>3, <1>9 DEF Alike
    <3>5. CASE S.status[t] = "active"
      BY <2>1, <3>1, <3>2, <3>5, <1>3, <1>9 DEF Alike
    <3> QED
      BY <1>4, <3>3, <3>4, <3>5
  <2>2. CASE u # t
    <3>1. X.status[u] = IF row.emptied /\ u = old THEN "superseded" ELSE S.status[u]
      BY <2>2, <1>8
    <3>2. StatusBefore(X, row)[u] = IF u = old /\ row.emptied THEN "active" ELSE X.status[u]
      BY <2>2, <1>9
    <3>3. u = old /\ row.emptied => S.status[u] = "active"
      BY <1>5, <1>7
    <3> QED
      BY <3>1, <3>2, <3>3 DEF Alike
  <2> QED
    BY <2>1, <2>2
<1>11. Exact(row) => StatusBefore(X, row) = S.status
  <2> SUFFICES ASSUME Exact(row) PROVE StatusBefore(X, row) = S.status
    OBVIOUS
  <2>1. ~ row.created
    BY <1>3 DEF Exact
  <2>2. StatusBefore(X, row) = [u \in Text |-> StatusBefore(X, row)[u]]
    BY <1>9
  <2> QED
    BY <1>2, <1>10, <2>1, <2>2
<1>12. LinksBefore(X, row, e) = S.links
  <2> DEFINE kept == IF d.action = "supersede" THEN S.links \ {<<old, e>>} ELSE S.links
  <2>1. /\ X.links = IF row.linked THEN kept \cup {<<t, e>>} ELSE kept
        /\ row.linked => <<t, e>> \notin kept
    BY <1>1 DEF FactDone, NeedsLink
  <2>2. LinksBefore(X, row, e) =
          (IF row.linked THEN X.links \ {<<t, e>>} ELSE X.links)
          \cup (IF d.action = "supersede" THEN {<<old, e>>} ELSE {})
    BY <1>1, <1>3 DEF LinksBefore, IsFact
  <2>3. (IF row.linked THEN X.links \ {<<t, e>>} ELSE X.links) = kept
    BY <2>1
  <2>4. CASE d.action = "supersede"
    BY <1>5, <2>2, <2>3, <2>4
  <2>5. CASE d.action # "supersede"
    BY <2>2, <2>3, <2>5
  <2> QED
    BY <2>4, <2>5
<1>13. StateBefore(X, row, e) = S.state
  BY <1>3 DEF StateBefore
<1>14. Inert(row) => Same(S, X)
  <2> SUFFICES ASSUME Inert(row) PROVE Same(S, X)
    OBVIOUS
  <2>1. d.action = "semantic" /\ ~ row.created /\ ~ row.reactivated /\ ~ row.linked
    BY <1>3 DEF Inert
  <2>2. S.status[t] = "active" /\ ~ row.emptied
    BY <1>3, <1>4, <1>7, <2>1
  <2>3. X.status = S.status
    BY <1>2, <1>8, <2>2
  <2>4. X.links = S.links
    BY <2>1 DEF FactDone
  <2> QED
    BY <1>3, <2>3, <2>4 DEF Same
<1> QED
  BY <1>3, <1>10, <1>11, <1>12, <1>13, <1>14 DEF Back

(* The row a state or a rule left leads back. *)
LEMMA OtherBack ==
  ASSUME NEW k \in Nat \ {0}, NEW S \in Stores(k), NEW X, NEW d, NEW e \in Entity, NEW row,
         OtherDone(S, d, e, k, X, row)
  PROVE  Back(S, X, row, e)
<1>1. /\ row.action = d.action /\ d.action \in {"state", "rule"}
      /\ X.status = S.status /\ X.links = S.links /\ X.global = S.global
  BY DEF OtherDone
<1>2. /\ \A u \in Text : Alike(StatusBefore(X, row)[u], S.status[u])
      /\ Exact(row) => StatusBefore(X, row) = S.status
      /\ LinksBefore(X, row, e) = S.links
      /\ ~ Inert(row)
  BY <1>1 DEF StatusBefore, LinksBefore, IsFact, Alike, Inert
<1>3. StateBefore(X, row, e) = S.state
  <2>1. S.state \in [Entity -> Entry \cup {Unset, Said}]
    BY DEF Stores
  <2>2. CASE d.action = "state"
    <3>1. X.state = [S.state EXCEPT ![e] = d.entry] /\ row.before = S.state[e]
      BY <2>2 DEF OtherDone
    <3> QED
      BY <1>1, <2>1, <2>2, <3>1 DEF StateBefore
  <2>3. CASE d.action = "rule"
    BY <1>1, <2>3 DEF OtherDone, StateBefore
  <2> QED
    BY <1>1, <2>2, <2>3
<1> QED
  BY <1>1, <1>2, <1>3 DEF Back

(* An undo leads from what is like y to what is like x. *)
LEMMA UndoBack ==
  ASSUME NEW x, NEW y, NEW row \in Rows, NEW e \in Entity, Back(x, y, row, e),
         NEW m, NEW S \in Stores(m), NEW k, NEW X, X = Undo(S, row, e, k)
  PROVE  /\ Like(S, y) => Like(X, x)
         /\ Same(S, y) /\ Exact(row) => Same(X, x)
<1>1. UndoDone(S, row, e, k, X)
  BY UndoIs
<1>2. /\ X.status = StatusBefore(S, row) /\ X.links = LinksBefore(S, row, e)
      /\ X.state = StateBefore(S, row, e) /\ X.global = S.global
  BY <1>1 DEF UndoDone
<1>3. ASSUME Like(S, y) PROVE Like(X, x)
  <2>1. X.links = x.links /\ X.state = x.state /\ X.global = x.global
    BY <1>2, <1>3 DEF Like, Back, LinksBefore, StateBefore
  <2>2. ASSUME NEW u \in Text
        PROVE  Alike(X.status[u], x.status[u])
    <3>1. Alike(S.status[u], y.status[u]) /\ Alike(StatusBefore(y, row)[u], x.status[u])
      BY <1>3 DEF Like, Back
    <3>2. Alike(StatusBefore(S, row)[u], StatusBefore(y, row)[u])
      BY <3>1 DEF StatusBefore, Alike
    <3> QED
      BY <1>2, <3>1, <3>2 DEF Alike
  <2> QED
    BY <2>1, <2>2 DEF Like
<1>4. ASSUME Same(S, y), Exact(row) PROVE Same(X, x)
  <2>1. X.links = x.links /\ X.state = x.state /\ X.global = x.global
    BY <1>2, <1>4 DEF Same, Back, LinksBefore, StateBefore
  <2>2. StatusBefore(S, row) = StatusBefore(y, row)
    BY <1>4 DEF Same, StatusBefore
  <2>3. X.status = x.status
    BY <1>2, <1>4, <2>2 DEF Back
  <2> QED
    BY <2>1, <2>3 DEF Same
<1> QED
  BY <1>3, <1>4

-----------------------------------------------------------------------------
(* What an import did, so far *)

(* What the tables held at some revision. *)
Pictures ==
  [status : [Text -> Statuses], global : SUBSET Text, links : SUBSET (Text \X Entity),
   state : [Entity -> Entry \cup {Unset, Said}]]

PictureOf(S) ==
  [status |-> S.status, global |-> S.global, links |-> S.links, state |-> S.state]

(* What an entity sees in a picture. *)
SeenIn(x, e) ==
  {t \in Text : x.status[t] = "active" /\ (t \in x.global \/ <<t, e>> \in x.links)}

Sight(x, e) == [seen |-> SeenIn(x, e), state |-> x.state[e]]

(* A row that is not there has no scope and no link. *)
Bare(x) ==
  \A t \in Text : x.status[t] = "absent" => t \notin x.global /\ \A l \in x.links : l[1] # t

(* A row was written between any two pictures: it leads from the later one  *)
(* back to the earlier one.                                                 *)
Chain(c, x, y, ledger, e) ==
  /\ c \in [0 .. Len(ledger) -> Pictures]
  /\ c[0] = x /\ c[Len(ledger)] = y
  /\ \A i \in 1 .. Len(ledger) : Back(c[i - 1], c[i], ledger[i], e)

LEMMA PictureTypes ==
  ASSUME NEW k, NEW S \in Stores(k)
  PROVE  PictureOf(S) \in Pictures
BY DEF PictureOf, Pictures, Stores

(* A fact changes what its own entity sees alone: a text that was not *)
(* active had no scope, or belonged to nobody.                        *)
LEMMA FactStaysInScope ==
  ASSUME NEW k \in Nat \ {0}, NEW S \in Stores(k), NEW X \in Stores(k), NEW d \in Decisions,
         NEW e \in Entity, NEW row \in Rows, FactDone(S, d, e, X, row), ~ Refused(S, d, e),
         Bare(S)
  PROVE  /\ Bare(X)
         /\ \A f \in Entity \ {e} : SeenIn(X, f) = SeenIn(S, f)
<1>1. PICK t, old : t = TextOf[d.entry] /\ old = d.old
  OBVIOUS
<1>2. /\ t \in Text /\ S.status \in [Text -> Statuses] /\ S.links \subseteq Text \X Entity
  BY <1>1, ImportAssumption DEF Decisions, Decision, Stores
<1>3. /\ d.action \in {"semantic", "supersede"}
      /\ X.global = S.global /\ X.state = S.state
  BY DEF FactDone
<1>4. /\ S.status[t] \in {"absent", "active", "archived"}
      /\ S.status[t] = "archived" => t \notin S.global /\ \A l \in S.links : l[1] # t
  BY <1>1, <1>3 DEF Refused
<1>5. d.action = "supersede" =>
        /\ S.status[old] = "active" /\ <<old, e>> \in S.links /\ old # t /\ old \in Text
        /\ old \notin S.global
  BY <1>1, <1>3 DEF Refused, Decisions, Coherent
<1>6. PICK kept : kept = IF d.action = "supersede" THEN S.links \ {<<old, e>>} ELSE S.links
  OBVIOUS
<1>7. /\ row.emptied => d.action = "supersede" /\ \A l \in kept : l[1] # old
      /\ X.links = IF row.linked THEN kept \cup {<<t, e>>} ELSE kept
      /\ X.status = [u \in Text |-> IF u = t THEN "active"
                                 ELSE IF row.emptied /\ u = old THEN "superseded"
                                 ELSE S.status[u]]
  BY <1>1, <1>6 DEF FactDone, Emptied
<1>8. X.links \subseteq S.links \cup {<<t, e>>}
  BY <1>6, <1>7
<1>9. Bare(X)
  <2> SUFFICES ASSUME NEW u \in Text, X.status[u] = "absent"
               PROVE  u \notin X.global /\ \A l \in X.links : l[1] # u
    BY DEF Bare
  <2>1. u # t /\ S.status[u] = "absent"
    BY <1>7
  <2>2. u \notin S.global /\ \A l \in S.links : l[1] # u
    BY <2>1 DEF Bare
  <2> QED
    BY <1>3, <1>8, <2>1, <2>2
<1>10. ASSUME NEW f \in Entity \ {e}, NEW u \in Text
       PROVE  /\ <<u, f>> \in X.links <=> <<u, f>> \in S.links
  BY <1>6, <1>7
<1>11. ASSUME NEW f \in Entity \ {e}, NEW u \in Text
       PROVE  u \in SeenIn(X, f) <=> u \in SeenIn(S, f)
  <2>1. CASE u = t
    <3>1. X.status[u] = "active"
      BY <1>7, <2>1
    <3>2. CASE S.status[t] = "active"
      BY <1>3, <1>10, <2>1, <3>1, <3>2 DEF SeenIn
    <3>3. CASE S.status[t] # "active"
      <4>1. t \notin S.global /\ \A l \in S.links : l[1] # t
        BY <1>2, <1>4, <3>3 DEF Bare
      <4>2. <<t, f>> \notin S.links
        BY <4>1
      <4> QED
        BY <1>3, <1>10, <2>1, <4>1, <4>2 DEF SeenIn
    <3> QED
      BY <3>2, <3>3
  <2>2. CASE u # t /\ row.emptied /\ u = old
    <3>1. X.status[u] = "superseded"
      BY <1>7, <2>2
    <3>2. u \notin S.global /\ <<u, f>> \notin S.links
      <4>1. <<u, f>> # <<old, e>>
        OBVIOUS
      <4>2. <<u, f>> \notin kept
        BY <1>7, <2>2
      <4> QED
        BY <1>5, <1>6, <1>7, <2>2, <4>1, <4>2
    <3> QED
      BY <3>1, <3>2 DEF SeenIn
  <2>3. CASE u # t /\ ~ (row.emptied /\ u = old)
    <3>1. X.status[u] = S.status[u]
      BY <1>7, <2>3
    <3> QED
      BY <1>3, <1>10, <3>1 DEF SeenIn
  <2> QED
    BY <2>1, <2>2, <2>3
<1>12. ASSUME NEW f \in Entity \ {e}
       PROVE  SeenIn(X, f) = SeenIn(S, f)
  <2>1. SeenIn(X, f) \subseteq Text /\ SeenIn(S, f) \subseteq Text
    BY DEF SeenIn
  <2> QED
    BY <1>11, <2>1
<1> QED
  BY <1>9, <1>12

(* No row was taken away, and what was replaced has a row. *)
There(S) ==
  /\ \A u \in Text : status[u] # "absent" => S.status[u] # "absent"
  /\ \A i \in DOMAIN S.rows :
       S.rows[i].action = "supersede" => S.status[S.rows[i].old] # "absent"

(* The import of a review for e, from the rows of now, is at S. *)
Carried(S, e) ==
  /\ \E c : Chain(c, PictureOf(Store), PictureOf(S), S.rows, e)
  /\ (\A i \in DOMAIN S.rows : Inert(S.rows[i])) => Same(Store, S)
  /\ \A f \in Entity \ {e} : SeenIn(S, f) = SeenIn(Store, f) /\ S.state[f] = Store.state[f]
  /\ \A i \in DOMAIN S.rows : S.rows[i].action = "state" => S.state[e] = S.rows[i].entry
  /\ Bare(S) /\ There(S)

(* One more row makes a chain longer. *)
LEMMA ChainGrows ==
  ASSUME NEW x, NEW y \in Pictures, NEW z \in Pictures, NEW ledger \in Seq(Rows), NEW row \in Rows,
         NEW e, NEW c, Chain(c, x, y, ledger, e), Back(y, z, row, e)
  PROVE  \E b : Chain(b, x, z, Append(ledger, row), e)
<1>1. PICK N \in Nat : N = Len(ledger)
  OBVIOUS
<1>2. PICK longer : longer = Append(ledger, row)
  OBVIOUS
<1>3. /\ Len(longer) = N + 1 /\ longer[N + 1] = row
      /\ \A i \in 1 .. N : longer[i] = ledger[i]
  BY <1>1, <1>2
<1>4. /\ c \in [0 .. N -> Pictures] /\ c[0] = x /\ c[N] = y
      /\ \A i \in 1 .. N : Back(c[i - 1], c[i], ledger[i], e)
  BY <1>1 DEF Chain
<1>5. PICK b : b = [i \in 0 .. N + 1 |-> IF i = N + 1 THEN z ELSE c[i]]
  OBVIOUS
<1>6. b \in [0 .. N + 1 -> Pictures]
  BY <1>4, <1>5
<1>7. b[0] = x /\ b[N + 1] = z /\ b[N] = y
  BY <1>4, <1>5
<1>8. ASSUME NEW i \in 1 .. N + 1
      PROVE  Back(b[i - 1], b[i], longer[i], e)
  <2>1. CASE i = N + 1
    <3>1. b[i - 1] = y /\ b[i] = z /\ longer[i] = row
      BY <1>3, <1>7, <2>1
    <3> QED
      BY <3>1
  <2>2. CASE i \in 1 .. N
    <3>1. b[i - 1] = c[i - 1] /\ b[i] = c[i] /\ longer[i] = ledger[i]
      BY <1>3, <1>5, <2>2
    <3> QED
      BY <1>4, <2>2, <3>1
  <2> QED
    BY <2>1, <2>2
<1>9. Chain(b, x, z, longer, e)
  BY <1>3, <1>6, <1>7, <1>8 DEF Chain
<1> QED
  BY <1>2, <1>9

(* What a ledger with one more row holds. *)
LEMMA LongerBy ==
  ASSUME NEW ledger \in Seq(Rows), NEW row \in Rows, NEW longer, longer = Append(ledger, row)
  PROVE  /\ longer \in Seq(Rows)
         /\ \A i \in DOMAIN ledger : i \in DOMAIN longer /\ longer[i] = ledger[i]
         /\ \E j \in DOMAIN longer : longer[j] = row
         /\ \A j \in DOMAIN longer : longer[j] = row \/ (j \in DOMAIN ledger /\ longer[j] = ledger[j])
<1>1. PICK N \in Nat : N = Len(ledger) /\ DOMAIN ledger = 1 .. N
  OBVIOUS
<1>2. longer \in Seq(Rows) /\ DOMAIN longer = 1 .. N + 1
  BY <1>1
<1>3. longer[N + 1] = row /\ \A i \in 1 .. N : longer[i] = ledger[i]
  BY <1>1
<1> QED
  BY <1>1, <1>2, <1>3

LEMMA ThereLonger ==
  ASSUME NEW k \in Nat \ {0}, NEW S \in Stores(k), NEW X \in Stores(k), NEW row \in Rows,
         There(S), X.rows = Append(S.rows, row),
         \A u \in Text : S.status[u] # "absent" => X.status[u] # "absent",
         row.action = "supersede" => X.status[row.old] # "absent"
  PROVE  There(X)
<1>1. PICK ledger, longer : ledger \in Seq(Rows) /\ ledger = S.rows /\ longer = X.rows
  BY DEF Stores
<1>2. \A j \in DOMAIN longer : longer[j] = row \/ (j \in DOMAIN ledger /\ longer[j] = ledger[j])
  BY <1>1, LongerBy
<1>3. ASSUME NEW i \in DOMAIN longer, longer[i].action = "supersede"
      PROVE  X.status[longer[i].old] # "absent"
  <2>1. CASE longer[i] = row
    BY <1>3, <2>1
  <2>2. CASE i \in DOMAIN ledger /\ longer[i] = ledger[i]
    <3>1. S.status[ledger[i].old] # "absent"
      BY <1>1, <1>3, <2>2 DEF There
    <3>2. ledger[i] \in Rows
      BY <1>1, <2>2
    <3>3. ledger[i].old \in Text
      BY <1>3, <2>2, <3>2 DEF Rows, Coherent
    <3> QED
      BY <2>2, <3>1, <3>3
  <2> QED
    BY <1>2, <2>1, <2>2
<1> QED
  BY <1>1, <1>3 DEF There

LEMMA PictureBack ==
  ASSUME NEW S, NEW X, NEW row, NEW e, Back(S, X, row, e)
  PROVE  Back(PictureOf(S), PictureOf(X), row, e)
<1>1. PICK x, y : x = PictureOf(S) /\ y = PictureOf(X)
  OBVIOUS
<1>2. /\ x.status = S.status /\ x.links = S.links /\ x.global = S.global /\ x.state = S.state
      /\ y.status = X.status /\ y.links = X.links /\ y.global = X.global /\ y.state = X.state
  BY <1>1 DEF PictureOf
<1>3. /\ StatusBefore(y, row) = StatusBefore(X, row)
      /\ LinksBefore(y, row, e) = LinksBefore(X, row, e)
      /\ StateBefore(y, row, e) = StateBefore(X, row, e)
  BY <1>2 DEF StatusBefore, LinksBefore, StateBefore
<1>4. Back(x, y, row, e)
  BY <1>2, <1>3 DEF Back, Same
<1> QED
  BY <1>1, <1>4

(* A row that leads back makes the chain of the import longer. *)
LEMMA CarriedRow ==
  ASSUME NEW k \in Nat \ {0}, NEW S \in Stores(k), NEW X \in Stores(k), NEW e \in Entity,
         NEW row \in Rows, Carried(S, e), Back(S, X, row, e), X.rows = Append(S.rows, row)
  PROVE  /\ \E c : Chain(c, PictureOf(Store), PictureOf(X), X.rows, e)
         /\ (\A i \in DOMAIN X.rows : Inert(X.rows[i])) => Same(Store, X)
<1>1. S.rows \in Seq(Rows)
  BY DEF Stores
<1>2. \E c : Chain(c, PictureOf(Store), PictureOf(X), X.rows, e)
  <2>1. PICK c : Chain(c, PictureOf(Store), PictureOf(S), S.rows, e)
    BY DEF Carried
  <2>2. Back(PictureOf(S), PictureOf(X), row, e)
    BY PictureBack
  <2>3. PictureOf(S) \in Pictures /\ PictureOf(X) \in Pictures
    BY PictureTypes
  <2>4. PICK x, y, z, ledger : /\ x = PictureOf(Store) /\ y = PictureOf(S)
                               /\ z = PictureOf(X) /\ ledger = S.rows
    OBVIOUS
  <2>5. \E b : Chain(b, x, z, Append(ledger, row), e)
    BY <1>1, <2>1, <2>2, <2>3, <2>4, ChainGrows
  <2> QED
    BY <2>4, <2>5
<1>3. ASSUME \A i \in DOMAIN X.rows : Inert(X.rows[i])
      PROVE  Same(Store, X)
  <2>1. PICK ledger, longer : ledger \in Seq(Rows) /\ ledger = S.rows /\ longer = X.rows
    BY <1>1
  <2>2. /\ \A i \in DOMAIN ledger : i \in DOMAIN longer /\ longer[i] = ledger[i]
       /\ \E j \in DOMAIN longer : longer[j] = row
    BY <2>1, LongerBy
  <2>3. Inert(row) /\ \A i \in DOMAIN S.rows : Inert(S.rows[i])
    BY <1>3, <2>1, <2>2
  <2>4. Same(Store, S) /\ Same(S, X)
    BY <2>3 DEF Carried, Back
  <2> QED
    BY <2>4 DEF Same
<1> QED
  BY <1>2, <1>3

(* Every item that does not fail carries the import on. *)
LEMMA CarriedItem ==
  ASSUME NEW k \in Nat \ {0}, NEW S \in Stores(k), NEW d \in Decisions, NEW e \in Entity,
         S.ok = TRUE, NEW X \in Stores(k), X = ImportItem(S, d, e, k), X.ok = TRUE,
         Carried(S, e)
  PROVE  Carried(X, e)
<1>1. S.rows \in Seq(Rows) /\ S.state \in [Entity -> Entry \cup {Unset, Said}]
  BY DEF Stores
<1>2. CASE X = S
  BY <1>2
<1>3. CASE Repeated(S, d, e, k, X)
  <2>1. X.status = S.status /\ X.links = S.links /\ X.global = S.global
        /\ X.state = S.state /\ X.rows = S.rows
    BY <1>3 DEF Repeated
  <2>2. PictureOf(X) = PictureOf(S) /\ \A f : SeenIn(X, f) = SeenIn(S, f)
    BY <2>1 DEF PictureOf, SeenIn
  <2>3. /\ Bare(X) <=> Bare(S)
        /\ There(X) <=> There(S)
        /\ Same(Store, X) <=> Same(Store, S)
    BY <2>1 DEF Bare, There, Same
  <2> QED
    BY <2>1, <2>2, <2>3 DEF Carried
<1>4. ASSUME NEW row \in Rows, FactDone(S, d, e, X, row), ~ Refused(S, d, e)
      PROVE  Carried(X, e)
  <2>1. Back(S, X, row, e) /\ X.rows = Append(S.rows, row) /\ row.action # "state"
        /\ X.state = S.state
    BY <1>4, FactBack DEF FactDone
  <2>2. Bare(X) /\ \A f \in Entity \ {e} : SeenIn(X, f) = SeenIn(S, f)
    BY <1>4, FactStaysInScope DEF Carried
  <2>3. ASSUME NEW i \in DOMAIN X.rows, X.rows[i].action = "state"
        PROVE  X.state[e] = X.rows[i].entry
    <3>1. i \in DOMAIN S.rows /\ X.rows[i] = S.rows[i]
      BY <1>1, <2>1, <2>3, LongerBy
    <3> QED
      BY <2>1, <2>3, <3>1 DEF Carried
  <2>4. /\ \E c : Chain(c, PictureOf(Store), PictureOf(X), X.rows, e)
        /\ (\A i \in DOMAIN X.rows : Inert(X.rows[i])) => Same(Store, X)
    BY <2>1, CarriedRow
  <2>5. \A f \in Entity \ {e} : SeenIn(X, f) = SeenIn(Store, f) /\ X.state[f] = Store.state[f]
    BY <2>1, <2>2 DEF Carried
  <2>6. There(X)
    <3>1. ASSUME NEW u \in Text, S.status[u] # "absent"
          PROVE  X.status[u] # "absent"
      BY <1>4, <3>1 DEF FactDone
    <3>2. row.action = "supersede" => X.status[row.old] # "absent"
      BY <1>4, <3>1 DEF FactDone, Refused, Decisions, Coherent
    <3>3. There(S)
      BY DEF Carried
    <3> QED
      BY <2>1, <3>1, <3>2, <3>3, ThereLonger
  <2> QED
    BY <2>2, <2>3, <2>4, <2>5, <2>6 DEF Carried
<1>5. ASSUME NEW row \in Rows, OtherDone(S, d, e, k, X, row), ~ Refused(S, d, e)
      PROVE  Carried(X, e)
  <2>1. /\ Back(S, X, row, e) /\ X.rows = Append(S.rows, row) /\ row.action = d.action
        /\ row.entry = d.entry
        /\ X.status = S.status /\ X.links = S.links /\ X.global = S.global
    BY <1>5, OtherBack DEF OtherDone
  <2>2. Bare(X) /\ \A f : SeenIn(X, f) = SeenIn(S, f)
    BY <2>1 DEF Carried, Bare, SeenIn
  <2>3. ASSUME NEW i \in DOMAIN X.rows, X.rows[i].action = "state"
        PROVE  X.state[e] = X.rows[i].entry
    <3>1. CASE i \in DOMAIN S.rows /\ X.rows[i] = S.rows[i]
      <4>1. d.action # "state"
        BY <1>5, <2>3, <3>1 DEF Refused
      <4>2. X.state = S.state
        BY <1>5, <4>1 DEF OtherDone
      <4> QED
        BY <2>3, <3>1, <4>2 DEF Carried
    <3>2. CASE X.rows[i] = row
      <4>1. X.state = [S.state EXCEPT ![e] = d.entry]
        BY <1>5, <2>1, <2>3, <3>2 DEF OtherDone
      <4> QED
        BY <1>1, <2>1, <3>2, <4>1
    <3> QED
      BY <1>1, <2>1, <3>1, <3>2, LongerBy
  <2>4. /\ \E c : Chain(c, PictureOf(Store), PictureOf(X), X.rows, e)
        /\ (\A i \in DOMAIN X.rows : Inert(X.rows[i])) => Same(Store, X)
    BY <2>1, CarriedRow
  <2>5. \A f \in Entity \ {e} : SeenIn(X, f) = SeenIn(Store, f) /\ X.state[f] = Store.state[f]
    <3>1. \A f \in Entity \ {e} : X.state[f] = S.state[f]
      BY <1>1, <1>5 DEF OtherDone
    <3> QED
      BY <2>2, <3>1 DEF Carried
  <2>6. There(X)
    <3>1. There(S) /\ row.action # "supersede"
      BY <1>5 DEF Carried, OtherDone
    <3> QED
      BY <2>1, <3>1, ThereLonger
  <2> QED
    BY <2>2, <2>3, <2>4, <2>5, <2>6 DEF Carried
<1> QED
  BY <1>2, <1>3, <1>4, <1>5, ItemIs

(* An import that succeeds is carried to its end. *)
LEMMA ImportCarried ==
  ASSUME TypesInv, Bare(Store), NEW review \in Reviews, NEW k, k = Len(batches) + 1,
         NEW S, S = Import(review, k), S.ok = TRUE
  PROVE  Carried(S, review.entity)
<1>1. PICK N, P : Steps(review, k, N, P)
  <2>1. Import(review, k).ok = TRUE
    OBVIOUS
  <2> QED
    BY <2>1, ProgressSteps
<1>2. PICK e, ds : e \in Entity /\ e = review.entity /\ ds = review.decisions
  BY DEF Reviews
<1>3. e \in Entity /\ k \in Nat \ {0} /\ N \in Nat /\ S = P[N] /\ P[0] = Store
  BY <1>1, <1>2 DEF Steps, TypesInv
<1>4. /\ \A n \in 0 .. N : P[n] \in Stores(k) /\ P[n].ok = TRUE
      /\ \A n \in 1 .. N : ds[n] \in Decisions /\ P[n] = ImportItem(P[n - 1], ds[n], e, k)
  BY <1>1, <1>2 DEF Steps
<1> DEFINE T == {n \in Nat : n <= N => Carried(P[n], e)}
<1>5. 0 \in T
  <2>1. PICK x \in Pictures : x = PictureOf(Store)
    BY <1>3, <1>4, PictureTypes
  <2>2. PICK c : c = [i \in 0 .. 0 |-> x]
    OBVIOUS
  <2>3. Chain(c, x, x, << >>, e)
    <3>1. c \in [0 .. 0 -> Pictures] /\ c[0] = x
      BY <2>2
    <3>2. Len(<< >>) = 0
      OBVIOUS
    <3> QED
      BY <3>1, <3>2 DEF Chain
  <2>4. Store.rows = << >>
    BY DEF Store
  <2>5. There(Store)
    BY <2>4 DEF There, Store
  <2>6. Carried(Store, e)
    BY <2>1, <2>3, <2>4, <2>5 DEF Carried, Same
  <2> QED
    BY <1>3, <2>6
<1>6. ASSUME NEW n \in Nat, n < N, n \in T
      PROVE  n + 1 \in T
  <2>1. n \in 0 .. N /\ n + 1 \in 0 .. N /\ n + 1 \in 1 .. N /\ n + 1 - 1 = n /\ n <= N
    BY <1>3, <1>6
  <2>2. PICK U, X, d : U = P[n] /\ X = P[n + 1] /\ d = ds[n + 1]
    OBVIOUS
  <2>3. /\ U \in Stores(k) /\ U.ok = TRUE /\ X \in Stores(k) /\ X.ok = TRUE /\ d \in Decisions
        /\ X = ImportItem(U, d, e, k)
    BY <1>4, <2>1, <2>2
  <2>4. Carried(U, e)
    BY <1>6, <2>1, <2>2
  <2>5. Carried(X, e)
    BY <1>3, <2>3, <2>4, CarriedItem
  <2> QED
    BY <2>2, <2>5
<1> HIDE DEF T
<1>7. N \in T
  <2>1. N \in 0 .. N
    BY <1>3
  <2> QED
    BY <1>3, <1>5, <1>6, <2>1, UpTo
<1> QED
  BY <1>2, <1>3, <1>7 DEF T

-----------------------------------------------------------------------------
(* What a rollback brings back *)

(* What every undo of a rollback started from and led to. *)
BackSteps(k, N, R) ==
  LET ledger == batches[k].rows IN
  /\ N \in Nat /\ N = Len(ledger) /\ Undone(k) = R[N]
  /\ R[0] = Store
  /\ \A n \in 0 .. N : R[n] \in Stores(Len(batches))
  /\ \A n \in 0 .. N : n < N =>
       /\ ledger[N - n] \in Rows
       /\ R[n + 1] = Undo(R[n], ledger[N - n], batches[k].review.entity, k)

(* Every copy of the rows on the way of a rollback is the undo of a row of *)
(* the one before.                                                         *)
LEMMA RetreatSteps ==
  ASSUME TypesInv, NEW k \in DOMAIN batches
  PROVE  \E N, R : BackSteps(k, N, R)
<1>1. PICK N, R, ledger : N = Len(ledger) /\ R = Retreat(k) /\ ledger = batches[k].rows
  OBVIOUS
<1>2. ledger \in Seq(Rows) /\ N \in Nat
  <2>1. batches[k] \in Batches
    BY DEF TypesInv
  <2> QED
    BY <1>1, <2>1 DEF Batches
<1>3. \A n \in 0 .. N : R[n] = IF n = 0 THEN Store
        ELSE Undo(R[n - 1], ledger[N + 1 - n], batches[k].review.entity, k)
  BY <1>1, <1>2, RetreatIs
<1>4. \A n \in 0 .. N : R[n] \in Stores(Len(batches))
  <2>1. \A n \in 0 .. Len(batches[k].rows) : Retreat(k)[n] \in Stores(Len(batches))
    BY RetreatTypes
  <2> QED
    BY <1>1, <1>2, <2>1
<1>5. ASSUME NEW n \in 0 .. N, n < N
      PROVE  /\ ledger[N - n] \in Rows
             /\ R[n + 1] = Undo(R[n], ledger[N - n], batches[k].review.entity, k)
  <2>1. N - n \in 1 .. N /\ n + 1 \in 0 .. N /\ n + 1 - 1 = n /\ N + 1 - (n + 1) = N - n
        /\ n + 1 # 0
    BY <1>2, <1>5
  <2>2. ledger[N - n] \in Rows
    BY <1>1, <1>2, <2>1
  <2>3. R[n + 1] = Undo(R[n + 1 - 1], ledger[N + 1 - (n + 1)], batches[k].review.entity, k)
    BY <1>3, <2>1
  <2> QED
    BY <2>1, <2>2, <2>3
<1>6. Undone(k) = R[N]
  BY <1>1 DEF Undone
<1>7. R[0] = Store
  BY <1>2, <1>3
<1>8. BackSteps(k, N, R)
  BY <1>1, <1>2, <1>4, <1>5, <1>6, <1>7 DEF BackSteps
<1> QED
  BY <1>8

(* To undo a whole chain leads to what is like its first picture, and to *)
(* the same when every row is undone exactly.                            *)
LEMMA RollbackBack ==
  ASSUME TypesInv, NEW k \in DOMAIN batches, NEW c, NEW x, NEW y,
         Chain(c, x, y, batches[k].rows, batches[k].review.entity), Same(Store, y)
  PROVE  /\ Like(Undone(k), x)
         /\ (\A i \in DOMAIN batches[k].rows : Exact(batches[k].rows[i])) => Same(Undone(k), x)
<1>1. PICK N, R : BackSteps(k, N, R)
  BY RetreatSteps
<1>2. PICK ledger, e : ledger = batches[k].rows /\ e = batches[k].review.entity
  OBVIOUS
<1>3. /\ N \in Nat /\ N = Len(ledger) /\ Undone(k) = R[N] /\ R[0] = Store
      /\ \A n \in 0 .. N : R[n] \in Stores(Len(batches))
      /\ \A n \in 0 .. N : n < N =>
            ledger[N - n] \in Rows /\ R[n + 1] = Undo(R[n], ledger[N - n], e, k)
  BY <1>1, <1>2 DEF BackSteps
<1>4. e \in Entity /\ ledger \in Seq(Rows)
  <2>1. batches[k] \in Batches
    BY DEF TypesInv
  <2> QED
    BY <1>2, <2>1 DEF Batches, Reviews
<1>5. /\ c[0] = x /\ c[N] = y
      /\ \A i \in 1 .. N : Back(c[i - 1], c[i], ledger[i], e)
  BY <1>2, <1>3 DEF Chain
<1> DEFINE exact == \A i \in DOMAIN ledger : Exact(ledger[i])
           T == {n \in Nat : n <= N =>
                   Like(R[n], c[N - n]) /\ (exact => Same(R[n], c[N - n]))}
<1>6. 0 \in T
  <2>1. N - 0 = N
    BY <1>3
  <2>2. Like(R[0], y) /\ Same(R[0], y)
    BY <1>3 DEF Same, Like, Alike
  <2> QED
    BY <1>5, <2>1, <2>2
<1>7. ASSUME NEW n \in Nat, n < N, n \in T
      PROVE  n + 1 \in T
  <2>1. n \in 0 .. N /\ n <= N /\ N - n \in 1 .. N /\ N - n - 1 = N - (n + 1)
    BY <1>3, <1>7
  <2>2. PICK U, X, row, v, w : /\ U = R[n] /\ X = R[n + 1] /\ row = ledger[N - n]
                               /\ v = c[N - n - 1] /\ w = c[N - n]
    OBVIOUS
  <2>3. row \in Rows /\ X = Undo(U, row, e, k) /\ U \in Stores(Len(batches))
    BY <1>3, <1>7, <2>1, <2>2
  <2>4. Back(v, w, row, e)
    BY <1>5, <2>1, <2>2
  <2>5. Like(U, w) /\ (exact => Same(U, w))
    BY <1>7, <2>1, <2>2
  <2>6. exact => Exact(row)
    BY <1>3, <1>4, <2>1, <2>2
  <2> HIDE DEF exact
  <2>7. Like(X, v)
    BY <1>4, <2>3, <2>4, <2>5, UndoBack
  <2>8. exact => Same(X, v)
    BY <1>4, <2>3, <2>4, <2>5, <2>6, UndoBack
  <2> QED
    BY <2>1, <2>2, <2>7, <2>8
<1> HIDE DEF T
<1>8. N \in T
  <2>1. N \in 0 .. N
    BY <1>3
  <2> QED
    BY <1>3, <1>6, <1>7, <2>1, UpTo
<1>9. N - N = 0 /\ N <= N
  BY <1>3
<1>10. Like(R[N], c[N - N]) /\ (exact => Same(R[N], c[N - N]))
  BY <1>8, <1>9 DEF T
<1> QED
  BY <1>2, <1>3, <1>5, <1>9, <1>10

-----------------------------------------------------------------------------
(* The history of the store *)

Now == [status |-> status, global |-> global, links |-> links, state |-> state]

(* What the ledger of a batch says of the revisions before and after it. *)
Traced(b, h) ==
  LET e == b.review.entity
      before == h[b.review.revision]
      after == h[b.after]
  IN
  /\ \A f \in Entity : /\ b.was[f] = Sight(before, f)
                       /\ f # e => Sight(after, f) = b.was[f]
  /\ \A i \in DOMAIN b.rows : b.rows[i].action = "state" => after.state[e] = b.rows[i].entry
  /\ \E c : Chain(c, before, after, b.rows, e)

IsHistory(h) ==
  /\ h \in [0 .. clock -> Pictures]
  /\ h[revision] = Now
  /\ \A k \in DOMAIN batches : Traced(batches[k], h)

(* Each revision names one picture of the rows, and the batches lie between *)
(* the pictures of their revisions.                                         *)
HistoryInv ==
  /\ \A k \in DOMAIN batches : batches[k].after <= clock
  /\ \E h : IsHistory(h)

LEMMA NowIs == Now = PictureOf(Store)
BY DEF Now, PictureOf, Store

LEMMA WhatIs ==
  ASSUME NEW f
  PROVE  What(f) = Sight(Store, f)
BY DEF What, Sight, SeenIn, Store, Visible, Active

LEMMA NextPicture ==
  ASSUME TypesInv'
  PROVE  Now' \in Pictures
BY DEF TypesInv, TypeOK, Now, Pictures, Statuses

(* A history with one more picture. *)
LEMMA LongerHistory ==
  ASSUME NEW N \in Nat, NEW h \in [0 .. N -> Pictures], NEW y \in Pictures
  PROVE  \E g \in [0 .. N + 1 -> Pictures] : g[N + 1] = y /\ \A i \in 0 .. N : g[i] = h[i]
<1>1. PICK g : g = [i \in 0 .. N + 1 |-> IF i = N + 1 THEN y ELSE h[i]]
  OBVIOUS
<1>2. g \in [0 .. N + 1 -> Pictures] /\ g[N + 1] = y /\ \A i \in 0 .. N : g[i] = h[i]
  BY <1>1
<1> QED
  BY <1>2

LEMMA TracedStill ==
  ASSUME NEW b, NEW a, NEW h, NEW g, Traced(b, h),
         a.review = b.review, a.after = b.after, a.rows = b.rows, a.was = b.was,
         g[b.review.revision] = h[b.review.revision], g[b.after] = h[b.after]
  PROVE  Traced(a, g)
BY Zenon DEF Traced

(* What is alike looks the same to everybody. *)
LEMMA SightLike ==
  ASSUME NEW x, NEW y, Like(x, y), NEW f
  PROVE  Sight(x, f) = Sight(y, f)
<1>1. \A u \in Text : x.status[u] = "active" <=> y.status[u] = "active"
  BY DEF Like, Alike
<1> QED
  BY <1>1 DEF Like, Sight, SeenIn

(* A batch lies between revisions the store has had. *)
LEMMA BatchTimes ==
  ASSUME TypesInv, HistoryInv, NEW k \in DOMAIN batches
  PROVE  batches[k].review.revision \in 0 .. clock /\ batches[k].after \in 0 .. clock
<1>1. batches[k] \in Batches
  BY DEF TypesInv
<1> QED
  BY <1>1 DEF TypesInv, HistoryInv, Batches, Reviews

LEMMA InitHistory == ImportInit => HistoryInv
<1> SUFFICES ASSUME ImportInit PROVE HistoryInv
  OBVIOUS
<1>1. TypesInv /\ DOMAIN batches = {} /\ clock = 0 /\ revision = 0
  BY InitTypes DEF ImportInit
<1>2. Now \in Pictures
  BY <1>1 DEF TypesInv, TypeOK, Now, Pictures, Statuses
<1>3. PICK h : h = [i \in 0 .. 0 |-> Now]
  OBVIOUS
<1>4. IsHistory(h)
  BY <1>1, <1>2, <1>3 DEF IsHistory
<1> QED
  BY <1>1, <1>4 DEF HistoryInv

(* The same batches with a picture the history has. *)
LEMMA HistoryStill ==
  ASSUME TypesInv, HistoryInv, UNCHANGED <<clock, batches>>, revision' = revision, Now' = Now
  PROVE  HistoryInv'
<1>1. PICK h : IsHistory(h)
  BY DEF HistoryInv
<1>2. IsHistory(h)'
  BY <1>1 DEF IsHistory
<1> QED
  BY <1>2 DEF HistoryInv

(* The same batches with a new picture. *)
LEMMA HistoryMoves ==
  ASSUME TypesInv, HistoryInv, TypesInv', UNCHANGED batches, Touch
  PROVE  HistoryInv'
<1>1. PICK h : IsHistory(h)
  BY DEF HistoryInv
<1>2. PICK t \in Nat, y \in Pictures : t = clock /\ y = Now'
  BY NextPicture DEF TypesInv
<1>3. PICK g \in [0 .. t + 1 -> Pictures] : g[t + 1] = y /\ \A i \in 0 .. t : g[i] = h[i]
  BY <1>1, <1>2, LongerHistory DEF IsHistory
<1>4. clock' = t + 1 /\ revision' = t + 1
  BY <1>2 DEF Touch
<1>5. ASSUME NEW k \in DOMAIN batches
      PROVE  Traced(batches'[k], g)
  <2>1. batches[k].review.revision \in 0 .. t /\ batches[k].after \in 0 .. t
    BY <1>2, BatchTimes
  <2>2. Traced(batches[k], h)
    BY <1>1 DEF IsHistory
  <2>3. Traced(batches[k], g)
    BY <1>3, <2>1, <2>2, TracedStill
  <2> QED
    BY <2>3
<1>6. IsHistory(g)'
  BY <1>2, <1>3, <1>4, <1>5 DEF IsHistory
<1>7. \A k \in DOMAIN batches' : batches'[k].after <= clock'
  <2> SUFFICES ASSUME NEW k \in DOMAIN batches PROVE batches[k].after <= t + 1
    BY <1>4
  <2>1. batches[k].after \in 0 .. t
    BY <1>2, BatchTimes
  <2> QED
    BY <1>2, <2>1
<1> QED
  BY <1>6, <1>7 DEF HistoryInv

LEMMA PictureAfter ==
  ASSUME NEW S, SetRows(S)
  PROVE  Now' = PictureOf(S)
BY DEF SetRows, Now, PictureOf

LEMMA SightOf ==
  ASSUME NEW S, NEW f
  PROVE  Sight(PictureOf(S), f) = Sight(S, f)
BY DEF Sight, SeenIn, PictureOf

(* An import extends the history by the picture after it, or by none when *)
(* all its rows found everything in place.                                *)
LEMMA CommitApplyHistory ==
  ASSUME TypesInv, AbsentIsBare, HistoryInv, TypesInv', NEW p \in Session, CommitApply(p)
  PROVE  HistoryInv'
<1>1. PICK review \in Reviews, k \in Nat \ {0} :
           LET S == Import(review, k) IN
           /\ k = Len(batches) + 1 /\ k \notin DOMAIN batches
           /\ S \in Stores(k) /\ S.ok = TRUE /\ review.revision = revision
           /\ SetRows(S)
           /\ IF \A n \in DOMAIN S.rows : Inert(S.rows[n]) THEN Still ELSE Touch
           /\ DOMAIN batches' = DOMAIN batches \cup {k}
           /\ \A i \in DOMAIN batches : batches'[i] = batches[i]
           /\ batches'[k].review = review
           /\ batches'[k].after = revision' /\ batches'[k].rows = S.rows
           /\ \A e \in Entity : batches'[k].was[e] = What(e)
  BY CommitApplyIs
<1>2. PICK S, e, t : S = Import(review, k) /\ e = review.entity /\ t = clock
  OBVIOUS
<1>3. Bare(Store)
  BY DEF AbsentIsBare, Bare, Store, LinksOf
<1>4. Carried(S, e)
  BY <1>1, <1>2, <1>3, ImportCarried
<1>5. PICK h : IsHistory(h)
  BY DEF HistoryInv
<1>6. t \in Nat /\ h \in [0 .. t -> Pictures] /\ h[revision] = Now /\ revision \in 0 .. t
  BY <1>2, <1>5 DEF IsHistory, TypesInv
<1>7. PICK x, y : x = Now /\ y = Now'
  OBVIOUS
<1>8. x = PictureOf(Store) /\ y = PictureOf(S) /\ y \in Pictures
  BY <1>1, <1>2, <1>7, NowIs, PictureAfter, NextPicture
<1>9. PICK g : /\ g \in [0 .. clock' -> Pictures] /\ g[revision'] = y
               /\ \A i \in 0 .. t : g[i] = h[i]
               /\ t <= clock' /\ revision' \in 0 .. clock'
  <2>1. CASE \A n \in DOMAIN S.rows : Inert(S.rows[n])
    <3>1. clock' = t /\ revision' = revision
      BY <1>1, <1>2, <2>1 DEF Still
    <3>2. Same(Store, S)
      BY <1>4, <2>1 DEF Carried
    <3>3. y = x
      BY <1>8, <3>2 DEF Same, PictureOf
    <3>4. h \in [0 .. clock' -> Pictures] /\ h[revision'] = y
      BY <1>6, <1>7, <3>1, <3>3
    <3>5. t <= clock' /\ revision' \in 0 .. clock'
      BY <1>6, <3>1
    <3> WITNESS h
    <3> QED
      BY <3>4, <3>5
  <2>2. CASE ~ \A n \in DOMAIN S.rows : Inert(S.rows[n])
    <3>1. Touch
      BY <1>1, <1>2, <2>2
    <3>2. clock' = t + 1 /\ revision' = t + 1
      BY <1>2, <3>1 DEF Touch
    <3>3. t \in Nat /\ h \in [0 .. t -> Pictures] /\ y \in Pictures
      BY <1>6, <1>8
    <3>4. PICK N \in Nat, z \in Pictures : N = t /\ z = y
      BY <3>3
    <3>5. PICK f \in [0 .. N -> Pictures] : f = h
      BY <3>3, <3>4
    <3>6. PICK g \in [0 .. N + 1 -> Pictures] : g[N + 1] = z /\ \A i \in 0 .. N : g[i] = f[i]
      BY LongerHistory
    <3> QED
      BY <3>2, <3>3, <3>4, <3>5, <3>6
  <2> QED
    BY <2>1, <2>2
<1>10. ASSUME NEW i \in DOMAIN batches
       PROVE  Traced(batches'[i], g)
  <2>1. batches[i].review.revision \in 0 .. t /\ batches[i].after \in 0 .. t
    BY <1>2, BatchTimes
  <2>2. Traced(batches[i], h)
    BY <1>5 DEF IsHistory
  <2>3. Traced(batches[i], g)
    BY <1>9, <2>1, <2>2, TracedStill
  <2> QED
    BY <1>1, <2>3
<1>11. PICK b : b = batches'[k]
  OBVIOUS
<1>12. /\ b.review.entity = e /\ b.rows = S.rows
       /\ g[b.review.revision] = x /\ g[b.after] = y
       /\ \A f \in Entity : b.was[f] = Sight(x, f)
  <2>1. \A f \in Entity : What(f) = Sight(x, f)
    BY <1>8, WhatIs, SightOf
  <2> QED
    BY <1>1, <1>2, <1>6, <1>7, <1>9, <1>11, <2>1
<1>13. Traced(b, g)
  <2>1. ASSUME NEW f \in Entity, f # e
        PROVE  Sight(y, f) = Sight(x, f)
    <3>1. SeenIn(S, f) = SeenIn(Store, f) /\ S.state[f] = Store.state[f]
      BY <1>4, <2>1 DEF Carried
    <3>2. Sight(S, f) = Sight(Store, f)
      BY <3>1 DEF Sight
    <3> QED
      BY <1>8, <3>2, SightOf
  <2>2. \A i \in DOMAIN b.rows : b.rows[i].action = "state" => y.state[e] = b.rows[i].entry
    BY <1>4, <1>8, <1>12 DEF Carried, PictureOf
  <2>3. \E c : Chain(c, x, y, b.rows, e)
    BY <1>4, <1>8, <1>12 DEF Carried
  <2> QED
    BY <1>12, <2>1, <2>2, <2>3 DEF Traced
<1>14. IsHistory(g)'
  BY <1>1, <1>7, <1>9, <1>10, <1>11, <1>13 DEF IsHistory
<1>15. \A i \in DOMAIN batches' : batches'[i].after <= clock'
  <2>1. ASSUME NEW i \in DOMAIN batches
        PROVE  batches'[i].after <= clock'
    <3>1. batches[i].after \in 0 .. t /\ batches'[i] = batches[i]
      BY <1>1, <1>2, BatchTimes
    <3>2. clock' \in Nat
      BY DEF TypesInv
    <3> QED
      BY <1>6, <1>9, <3>1, <3>2
  <2>2. batches'[k].after <= clock'
    BY <1>1, <1>9
  <2> QED
    BY <1>1, <2>1, <2>2
<1> QED
  BY <1>14, <1>15 DEF HistoryInv

(* Rows that found everything in place changed nothing. *)
LEMMA InertChain ==
  ASSUME NEW c, NEW x, NEW y, NEW ledger \in Seq(Rows), NEW e, Chain(c, x, y, ledger, e),
         \A i \in DOMAIN ledger : Inert(ledger[i])
  PROVE  Same(x, y)
<1>1. PICK N \in Nat : N = Len(ledger) /\ DOMAIN ledger = 1 .. N
  OBVIOUS
<1>2. c[0] = x /\ c[N] = y /\ \A i \in 1 .. N : Same(c[i - 1], c[i])
  BY <1>1 DEF Chain, Back
<1> DEFINE T == {n \in Nat : n <= N => Same(x, c[n])}
<1>3. 0 \in T
  BY <1>2 DEF Same
<1>4. ASSUME NEW n \in Nat, n < N, n \in T
      PROVE  n + 1 \in T
  <2>1. n + 1 \in 1 .. N /\ n + 1 - 1 = n /\ n <= N
    BY <1>4
  <2>2. Same(c[n], c[n + 1]) /\ Same(x, c[n])
    BY <1>2, <1>4, <2>1
  <2>3. Same(x, c[n + 1])
    BY <2>2 DEF Same
  <2> QED
    BY <2>3
<1> HIDE DEF T
<1>5. N \in T
  <2>1. N \in 0 .. N
    OBVIOUS
  <2> QED
    BY <1>3, <1>4, <2>1, UpTo
<1> QED
  BY <1>2, <1>5 DEF T

LEMMA SamePicture ==
  ASSUME NEW S, NEW x \in Pictures, Same(S, x)
  PROVE  PictureOf(S) = x
BY DEF Same, PictureOf, Pictures

(* The picture a rollback starts from, and the one it leads to. *)
LEMMA RollbackPicture ==
  ASSUME TypesInv, HistoryInv, NEW h, IsHistory(h), NEW k \in DOMAIN batches,
         revision = batches[k].after
  PROVE  LET x == h[batches[k].review.revision]
             ledger == batches[k].rows IN
         /\ x \in Pictures
         /\ Like(Undone(k), x)
         /\ (\A i \in DOMAIN ledger : Exact(ledger[i])) => Same(Undone(k), x)
         /\ (\A i \in DOMAIN ledger : Inert(ledger[i])) => Same(x, Now)
<1>1. PICK b, x, e : b = batches[k] /\ x = h[b.review.revision] /\ e = b.review.entity
  OBVIOUS
<1>2. h \in [0 .. clock -> Pictures] /\ h[b.after] = Now /\ Traced(b, h)
  BY <1>1 DEF IsHistory
<1>3. PICK c : Chain(c, x, Now, b.rows, e)
  BY <1>1, <1>2 DEF Traced
<1>4. x \in Pictures
  BY <1>1, <1>2, BatchTimes
<1>5. Same(Store, Now)
  BY DEF Same, Store, Now
<1>6. b.rows \in Seq(Rows)
  <2>1. b \in Batches
    BY <1>1 DEF TypesInv
  <2> QED
    BY <2>1 DEF Batches
<1>7. (\A i \in DOMAIN b.rows : Inert(b.rows[i])) => Same(x, Now)
  BY <1>3, <1>6, InertChain
<1>8. /\ Like(Undone(k), x)
      /\ (\A i \in DOMAIN b.rows : Exact(b.rows[i])) => Same(Undone(k), x)
  BY <1>1, <1>3, <1>5, RollbackBack
<1> QED
  BY <1>1, <1>4, <1>7, <1>8

(* The commit of a rollback, in full. *)
LEMMA CommitRollbackIs ==
  ASSUME TypesInv, NEW p \in Session, CommitRollback(p)
  PROVE  \E k \in DOMAIN batches :
           /\ ~ Depended(k) /\ revision = batches[k].after
           /\ SetRows(Undone(k))
           /\ IF \A n \in DOMAIN batches[k].rows : Inert(batches[k].rows[n]) THEN Still
              ELSE IF \A n \in DOMAIN batches[k].rows : Exact(batches[k].rows[n])
              THEN revision' = batches[k].review.revision /\ UNCHANGED clock
              ELSE Touch
           /\ DOMAIN batches' = DOMAIN batches
           /\ \A i \in DOMAIN batches \ {k} : batches'[i] = batches[i]
           /\ batches'[k] = [batches[k] EXCEPT !.status = "rolled_back"]
           /\ live' = live \ {k} /\ deps' = deps
<1>1. PICK k : k = job[p].batch
  OBVIOUS
<1>2. k \in DOMAIN batches
  <2>1. job[p] \in RollingBack
    BY DEF CommitRollback, Holding, TypesInv, Applying
  <2> QED
    BY <1>1, <2>1 DEF RollingBack
<1>3. batches' = [batches EXCEPT ![k].status = "rolled_back"]
  BY <1>1 DEF CommitRollback
<1>4. /\ DOMAIN batches' = DOMAIN batches
      /\ \A i \in DOMAIN batches \ {k} : batches'[i] = batches[i]
      /\ batches'[k] = [batches[k] EXCEPT !.status = "rolled_back"]
  BY <1>2, <1>3 DEF TypesInv
<1>5. /\ ~ Depended(k) /\ revision = batches[k].after
      /\ SetRows(Undone(k))
      /\ IF \A n \in DOMAIN batches[k].rows : Inert(batches[k].rows[n]) THEN Still
         ELSE IF \A n \in DOMAIN batches[k].rows : Exact(batches[k].rows[n])
         THEN revision' = batches[k].review.revision /\ UNCHANGED clock
         ELSE Touch
      /\ live' = live \ {k} /\ deps' = deps
  BY <1>1 DEF CommitRollback, RollsBack
<1> QED
  BY <1>2, <1>4, <1>5

(* A rollback goes back to the picture before the batch or on to a new one. *)
LEMMA CommitRollbackHistory ==
  ASSUME TypesInv, HistoryInv, TypesInv', NEW p \in Session, CommitRollback(p)
  PROVE  HistoryInv'
<1>1. PICK k \in DOMAIN batches :
           /\ ~ Depended(k) /\ revision = batches[k].after
           /\ SetRows(Undone(k))
           /\ IF \A n \in DOMAIN batches[k].rows : Inert(batches[k].rows[n]) THEN Still
              ELSE IF \A n \in DOMAIN batches[k].rows : Exact(batches[k].rows[n])
              THEN revision' = batches[k].review.revision /\ UNCHANGED clock
              ELSE Touch
           /\ DOMAIN batches' = DOMAIN batches
           /\ \A i \in DOMAIN batches \ {k} : batches'[i] = batches[i]
           /\ batches'[k] = [batches[k] EXCEPT !.status = "rolled_back"]
           /\ live' = live \ {k} /\ deps' = deps
  BY CommitRollbackIs
<1>2. PICK h : IsHistory(h)
  BY DEF HistoryInv
<1>3. PICK ledger, x, t, r, U : /\ ledger = batches[k].rows /\ x = h[r] /\ t = clock
                                /\ r = batches[k].review.revision /\ U = Undone(k)
  OBVIOUS
<1>4. /\ x \in Pictures
      /\ (\A i \in DOMAIN ledger : Exact(ledger[i])) => Same(U, x)
      /\ (\A i \in DOMAIN ledger : Inert(ledger[i])) => Same(x, Now)
  BY <1>1, <1>2, <1>3, RollbackPicture
<1>5. /\ t \in Nat /\ h \in [0 .. t -> Pictures] /\ h[revision] = Now /\ revision \in 0 .. t
      /\ r \in 0 .. t
  BY <1>1, <1>2, <1>3, BatchTimes DEF IsHistory, TypesInv
<1>6. PICK y \in Pictures : y = Now'
  BY NextPicture
<1>7. y = PictureOf(U)
  BY <1>1, <1>3, <1>6, PictureAfter
<1>8. PICK g : /\ g \in [0 .. clock' -> Pictures] /\ g[revision'] = y
               /\ \A i \in 0 .. t : g[i] = h[i]
               /\ t <= clock' /\ revision' \in 0 .. clock'
  <2>1. CASE \A i \in DOMAIN ledger : Inert(ledger[i])
    <3>1. clock' = t /\ revision' = revision
      BY <1>1, <1>3, <2>1 DEF Still
    <3>2. Same(U, x) /\ Same(x, Now)
      BY <1>4, <2>1 DEF Inert, Exact
    <3>3. Now \in Pictures /\ Same(U, Now)
      BY <1>5, <3>2 DEF Same
    <3>4. y = Now
      BY <1>7, <3>3, SamePicture
    <3>5. h \in [0 .. clock' -> Pictures] /\ h[revision'] = y
      BY <1>5, <3>1, <3>4
    <3>6. t <= clock' /\ revision' \in 0 .. clock'
      BY <1>5, <3>1
    <3> WITNESS h
    <3> QED
      BY <3>5, <3>6
  <2>2. CASE /\ ~ \A i \in DOMAIN ledger : Inert(ledger[i])
             /\ \A i \in DOMAIN ledger : Exact(ledger[i])
    <3>1. clock' = t /\ revision' = r
      BY <1>1, <1>3, <2>2
    <3>2. y = x
      BY <1>4, <1>7, <2>2, SamePicture
    <3>3. h \in [0 .. clock' -> Pictures] /\ h[revision'] = y
      BY <1>3, <1>5, <3>1, <3>2
    <3>4. t <= clock' /\ revision' \in 0 .. clock'
      BY <1>5, <3>1
    <3> WITNESS h
    <3> QED
      BY <3>3, <3>4
  <2>3. CASE /\ ~ \A i \in DOMAIN ledger : Inert(ledger[i])
             /\ ~ \A i \in DOMAIN ledger : Exact(ledger[i])
    <3>1. Touch
      BY <1>1, <1>3, <2>3
    <3>2. clock' = t + 1 /\ revision' = t + 1
      BY <1>3, <3>1 DEF Touch
    <3>3. t \in Nat /\ h \in [0 .. t -> Pictures] /\ y \in Pictures
      BY <1>5
    <3>4. PICK g \in [0 .. t + 1 -> Pictures] : g[t + 1] = y /\ \A i \in 0 .. t : g[i] = h[i]
      BY <3>3, LongerHistory
    <3> QED
      BY <3>2, <3>3, <3>4
  <2> QED
    BY <2>1, <2>2, <2>3
<1>9. ASSUME NEW i \in DOMAIN batches
      PROVE  /\ batches'[i].review = batches[i].review /\ batches'[i].after = batches[i].after
             /\ batches'[i].rows = batches[i].rows /\ batches'[i].was = batches[i].was
  <2>1. batches[k] \in Batches
    BY DEF TypesInv
  <2>2. CASE i = k
    BY <1>1, <2>1, <2>2 DEF Batches
  <2>3. CASE i # k
    BY <1>1, <2>3
  <2> QED
    BY <2>2, <2>3
<1>10. ASSUME NEW i \in DOMAIN batches
       PROVE  Traced(batches'[i], g)
  <2>1. batches[i].review.revision \in 0 .. t /\ batches[i].after \in 0 .. t
    BY <1>3, BatchTimes
  <2>2. Traced(batches[i], h)
    BY <1>2 DEF IsHistory
  <2>3. PICK b, a : b = batches[i] /\ a = batches'[i]
    OBVIOUS
  <2>4. /\ Traced(b, h) /\ a.review = b.review /\ a.after = b.after /\ a.rows = b.rows
        /\ a.was = b.was
    BY <1>9, <2>2, <2>3
  <2>5. g[b.review.revision] = h[b.review.revision] /\ g[b.after] = h[b.after]
    BY <1>8, <2>1, <2>3
  <2> QED
    BY <2>3, <2>4, <2>5, TracedStill
<1>11. IsHistory(g)'
  BY <1>1, <1>6, <1>8, <1>10 DEF IsHistory
<1>12. ASSUME NEW i \in DOMAIN batches'
       PROVE  batches'[i].after <= clock'
  <2>1. batches[i].after \in 0 .. t /\ batches'[i].after = batches[i].after
    BY <1>1, <1>3, <1>9, BatchTimes
  <2>2. clock' \in Nat
    BY DEF TypesInv
  <2> QED
    BY <1>5, <1>8, <2>1, <2>2
<1> QED
  BY <1>11, <1>12 DEF HistoryInv

-----------------------------------------------------------------------------
(* Rows that are not there *)

(* What is not there has no scope and no link, and no row of the ledger *)
(* would link it again.                                                 *)
BareInv ==
  /\ AbsentIsBare
  /\ \A k \in DOMAIN batches : \A i \in DOMAIN batches[k].rows :
       batches[k].rows[i].action = "supersede" => status[batches[k].rows[i].old] # "absent"

LEMMA BareStore == AbsentIsBare <=> Bare(Store)
BY DEF AbsentIsBare, Bare, Store, LinksOf

LEMMA BareNext ==
  ASSUME NEW S, SetRows(S), Bare(S)
  PROVE  AbsentIsBare'
BY DEF AbsentIsBare, Bare, SetRows, LinksOf

(* A superseded text of the ledger is a text. *)
LEMMA ReplacedIsText ==
  ASSUME TypesInv, NEW k \in DOMAIN batches, NEW i \in DOMAIN batches[k].rows,
         batches[k].rows[i].action = "supersede"
  PROVE  batches[k].rows[i].old \in Text
<1>1. batches[k] \in Batches
  BY DEF TypesInv
<1>2. batches[k].rows[i] \in Rows
  BY <1>1 DEF Batches
<1> QED
  BY <1>2 DEF Rows, Coherent

LEMMA BareKept ==
  ASSUME TypesInv, BareInv, UNCHANGED batches, AbsentIsBare',
         \A t \in Text : status[t] # "absent" => status'[t] # "absent"
  PROVE  BareInv'
BY ReplacedIsText DEF BareInv

(* The other writers take no row away. *)
LEMMA DirectKeepsBare ==
  ASSUME TypeOK, AbsentIsBare, Direct
  PROVE  /\ AbsentIsBare'
         /\ \A t \in Text : status[t] # "absent" => status'[t] # "absent"
<1>1. ASSUME NEW old \in Text, NEW new \in Text, NEW e \in Entity, SupersedeFor(old, new, e)
      PROVE  /\ AbsentIsBare'
             /\ \A t \in Text : status[t] # "absent" => status'[t] # "absent"
  BY <1>1 DEF SupersedeFor, TypeOK, AbsentIsBare, LinksOf
<1>2. ASSUME NEW t \in Text, NEW e \in Entity, LinkEntity(t, e)
      PROVE  /\ AbsentIsBare'
             /\ UNCHANGED status
  BY <1>2 DEF LinkEntity, AbsentIsBare, LinksOf
<1>3. ASSUME NEW t \in Text, NEW how \in {"archived", "deleted"}, Retire(t, how)
      PROVE  /\ AbsentIsBare'
             /\ \A u \in Text : status[u] # "absent" => status'[u] # "absent"
  BY <1>3 DEF Retire, TypeOK, AbsentIsBare, LinksOf
<1> QED
  BY <1>1, <1>2, <1>3 DEF Direct

(* An import takes no row away. *)
LEMMA CommitApplyBare ==
  ASSUME TypesInv, BareInv, NEW p \in Session, CommitApply(p)
  PROVE  BareInv'
<1>1. PICK review \in Reviews, k \in Nat \ {0} :
           LET S == Import(review, k) IN
           /\ k = Len(batches) + 1
           /\ S \in Stores(k) /\ S.ok = TRUE
           /\ SetRows(S)
           /\ DOMAIN batches' = DOMAIN batches \cup {k}
           /\ \A i \in DOMAIN batches : batches'[i] = batches[i]
           /\ batches'[k].rows = S.rows
  BY CommitApplyIs
<1>2. PICK S : S = Import(review, k)
  OBVIOUS
<1>3. Carried(S, review.entity)
  <2>1. Bare(Store)
    BY BareStore DEF BareInv
  <2> QED
    BY <1>1, <1>2, <2>1, ImportCarried
<1>4. SetRows(S) /\ status' = S.status
  BY <1>1, <1>2 DEF SetRows
<1>5. AbsentIsBare'
  BY <1>3, <1>4, BareNext DEF Carried
<1>6. ASSUME NEW j \in DOMAIN batches, NEW i \in DOMAIN batches[j].rows,
             batches[j].rows[i].action = "supersede"
      PROVE  status'[batches[j].rows[i].old] # "absent"
  <2>1. batches[j].rows[i].old \in Text
    BY <1>6, ReplacedIsText
  <2> QED
    BY <1>3, <1>4, <1>6, <2>1 DEF BareInv, Carried, There
<1>7. ASSUME NEW i \in DOMAIN S.rows, S.rows[i].action = "supersede"
      PROVE  status'[S.rows[i].old] # "absent"
  BY <1>3, <1>4, <1>7 DEF Carried, There
<1> QED
  BY <1>1, <1>2, <1>5, <1>6, <1>7 DEF BareInv

LEMMA UndoKeepsBare ==
  ASSUME NEW m, NEW S \in Stores(m), NEW row \in Rows, NEW e \in Entity, NEW k,
         NEW X, X = Undo(S, row, e, k), Bare(S),
         row.action = "supersede" => S.status[row.old] # "absent"
  PROVE  /\ Bare(X)
         /\ \A u \in Text : S.status[u] # "absent" => X.status[u] # "absent"
<1>1. UndoDone(S, row, e, k, X)
  BY UndoIs
<1>2. /\ X.status = StatusBefore(S, row) /\ X.links = LinksBefore(S, row, e)
      /\ X.global = S.global
  BY <1>1 DEF UndoDone
<1>3. S.status \in [Text -> Statuses]
  BY DEF Stores
<1>4. \A u \in Text : X.status[u] = S.status[u] \/ X.status[u] \in {"archived", "active"}
  BY <1>2, <1>3 DEF StatusBefore
<1>5. \A l \in X.links : l \in S.links \/ (row.action = "supersede" /\ l = <<row.old, e>>)
  BY <1>2 DEF LinksBefore
<1> QED
  BY <1>2, <1>4, <1>5 DEF Bare

(* A rollback takes no row away. *)
LEMMA RetreatBare ==
  ASSUME TypesInv, BareInv, NEW k \in DOMAIN batches
  PROVE  /\ Bare(Undone(k))
         /\ \A u \in Text : status[u] # "absent" => Undone(k).status[u] # "absent"
<1>1. PICK N, R : BackSteps(k, N, R)
  BY RetreatSteps
<1>2. PICK ledger, e : ledger = batches[k].rows /\ e = batches[k].review.entity
  OBVIOUS
<1>3. /\ N \in Nat /\ N = Len(ledger) /\ Undone(k) = R[N] /\ R[0] = Store
      /\ \A n \in 0 .. N : R[n] \in Stores(Len(batches))
      /\ \A n \in 0 .. N : n < N =>
            ledger[N - n] \in Rows /\ R[n + 1] = Undo(R[n], ledger[N - n], e, k)
  BY <1>1, <1>2 DEF BackSteps
<1>4. e \in Entity /\ ledger \in Seq(Rows) /\ DOMAIN ledger = 1 .. N
  <2>1. batches[k] \in Batches
    BY DEF TypesInv
  <2> QED
    BY <1>2, <1>3, <2>1 DEF Batches, Reviews
<1> DEFINE T == {n \in Nat : n <= N =>
                   /\ Bare(R[n])
                   /\ \A u \in Text : status[u] # "absent" => R[n].status[u] # "absent"}
<1>5. 0 \in T
  <2>1. Bare(Store)
    BY BareStore DEF BareInv
  <2> QED
    BY <1>3, <2>1 DEF Store
<1>6. ASSUME NEW n \in Nat, n < N, n \in T
      PROVE  n + 1 \in T
  <2>1. n \in 0 .. N /\ n <= N /\ N - n \in 1 .. N
    BY <1>3, <1>6
  <2>2. PICK S, X, row : S = R[n] /\ X = R[n + 1] /\ row = ledger[N - n]
    OBVIOUS
  <2>3. row \in Rows /\ X = Undo(S, row, e, k) /\ S \in Stores(Len(batches))
    BY <1>3, <1>6, <2>1, <2>2
  <2>4. Bare(S) /\ \A u \in Text : status[u] # "absent" => S.status[u] # "absent"
    BY <1>6, <2>1, <2>2
  <2>5. ASSUME row.action = "supersede" PROVE S.status[row.old] # "absent"
    <3>1. row.old \in Text
      BY <2>3, <2>5 DEF Rows, Coherent
    <3>2. status[row.old] # "absent"
      BY <1>2, <1>4, <2>1, <2>2, <2>5 DEF BareInv
    <3> QED
      BY <2>4, <3>1, <3>2
  <2>6. Bare(X) /\ \A u \in Text : S.status[u] # "absent" => X.status[u] # "absent"
    BY <1>4, <2>3, <2>4, <2>5, UndoKeepsBare
  <2> QED
    BY <2>2, <2>4, <2>6
<1> HIDE DEF T
<1>7. N \in T
  <2>1. N \in 0 .. N
    BY <1>3
  <2> QED
    BY <1>3, <1>5, <1>6, <2>1, UpTo
<1>8. Bare(R[N]) /\ \A u \in Text : status[u] # "absent" => R[N].status[u] # "absent"
  BY <1>3, <1>7 DEF T
<1> QED
  BY <1>3, <1>8

LEMMA CommitRollbackBare ==
  ASSUME TypesInv, BareInv, NEW p \in Session, CommitRollback(p)
  PROVE  BareInv'
<1>1. PICK k \in DOMAIN batches :
           /\ SetRows(Undone(k))
           /\ DOMAIN batches' = DOMAIN batches
           /\ \A i \in DOMAIN batches \ {k} : batches'[i] = batches[i]
           /\ batches'[k] = [batches[k] EXCEPT !.status = "rolled_back"]
  BY CommitRollbackIs
<1>2. PICK S : S = Undone(k)
  OBVIOUS
<1>3. Bare(S) /\ \A u \in Text : status[u] # "absent" => S.status[u] # "absent"
  BY <1>2, RetreatBare
<1>4. SetRows(S) /\ status' = S.status
  BY <1>1, <1>2 DEF SetRows
<1>5. \A i \in DOMAIN batches : batches'[i].rows = batches[i].rows
  <2>1. batches[k] \in Batches
    BY DEF TypesInv
  <2>2. batches'[k].rows = batches[k].rows
    BY <1>1, <2>1 DEF Batches
  <2> QED
    BY <1>1, <2>2
<1>6. AbsentIsBare'
  BY <1>3, <1>4, BareNext
<1>7. ASSUME NEW j \in DOMAIN batches, NEW i \in DOMAIN batches[j].rows,
             batches[j].rows[i].action = "supersede"
      PROVE  status'[batches[j].rows[i].old] # "absent"
  <2>1. batches[j].rows[i].old \in Text
    BY <1>7, ReplacedIsText
  <2> QED
    BY <1>3, <1>4, <1>7, <2>1 DEF BareInv
<1> QED
  BY <1>1, <1>5, <1>6, <1>7 DEF BareInv

LEMMA InitBare == ImportInit => BareInv
<1> SUFFICES ASSUME ImportInit PROVE BareInv
  OBVIOUS
<1>1. DOMAIN batches = {}
  BY DEF ImportInit
<1>2. AbsentIsBare
  <2> SUFFICES ASSUME NEW t \in Text, status[t] = "absent"
               PROVE  t \notin global /\ LinksOf(t) = {}
    BY DEF AbsentIsBare
  <2>1. t \notin GivenGlobal /\ ~ \E e \in Entity : <<t, e>> \in GivenLinks
    BY DEF ImportInit
  <2>2. global = GivenGlobal /\ links = GivenLinks /\ GivenLinks \subseteq Text \X Entity
    BY ImportAssumption DEF ImportInit
  <2> QED
    BY <2>1, <2>2 DEF LinksOf
<1> QED
  BY <1>1, <1>2 DEF BareInv

-----------------------------------------------------------------------------
(* The inductive invariant *)

ImportInv == TypesInv /\ BareInv /\ HistoryInv

(* Steps that write no row and no batch. *)
LEMMA IdleKeepsInv ==
  ASSUME ImportInv, TypesInv', UNCHANGED <<vars, imports>>
  PROVE  ImportInv'
<1>1. UNCHANGED <<status, global, links, clock, revision, state, batches>>
  BY DEF vars, rows, imports
<1>2. AbsentIsBare' /\ Now' = Now
  BY <1>1 DEF ImportInv, BareInv, AbsentIsBare, LinksOf, Now
<1>3. BareInv'
  BY <1>1, <1>2, BareKept DEF ImportInv
<1>4. HistoryInv'
  BY <1>1, <1>2, HistoryStill DEF ImportInv
<1> QED
  BY <1>3, <1>4 DEF ImportInv

LEMMA OthersKeepInv ==
  ASSUME ImportInv, TypesInv', Others
  PROVE  ImportInv'
<1>1. CASE \E s \in Source, v \in Version : EditFile(s, v)
  BY <1>1, IdleKeepsInv DEF EditFile
<1>2. CASE OtherDirect
  <2>1. Direct /\ UNCHANGED batches /\ Touch
    BY <1>2 DEF OtherDirect, Elsewhere
  <2>2. /\ AbsentIsBare'
        /\ \A t \in Text : status[t] # "absent" => status'[t] # "absent"
    BY <2>1, DirectKeepsBare DEF ImportInv, TypesInv, BareInv
  <2>3. BareInv'
    BY <2>1, <2>2, BareKept DEF ImportInv
  <2>4. HistoryInv'
    BY <2>1, HistoryMoves DEF ImportInv
  <2> QED
    BY <2>3, <2>4 DEF ImportInv
<1>3. CASE \E e \in Entity : SetState(e)
  <2>1. UNCHANGED <<status, global, links, batches>> /\ Touch
    BY <1>3 DEF SetState, rows
  <2>2. AbsentIsBare'
    BY <2>1 DEF ImportInv, BareInv, AbsentIsBare, LinksOf
  <2>3. BareInv'
    BY <2>1, <2>2, BareKept DEF ImportInv
  <2>4. HistoryInv'
    BY <2>1, HistoryMoves DEF ImportInv
  <2> QED
    BY <2>3, <2>4 DEF ImportInv
<1> QED
  BY <1>1, <1>2, <1>3 DEF Others

(* Every step keeps the inductive invariant. *)
LEMMA StepImportInv == ImportInv /\ [ImportNext]_allVars => ImportInv'
<1> SUFFICES ASSUME ImportInv, [ImportNext]_allVars PROVE ImportInv'
  OBVIOUS
<1>1. TypesInv'
  BY StepTypes DEF ImportInv
<1>2. CASE UNCHANGED allVars
  BY <1>1, <1>2, IdleKeepsInv DEF allVars, importVars
<1>3. CASE Others
  BY <1>1, <1>3, OthersKeepInv
<1>4. ASSUME NEW p \in Session, CommitApply(p)
      PROVE  ImportInv'
  <2>1. BareInv'
    BY <1>4, CommitApplyBare DEF ImportInv
  <2>2. HistoryInv'
    BY <1>1, <1>4, CommitApplyHistory DEF ImportInv, BareInv
  <2> QED
    BY <1>1, <2>1, <2>2 DEF ImportInv
<1>5. ASSUME NEW p \in Session, CommitRollback(p)
      PROVE  ImportInv'
  <2>1. BareInv'
    BY <1>5, CommitRollbackBare DEF ImportInv
  <2>2. HistoryInv'
    BY <1>1, <1>5, CommitRollbackHistory DEF ImportInv
  <2> QED
    BY <1>1, <2>1, <2>2 DEF ImportInv
<1>6. ASSUME NEW p \in Session, Apply(p) \/ Rollback(p) \/ Crash(p)
      PROVE  CommitApply(p) \/ CommitRollback(p) \/ UNCHANGED <<vars, imports>>
  BY <1>6 DEF Apply, StartApply, RefuseApply, Rollback, StartRollback, RefuseRollback, Crash
<1> QED
  BY <1>1, <1>2, <1>3, <1>4, <1>5, <1>6, IdleKeepsInv DEF ImportNext

LEMMA ImportInvHolds == ImportSpec => []ImportInv
<1>1. ImportInit => ImportInv
  BY InitTypes, InitBare, InitHistory DEF ImportInv
<1> QED
  BY <1>1, StepImportInv, PTL DEF ImportSpec

-----------------------------------------------------------------------------
(* A rollback and the others *)

(* Only the commit of its rollback rolls a batch back. *)
LEMMA RolledBackIs ==
  ASSUME TypesInv, [ImportNext]_allVars, NEW k \in DOMAIN batches, RolledBack(k)
  PROVE  /\ SetRows(Undone(k)) /\ ~ Depended(k) /\ revision = batches[k].after
         /\ batches'[k].review = batches[k].review
         /\ \A i \in DOMAIN batches : /\ batches'[i].review = batches[i].review
                                      /\ batches'[i].rows = batches[i].rows
         /\ \A i \in DOMAIN batches \ {k} : batches'[i] = batches[i]
         /\ DOMAIN batches' = DOMAIN batches
<1>1. batches[k].status = "applied" /\ batches'[k].status = "rolled_back"
  BY DEF RolledBack, Applied
<1>2. \A p \in Session : ~ CommitApply(p)
  <2> SUFFICES ASSUME NEW p \in Session, CommitApply(p) PROVE FALSE
    OBVIOUS
  <2>1. batches'[k] = batches[k]
    BY CommitApplyIs
  <2> QED
    BY <1>1, <2>1
<1>3. PICK p \in Session : CommitRollback(p)
  BY <1>1, <1>2, StepKinds
<1>4. PICK j \in DOMAIN batches :
           /\ ~ Depended(j) /\ revision = batches[j].after
           /\ SetRows(Undone(j))
           /\ DOMAIN batches' = DOMAIN batches
           /\ \A i \in DOMAIN batches \ {j} : batches'[i] = batches[i]
           /\ batches'[j] = [batches[j] EXCEPT !.status = "rolled_back"]
  BY <1>3, CommitRollbackIs
<1>5. k = j
  BY <1>1, <1>4
<1>6. batches'[k].review = batches[k].review /\ batches'[k].rows = batches[k].rows
  <2>1. batches[k] \in Batches
    BY DEF TypesInv
  <2> QED
    BY <1>4, <1>5, <2>1 DEF Batches
<1> QED
  BY <1>4, <1>5, <1>6

LEMMA WhatNext ==
  ASSUME NEW S, SetRows(S), NEW f
  PROVE  What(f)' = Sight(S, f)
BY DEF What, Sight, SeenIn, SetRows, Visible, Active

(* What an entity sees after a rollback it saw before the batch; if the batch *)
(* is another entity's, it never saw anything else.                           *)
LEMMA RollbackSight ==
  ASSUME ImportInv, [ImportNext]_allVars, NEW k \in DOMAIN batches, RolledBack(k),
         NEW f \in Entity
  PROVE  /\ What(f)' = batches[k].was[f]
         /\ f # batches[k].review.entity => What(f)' = What(f)
<1>1. SetRows(Undone(k)) /\ revision = batches[k].after
  BY RolledBackIs DEF ImportInv
<1>2. PICK h : IsHistory(h)
  BY DEF ImportInv, HistoryInv
<1>3. PICK b, x, U : b = batches[k] /\ x = h[b.review.revision] /\ U = Undone(k)
  OBVIOUS
<1>4. Like(U, x)
  BY <1>1, <1>2, <1>3, RollbackPicture DEF ImportInv
<1>5. h[b.after] = Now /\ Traced(b, h)
  BY <1>1, <1>2, <1>3 DEF IsHistory
<1>6. What(f)' = Sight(U, f)
  <2>1. SetRows(U)
    BY <1>1, <1>3 DEF SetRows
  <2> QED
    BY <2>1, WhatNext
<1>7. Sight(U, f) = Sight(x, f)
  BY <1>4, SightLike
<1>8. b.was[f] = Sight(x, f) /\ (f # b.review.entity => Sight(Now, f) = b.was[f])
  <2>1. \A g \in Entity :
          /\ b.was[g] = Sight(h[b.review.revision], g)
          /\ g # b.review.entity => Sight(h[b.after], g) = b.was[g]
    BY <1>5 DEF Traced
  <2>2. /\ b.was[f] = Sight(h[b.review.revision], f)
        /\ f # b.review.entity => Sight(h[b.after], f) = b.was[f]
    BY <2>1
  <2> QED
    BY <1>3, <1>5, <2>2
<1>9. What(f) = Sight(Now, f)
  BY WhatIs, NowIs, SightOf
<1> QED
  BY <1>3, <1>6, <1>7, <1>8, <1>9

(* A rollback brings back what every entity saw before the batch. *)
THEOREM RollbackRestoresHolds == ImportSpec => RollbackRestores
<1>1. ImportInv /\ [ImportNext]_allVars =>
       [\A k \in DOMAIN batches : RolledBack(k) =>
          \A e \in Entity : What(e)' = batches[k].was[e]]_allVars
  BY RollbackSight
<1> QED
  BY <1>1, ImportInvHolds, PTL DEF ImportSpec, RollbackRestores

(* An import changes nothing another entity sees. *)
LEMMA ApplySight ==
  ASSUME ImportInv, NEW p \in Session, CommitApply(p), NEW k \in DOMAIN batches' \ DOMAIN batches,
         NEW f \in Entity, f # batches'[k].review.entity
  PROVE  What(f)' = What(f)
<1>1. PICK review \in Reviews, j \in Nat \ {0} :
           LET S == Import(review, j) IN
           /\ j = Len(batches) + 1
           /\ S \in Stores(j) /\ S.ok = TRUE
           /\ SetRows(S)
           /\ DOMAIN batches' = DOMAIN batches \cup {j}
           /\ batches'[j].review = review
  BY CommitApplyIs DEF ImportInv
<1>2. PICK S, e : S = Import(review, j) /\ e = review.entity
  OBVIOUS
<1>3. Carried(S, e)
  <2>1. Bare(Store) /\ TypesInv
    BY BareStore DEF ImportInv, BareInv
  <2> QED
    BY <1>1, <1>2, <2>1, ImportCarried
<1>4. f # e
  BY <1>1, <1>2
<1>5. Sight(S, f) = Sight(Store, f)
  BY <1>3, <1>4 DEF Carried, Sight
<1>6. What(f)' = Sight(S, f)
  BY <1>1, <1>2, WhatNext
<1> QED
  BY <1>5, <1>6, WhatIs

(* An import and its rollback change what no other entity sees. *)
THEOREM ImportStaysInScopeHolds == ImportSpec => ImportStaysInScope
<1>1. ImportInv /\ [ImportNext]_allVars =>
       [\A k \in DOMAIN batches' : k \notin DOMAIN batches \/ RolledBack(k) =>
          \A e \in Entity \ {batches'[k].review.entity} : What(e)' = What(e)]_allVars
  <2> SUFFICES ASSUME ImportInv, [ImportNext]_allVars, NEW k \in DOMAIN batches',
                      k \notin DOMAIN batches \/ RolledBack(k),
                      NEW f \in Entity, f # batches'[k].review.entity
               PROVE  What(f)' = What(f)
    OBVIOUS
  <2>1. CASE k \notin DOMAIN batches
    <3>1. TypesInv
      BY DEF ImportInv
    <3>2. \A p \in Session : ~ CommitRollback(p)
      BY <2>1, <3>1, CommitRollbackIs
    <3>3. PICK p \in Session : CommitApply(p)
      BY <2>1, <3>2, StepKinds
    <3> QED
      BY <2>1, <3>3, ApplySight
  <2>2. CASE k \in DOMAIN batches
    <3>1. RolledBack(k)
      BY <2>2
    <3>2. batches'[k].review = batches[k].review
      BY <2>2, <3>1, RolledBackIs DEF ImportInv
    <3> QED
      BY <2>2, <3>1, <3>2, RollbackSight
  <2> QED
    BY <2>1, <2>2
<1> QED
  BY <1>1, ImportInvHolds, PTL DEF ImportSpec, ImportStaysInScope

-----------------------------------------------------------------------------
(* The ledger *)

(* The row of the ledger was left by such a decision. *)
Answers(row, d) == row.entry = d.entry /\ row.action = d.action /\ row.old = d.old

(* A row of the batch, for that entity, answers the decision. *)
Kept(b, e, d) ==
  b.review.entity = e /\ \E n \in DOMAIN b.rows : Answers(b.rows[n], d)

(* Every decision of a live batch has its row, there or in a batch of the    *)
(* same entity that it depends on; no two live batches have the same row.    *)
LedgerInv ==
  /\ live = {k \in DOMAIN batches : Applied(k)}
  /\ \A j \in live : \A n \in DOMAIN batches[j].review.decisions :
       LET d == batches[j].review.decisions[n] IN
       \/ d.action = "skip"
       \/ \E i \in live : /\ Kept(batches[i], batches[j].review.entity, d)
                          /\ i = j \/ <<j, i>> \in deps
  /\ \A i, j \in live : \A n \in DOMAIN batches[i].rows :
       Kept(batches[j], batches[i].review.entity, batches[i].rows[n]) => i = j
  /\ \A i \in live : \A n \in DOMAIN batches[i].rows :
       batches[i].rows[n].action = "rule" => RuleId(i, batches[i].rows[n].entry) \in rules

(* The lookup of earlier batches, by what they keep. *)
LEMMA PriorsAre ==
  ASSUME NEW d, NEW e, NEW i
  PROVE  i \in Priors(d, e) <=> i \in live /\ Kept(batches[i], e, d)
BY DEF Priors, Kept, Answers

(* The decision has its row, or a batch it now depends on has one. *)
Settled(S, d, e, k) ==
  \/ d.action = "skip"
  \/ \E n \in DOMAIN S.rows : Answers(S.rows[n], d)
  \/ \E i \in live : Kept(batches[i], e, d) /\ <<k, i>> \in S.deps

(* No rule is lost, each rule row has its rule, and no live batch has the *)
(* same row already.                                                      *)
Booked(S, e, k) ==
  /\ rules \subseteq S.rules
  /\ \A n \in DOMAIN S.rows :
       /\ S.rows[n].action = "rule" => RuleId(k, S.rows[n].entry) \in S.rules
       /\ \A i \in live : ~ Kept(batches[i], e, S.rows[n])

LEMMA BookedRow ==
  ASSUME NEW k \in Nat \ {0}, NEW S \in Stores(k), NEW X \in Stores(k), NEW d \in Decisions,
         NEW e \in Entity, NEW row \in Rows, Booked(S, e, k), Priors(d, e) = {},
         Answers(row, d), X.rows = Append(S.rows, row), S.rules \subseteq X.rules,
         S.deps = X.deps, d.action = "rule" => RuleId(k, d.entry) \in X.rules
  PROVE  /\ Booked(X, e, k) /\ Settled(X, d, e, k)
         /\ \A c : Settled(S, c, e, k) => Settled(X, c, e, k)
<1>1. PICK ledger, longer : ledger \in Seq(Rows) /\ ledger = S.rows /\ longer = X.rows
  BY DEF Stores
<1>2. /\ \A i \in DOMAIN ledger : i \in DOMAIN longer /\ longer[i] = ledger[i]
      /\ \E j \in DOMAIN longer : longer[j] = row
      /\ \A j \in DOMAIN longer : longer[j] = row \/ (j \in DOMAIN ledger /\ longer[j] = ledger[j])
  BY <1>1, LongerBy
<1>3. \A i \in live : ~ Kept(batches[i], e, row)
  <2> SUFFICES ASSUME NEW i \in live, Kept(batches[i], e, row) PROVE FALSE
    OBVIOUS
  <2>1. Kept(batches[i], e, d)
    BY DEF Kept, Answers
  <2> QED
    BY <2>1, PriorsAre
<1>4. ASSUME NEW j \in DOMAIN longer
      PROVE  /\ longer[j].action = "rule" => RuleId(k, longer[j].entry) \in X.rules
             /\ \A i \in live : ~ Kept(batches[i], e, longer[j])
  <2>1. CASE longer[j] = row
    BY <1>3, <2>1 DEF Answers
  <2>2. CASE j \in DOMAIN ledger /\ longer[j] = ledger[j]
    BY <1>1, <2>2 DEF Booked
  <2> QED
    BY <1>2, <2>1, <2>2
<1>5. Booked(X, e, k)
  BY <1>1, <1>4 DEF Booked
<1>6. Settled(X, d, e, k)
  BY <1>1, <1>2 DEF Settled
<1>7. ASSUME NEW c, Settled(S, c, e, k)
      PROVE  Settled(X, c, e, k)
  <2>1. CASE \E n \in DOMAIN S.rows : Answers(S.rows[n], c)
    <3>1. PICK n \in DOMAIN ledger : Answers(ledger[n], c)
      BY <1>1, <2>1
    <3>2. n \in DOMAIN longer /\ Answers(longer[n], c)
      BY <1>2, <3>1
    <3> QED
      BY <1>1, <3>2 DEF Settled
  <2> QED
    BY <1>7, <2>1 DEF Settled
<1> QED
  BY <1>5, <1>6, <1>7

(* Every item that does not fail settles its decision for good. *)
LEMMA BookedItem ==
  ASSUME NEW k \in Nat \ {0}, NEW S \in Stores(k), NEW d \in Decisions, NEW e \in Entity,
         S.ok = TRUE, NEW X \in Stores(k), X = ImportItem(S, d, e, k), X.ok = TRUE,
         Booked(S, e, k)
  PROVE  /\ Booked(X, e, k) /\ Settled(X, d, e, k)
         /\ \A c : Settled(S, c, e, k) => Settled(X, c, e, k)
<1>1. CASE X = S /\ d.action = "skip"
  BY <1>1 DEF Settled
<1>2. CASE Repeated(S, d, e, k, X)
  <2>1. X.rows = S.rows /\ X.rules = S.rules /\ S.deps \subseteq X.deps
    BY <1>2 DEF Repeated
  <2>2. PICK i \in Priors(d, e) : <<k, i>> \in X.deps
    BY <1>2 DEF Repeated
  <2>3. Settled(X, d, e, k)
    BY <2>2, PriorsAre DEF Settled
  <2>4. Booked(X, e, k)
    BY <2>1 DEF Booked
  <2>5. \A c : Settled(S, c, e, k) => Settled(X, c, e, k)
    BY <2>1 DEF Settled
  <2> QED
    BY <2>3, <2>4, <2>5
<1>3. ASSUME NEW row \in Rows, Priors(d, e) = {},
             FactDone(S, d, e, X, row) \/ OtherDone(S, d, e, k, X, row)
      PROVE  /\ Booked(X, e, k) /\ Settled(X, d, e, k)
             /\ \A c : Settled(S, c, e, k) => Settled(X, c, e, k)
  <2>1. /\ Answers(row, d) /\ X.rows = Append(S.rows, row) /\ S.rules \subseteq X.rules
        /\ S.deps = X.deps /\ (d.action = "rule" => RuleId(k, d.entry) \in X.rules)
    <3>1. CASE FactDone(S, d, e, X, row)
      BY <3>1 DEF FactDone, Answers
    <3>2. CASE OtherDone(S, d, e, k, X, row)
      BY <3>2 DEF OtherDone, Answers, Decisions, Coherent
    <3> QED
      BY <1>3, <3>1, <3>2
  <2> QED
    BY <1>3, <2>1, BookedRow
<1> QED
  BY <1>1, <1>2, <1>3, ItemIs

(* An import that succeeds has settled every decision. *)
LEMMA ImportBooked ==
  ASSUME TypesInv, NEW review \in Reviews, NEW k, k = Len(batches) + 1,
         NEW S, S = Import(review, k), S.ok = TRUE
  PROVE  /\ Booked(S, review.entity, k)
         /\ \A n \in DOMAIN review.decisions : Settled(S, review.decisions[n], review.entity, k)
<1>1. PICK N, P : Steps(review, k, N, P)
  <2>1. Import(review, k).ok = TRUE
    OBVIOUS
  <2> QED
    BY <2>1, ProgressSteps
<1>2. PICK e, ds : e \in Entity /\ e = review.entity /\ ds = review.decisions
  BY DEF Reviews
<1>3. /\ e \in Entity /\ k \in Nat \ {0} /\ N \in Nat /\ S = P[N] /\ P[0] = Store
      /\ DOMAIN ds = 1 .. N
  BY <1>1, <1>2 DEF Steps, TypesInv, Reviews
<1>4. /\ \A n \in 0 .. N : P[n] \in Stores(k) /\ P[n].ok = TRUE
      /\ \A n \in 1 .. N : ds[n] \in Decisions /\ P[n] = ImportItem(P[n - 1], ds[n], e, k)
  BY <1>1, <1>2 DEF Steps
<1> DEFINE T == {n \in Nat : n <= N =>
                   Booked(P[n], e, k) /\ \A m \in 1 .. n : Settled(P[n], ds[m], e, k)}
<1>5. 0 \in T
  <2>1. Store.rows = << >> /\ Store.rules = rules
    BY DEF Store
  <2>2. Booked(Store, e, k)
    BY <2>1 DEF Booked
  <2> QED
    BY <1>3, <2>2
<1>6. ASSUME NEW n \in Nat, n < N, n \in T
      PROVE  n + 1 \in T
  <2>1. /\ n \in 0 .. N /\ n + 1 \in 0 .. N /\ n + 1 \in 1 .. N /\ n + 1 - 1 = n /\ n <= N
        /\ \A m \in 1 .. n + 1 : m \in 1 .. n \/ m = n + 1
    BY <1>3, <1>6
  <2>2. PICK U, X, d : U = P[n] /\ X = P[n + 1] /\ d = ds[n + 1]
    OBVIOUS
  <2>3. /\ U \in Stores(k) /\ U.ok = TRUE /\ X \in Stores(k) /\ X.ok = TRUE /\ d \in Decisions
        /\ X = ImportItem(U, d, e, k)
    BY <1>4, <2>1, <2>2
  <2>4. Booked(U, e, k) /\ \A m \in 1 .. n : Settled(U, ds[m], e, k)
    BY <1>6, <2>1, <2>2
  <2>5. Booked(U, e, k)
    BY <2>4
  <2>6. /\ Booked(X, e, k) /\ Settled(X, d, e, k)
        /\ \A c : Settled(U, c, e, k) => Settled(X, c, e, k)
    BY <1>3, <2>3, <2>5, BookedItem
  <2>7. \A m \in 1 .. n + 1 : Settled(X, ds[m], e, k)
    BY <2>1, <2>2, <2>4, <2>6
  <2> QED
    BY <2>2, <2>6, <2>7
<1> HIDE DEF T
<1>7. N \in T
  <2>1. N \in 0 .. N
    BY <1>3
  <2> QED
    BY <1>3, <1>5, <1>6, <2>1, UpTo
<1>8. N <= N
  BY <1>3
<1> QED
  BY <1>2, <1>3, <1>7, <1>8 DEF T

(* An import keeps the ledger in order. *)
LEMMA CommitApplyLedger ==
  ASSUME TypesInv, LedgerInv, NEW p \in Session, CommitApply(p)
  PROVE  LedgerInv'
<1>1. PICK review \in Reviews, k \in Nat \ {0} :
           LET S == Import(review, k) IN
           /\ k = Len(batches) + 1 /\ k \notin DOMAIN batches
           /\ S \in Stores(k) /\ S.ok = TRUE
           /\ SetRows(S) /\ live' = live \cup {k} /\ deps' = deps \cup S.deps
           /\ DOMAIN batches' = DOMAIN batches \cup {k}
           /\ \A i \in DOMAIN batches : batches'[i] = batches[i]
           /\ batches'[k].review = review /\ batches'[k].status = "applied"
           /\ batches'[k].rows = S.rows
  BY CommitApplyIs
<1>2. PICK S, e, ds : S = Import(review, k) /\ e = review.entity /\ ds = review.decisions
  OBVIOUS
<1>3. Booked(S, e, k) /\ \A n \in DOMAIN ds : Settled(S, ds[n], e, k)
  BY <1>1, <1>2, ImportBooked
<1>4. /\ rules' = S.rules /\ live' = live \cup {k} /\ deps' = deps \cup S.deps
      /\ k \notin live /\ live \subseteq DOMAIN batches
  BY <1>1, <1>2 DEF SetRows, TypesInv
<1>5. batches'[k].review = review /\ batches'[k].rows = S.rows /\ batches'[k].status = "applied"
  BY <1>1, <1>2
<1>6. \A i \in live : batches'[i] = batches[i]
  BY <1>1, <1>4
<1>7. \A f, d : Kept(batches'[k], f, d) <=> f = e /\ \E n \in DOMAIN S.rows : Answers(S.rows[n], d)
  BY <1>2, <1>5 DEF Kept
<1>8. live' = {i \in DOMAIN batches' : Applied(i)'}
  BY <1>1, <1>4, <1>5 DEF LedgerInv, Applied
<1>9. ASSUME NEW j \in live', NEW n \in DOMAIN batches'[j].review.decisions,
             NEW d, d = batches'[j].review.decisions[n], d.action # "skip"
      PROVE  \E i \in live' : /\ Kept(batches'[i], batches'[j].review.entity, d)
                              /\ i = j \/ <<j, i>> \in deps'
  <2>1. CASE j \in live
    <3>1. batches'[j] = batches[j]
      BY <1>1, <1>4, <2>1
    <3>2. PICK i \in live : /\ Kept(batches[i], batches[j].review.entity, d)
                            /\ i = j \/ <<j, i>> \in deps
      BY <1>9, <2>1, <3>1 DEF LedgerInv
    <3> QED
      BY <1>4, <1>6, <3>1, <3>2
  <2>2. CASE j = k
    <3>1. batches'[j].review.entity = e /\ Settled(S, d, e, k)
      BY <1>2, <1>3, <1>5, <1>9, <2>2
    <3>2. CASE \E m \in DOMAIN S.rows : Answers(S.rows[m], d)
      BY <1>4, <1>7, <2>2, <3>1, <3>2
    <3>3. CASE \E i \in live : Kept(batches[i], e, d) /\ <<k, i>> \in S.deps
      BY <1>4, <1>6, <2>2, <3>1, <3>3
    <3> QED
      BY <1>9, <3>1, <3>2, <3>3 DEF Settled
  <2> QED
    BY <1>4, <2>1, <2>2
<1>10. ASSUME NEW i \in live', NEW j \in live', NEW n \in DOMAIN batches'[i].rows,
              Kept(batches'[j], batches'[i].review.entity, batches'[i].rows[n])
       PROVE  i = j
  <2>1. CASE i \in live /\ j \in live
    <3>1. batches'[i] = batches[i]
      BY <1>1, <1>4, <2>1
    <3>2. Kept(batches[j], batches[i].review.entity, batches[i].rows[n])
      BY <1>6, <1>10, <2>1, <3>1
    <3> QED
      BY <2>1, <3>1, <3>2 DEF LedgerInv
  <2>2. CASE i = k /\ j \in live
    <3>1. batches'[i].review.entity = e /\ batches'[i].rows = S.rows
      BY <1>2, <1>5, <2>2
    <3>2. Kept(batches[j], e, S.rows[n]) /\ n \in DOMAIN S.rows
      BY <1>6, <1>10, <2>2, <3>1
    <3> QED
      BY <1>3, <2>2, <3>2 DEF Booked
  <2>3. CASE i \in live /\ j = k
    <3>1. batches'[i] = batches[i]
      BY <1>1, <1>4, <2>3
    <3>2. PICK m \in DOMAIN S.rows : Answers(S.rows[m], batches[i].rows[n])
      BY <1>7, <1>10, <2>3, <3>1
    <3>3. batches[i].review.entity = e
      BY <1>7, <1>10, <2>3, <3>1
    <3>4. n \in DOMAIN batches[i].rows /\ Answers(batches[i].rows[n], S.rows[m])
      BY <3>1, <3>2 DEF Answers
    <3>5. Kept(batches[i], e, S.rows[m])
      BY <3>3, <3>4 DEF Kept
    <3> QED
      BY <1>3, <2>3, <3>5 DEF Booked
  <2> QED
    BY <1>4, <2>1, <2>2, <2>3
<1>11. ASSUME NEW i \in live', NEW n \in DOMAIN batches'[i].rows,
              batches'[i].rows[n].action = "rule"
       PROVE  RuleId(i, batches'[i].rows[n].entry) \in rules'
  <2>1. CASE i \in live
    <3>1. batches'[i] = batches[i]
      BY <1>1, <1>4, <2>1
    <3>2. RuleId(i, batches[i].rows[n].entry) \in rules
      BY <1>11, <2>1, <3>1 DEF LedgerInv
    <3> QED
      BY <1>3, <1>4, <3>1, <3>2 DEF Booked
  <2>2. CASE i = k
    BY <1>3, <1>4, <1>5, <1>11, <2>2 DEF Booked
  <2> QED
    BY <1>4, <2>1, <2>2
<1> QED
  BY <1>8, <1>9, <1>10, <1>11 DEF LedgerInv

(* Some row of the ledger brought the text to its entity. *)
Brought(ledger, t) ==
  \E m \in DOMAIN ledger :
    /\ IsFact(ledger[m]) /\ TextOf[ledger[m].entry] = t
    /\ ledger[m].created \/ ledger[m].reactivated \/ ledger[m].linked

(* An undo of the ledger of batch k that leads to X takes away only what the *)
(* ledger brought.                                                           *)
Spared(k, ledger, e, X) ==
  /\ \A x \in rules : \/ x \in X.rules
                      \/ \E m \in DOMAIN ledger : x = RuleId(k, ledger[m].entry)
  /\ \A t \in Text : t \in SeenIn(Store, e) /\ ~ Brought(ledger, t) => t \in SeenIn(X, e)
  /\ (\A m \in DOMAIN ledger : ledger[m].action # "state") => X.state = state

(* The undo of a row takes away only what the row brought. *)
LEMMA UndoSpares ==
  ASSUME NEW i, NEW S \in Stores(i), NEW ledger, NEW m \in DOMAIN ledger,
         NEW row \in Rows, row = ledger[m], NEW e \in Entity, NEW k,
         NEW X, X = Undo(S, row, e, k), Spared(k, ledger, e, S)
  PROVE  Spared(k, ledger, e, X)
<1>1. UndoDone(S, row, e, k, X)
  BY UndoIs
<1>2. /\ X.status = StatusBefore(S, row) /\ X.links = LinksBefore(S, row, e)
      /\ X.state = StateBefore(S, row, e) /\ X.global = S.global
      /\ X.rules = IF row.action = "rule" THEN S.rules \ {RuleId(k, row.entry)} ELSE S.rules
  BY <1>1 DEF UndoDone
<1>3. S.status \in [Text -> Statuses]
  BY DEF Stores
<1>4. ASSUME NEW x \in rules, x \notin X.rules
      PROVE  \E l \in DOMAIN ledger : x = RuleId(k, ledger[l].entry)
  BY <1>2, <1>4 DEF Spared
<1>5. ASSUME NEW t \in Text, t \in SeenIn(Store, e), ~ Brought(ledger, t)
      PROVE  t \in SeenIn(X, e)
  <2>1. S.status[t] = "active" /\ (t \in S.global \/ <<t, e>> \in S.links)
    BY <1>5 DEF Spared, SeenIn
  <2>2. ~ (IsFact(row) /\ TextOf[row.entry] = t
           /\ (row.created \/ row.reactivated \/ row.linked))
    BY <1>5 DEF Brought
  <2>3. X.status[t] = "active"
    BY <1>2, <1>3, <2>1, <2>2 DEF StatusBefore
  <2>4. <<t, e>> \in S.links => <<t, e>> \in X.links
    BY <1>2, <2>2 DEF LinksBefore
  <2> QED
    BY <1>2, <2>1, <2>3, <2>4 DEF SeenIn
<1>6. (\A l \in DOMAIN ledger : ledger[l].action # "state") => X.state = state
  BY <1>2 DEF Spared, StateBefore
<1> QED
  BY <1>4, <1>5, <1>6 DEF Spared

LEMMA RetreatSpares ==
  ASSUME TypesInv, NEW k \in DOMAIN batches
  PROVE  Spared(k, batches[k].rows, batches[k].review.entity, Undone(k))
<1>1. PICK N, R : BackSteps(k, N, R)
  BY RetreatSteps
<1>2. PICK ledger, e : ledger = batches[k].rows /\ e = batches[k].review.entity
  OBVIOUS
<1>3. /\ N \in Nat /\ N = Len(ledger) /\ Undone(k) = R[N] /\ R[0] = Store
      /\ \A n \in 0 .. N : R[n] \in Stores(Len(batches))
      /\ \A n \in 0 .. N : n < N =>
            ledger[N - n] \in Rows /\ R[n + 1] = Undo(R[n], ledger[N - n], e, k)
  BY <1>1, <1>2 DEF BackSteps
<1>4. e \in Entity /\ DOMAIN ledger = 1 .. N
  <2>1. batches[k] \in Batches
    BY DEF TypesInv
  <2>2. ledger \in Seq(Rows)
    BY <1>2, <2>1 DEF Batches
  <2> QED
    BY <1>2, <1>3, <2>1, <2>2 DEF Batches, Reviews
<1> DEFINE T == {n \in Nat : n <= N => Spared(k, ledger, e, R[n])}
<1>5. 0 \in T
  <2>1. Spared(k, ledger, e, Store)
    BY DEF Spared, Store
  <2> QED
    BY <1>3, <2>1
<1>6. ASSUME NEW n \in Nat, n < N, n \in T
      PROVE  n + 1 \in T
  <2>1. n \in 0 .. N /\ n <= N /\ N - n \in DOMAIN ledger
    BY <1>3, <1>4, <1>6
  <2>2. PICK m, S, X, row : m = N - n /\ S = R[n] /\ X = R[n + 1] /\ row = ledger[m]
    OBVIOUS
  <2>3. /\ m \in DOMAIN ledger /\ row \in Rows /\ X = Undo(S, row, e, k)
        /\ S \in Stores(Len(batches)) /\ Spared(k, ledger, e, S)
    BY <1>3, <1>6, <2>1, <2>2
  <2>4. Spared(k, ledger, e, X)
    BY <1>4, <2>2, <2>3, UndoSpares
  <2> QED
    BY <2>2, <2>4
<1> HIDE DEF T
<1>7. N \in T
  <2>1. N \in 0 .. N
    BY <1>3
  <2> QED
    BY <1>3, <1>5, <1>6, <2>1, UpTo
<1>8. N <= N
  BY <1>3
<1> QED
  BY <1>2, <1>3, <1>7, <1>8 DEF T

(* A rollback keeps the ledger in order: nothing applied depends on it. *)
LEMMA CommitRollbackLedger ==
  ASSUME TypesInv, LedgerInv, NEW p \in Session, CommitRollback(p)
  PROVE  LedgerInv'
<1>1. PICK k \in DOMAIN batches :
           /\ ~ Depended(k)
           /\ SetRows(Undone(k))
           /\ DOMAIN batches' = DOMAIN batches
           /\ \A i \in DOMAIN batches \ {k} : batches'[i] = batches[i]
           /\ batches'[k] = [batches[k] EXCEPT !.status = "rolled_back"]
           /\ live' = live \ {k} /\ deps' = deps
  BY CommitRollbackIs
<1>2. \A i \in live' : i \in live /\ i # k /\ batches'[i] = batches[i]
  BY <1>1 DEF TypesInv
<1>3. live' = {i \in DOMAIN batches' : Applied(i)'}
  <2>1. batches[k] \in Batches
    BY DEF TypesInv
  <2>2. batches'[k].status = "rolled_back"
    BY <1>1, <2>1 DEF Batches
  <2> QED
    BY <1>1, <2>2 DEF LedgerInv, Applied
<1>4. ASSUME NEW j \in live', NEW n \in DOMAIN batches'[j].review.decisions,
             NEW d, d = batches'[j].review.decisions[n], d.action # "skip"
      PROVE  \E i \in live' : /\ Kept(batches'[i], batches'[j].review.entity, d)
                              /\ i = j \/ <<j, i>> \in deps'
  <2>1. j \in live /\ j # k /\ batches'[j] = batches[j]
    BY <1>2
  <2>2. PICK i \in live : /\ Kept(batches[i], batches[j].review.entity, d)
                          /\ i = j \/ <<j, i>> \in deps
    BY <1>4, <2>1 DEF LedgerInv
  <2>3. i # k
    <3>1. Applied(j) /\ j \in DOMAIN batches
      BY <2>1 DEF LedgerInv
    <3>2. <<j, k>> \notin deps
      BY <1>1, <3>1 DEF Depended
    <3> QED
      BY <2>1, <2>2, <3>2
  <2>4. i \in live'
    BY <1>1, <2>2, <2>3
  <2>5. batches'[i] = batches[i]
    BY <1>2, <2>4
  <2> QED
    BY <1>1, <2>1, <2>2, <2>4, <2>5
<1>5. ASSUME NEW i \in live', NEW j \in live', NEW n \in DOMAIN batches'[i].rows,
             Kept(batches'[j], batches'[i].review.entity, batches'[i].rows[n])
      PROVE  i = j
  BY <1>2, <1>5 DEF LedgerInv
<1>6. ASSUME NEW i \in live', NEW n \in DOMAIN batches'[i].rows,
             batches'[i].rows[n].action = "rule"
      PROVE  RuleId(i, batches'[i].rows[n].entry) \in rules'
  <2>1. i \in live /\ i # k /\ batches'[i] = batches[i]
    BY <1>2
  <2>2. RuleId(i, batches[i].rows[n].entry) \in rules
    BY <1>6, <2>1 DEF LedgerInv
  <2>3. PICK x : x = RuleId(i, batches[i].rows[n].entry)
    OBVIOUS
  <2>4. \A entry : x # RuleId(k, entry)
    BY <2>1, <2>3 DEF RuleId
  <2>5. x \in Undone(k).rules
    BY <2>2, <2>3, <2>4, RetreatSpares DEF Spared
  <2> QED
    BY <1>1, <2>1, <2>3, <2>5 DEF SetRows
<1> QED
  BY <1>3, <1>4, <1>5, <1>6 DEF LedgerInv

LEMMA LedgerHolds == ImportSpec => []LedgerInv
<1>1. ImportInit => LedgerInv
  BY DEF ImportInit, LedgerInv
<1>2. TypesInv /\ LedgerInv /\ [ImportNext]_allVars => LedgerInv'
  <2> SUFFICES ASSUME TypesInv, LedgerInv, [ImportNext]_allVars PROVE LedgerInv'
    OBVIOUS
  <2>1. CASE UNCHANGED <<batches, live, deps, rules>>
    BY <2>1 DEF LedgerInv, Applied
  <2> QED
    BY <2>1, StepKinds, CommitApplyLedger, CommitRollbackLedger
<1> QED
  BY <1>1, <1>2, TypesHold, PTL DEF ImportSpec

-----------------------------------------------------------------------------
(* What a rollback leaves to the other batches *)

(* A later batch found the same decision in the ledger, or has it in its own. *)
LEMMA FoundElsewhere ==
  ASSUME TypesInv, LedgerInv, NEW k \in DOMAIN batches, ~ Depended(k),
         NEW j \in DOMAIN batches \ {k}, Applied(j),
         NEW n \in DOMAIN batches[j].review.decisions,
         NEW d, d = batches[j].review.decisions[n], d.action # "skip"
  PROVE  \E i \in live \ {k} : Applied(i) /\ Kept(batches[i], batches[j].review.entity, d)
<1>1. j \in live
  BY DEF LedgerInv
<1>2. PICK i \in live : /\ Kept(batches[i], batches[j].review.entity, d)
                        /\ i = j \/ <<j, i>> \in deps
  BY <1>1 DEF LedgerInv
<1>3. <<j, k>> \notin deps
  BY DEF Depended
<1>4. i # k /\ Applied(i)
  BY <1>2, <1>3 DEF LedgerInv
<1> QED
  BY <1>2, <1>4

(* What another batch gives is left: a fact because a batch with the same text *)
(* makes the rollback refuse, a state because only one live batch has its row, *)
(* a rule because each batch has its own.                                      *)
LEMMA RollbackSpares ==
  ASSUME ImportInv, LedgerInv, [ImportNext]_allVars, NEW k \in DOMAIN batches, RolledBack(k),
         NEW j \in DOMAIN batches \ {k}, Applied(j),
         NEW n \in DOMAIN batches[j].review.decisions, Gives(j, n)
  PROVE  Gives(j, n)'
<1>1. /\ SetRows(Undone(k)) /\ ~ Depended(k) /\ revision = batches[k].after
      /\ batches'[j] = batches[j] /\ DOMAIN batches' = DOMAIN batches
  BY RolledBackIs DEF ImportInv
<1>2. PICK d, e, U, b : /\ d = batches[j].review.decisions[n] /\ e = batches[j].review.entity
                        /\ U = Undone(k) /\ b = batches[k]
  OBVIOUS
<1>3. b \in Batches /\ batches[j] \in Batches
  BY <1>2 DEF ImportInv, TypesInv
<1>4. e \in Entity /\ d \in Decisions /\ d.entry \in Entry /\ TextOf[d.entry] \in Text
  <2>1. e \in Entity /\ batches[j].review.decisions \in Seq(Decisions)
    BY <1>2, <1>3 DEF Batches, Reviews
  <2>2. d \in Decisions
    BY <1>2, <2>1
  <2> QED
    BY <2>1, <2>2, ImportAssumption DEF Decisions, Decision
<1>5. Spared(k, b.rows, b.review.entity, U)
  BY <1>2, RetreatSpares DEF ImportInv
<1>6. status' = U.status /\ global' = U.global /\ links' = U.links /\ state' = U.state
      /\ rules' = U.rules
  BY <1>1, <1>2 DEF SetRows
<1>7. e # b.review.entity => What(e)' = What(e)
  BY <1>2, <1>4, RollbackSight
<1>8. d.action # "skip" =>
        \E i \in live \ {k} : Applied(i) /\ Kept(batches[i], e, d)
  BY <1>1, <1>2, FoundElsewhere DEF ImportInv
<1>9. ASSUME d.action \in {"semantic", "supersede"}, TextOf[d.entry] \in Visible(e)
      PROVE  TextOf[d.entry] \in Visible(e)'
  <2>1. CASE e # b.review.entity
    BY <1>7, <1>9, <2>1 DEF What
  <2>2. CASE e = b.review.entity
    <3>1. PICK t : t = TextOf[d.entry]
      OBVIOUS
    <3>2. PICK i \in live \ {k} : Applied(i) /\ Kept(batches[i], e, d)
      BY <1>8, <1>9
    <3>3. PICK m \in DOMAIN batches[i].rows : Answers(batches[i].rows[m], d)
      BY <3>2 DEF Kept
    <3>4. /\ batches[i].review.entity = b.review.entity
          /\ batches[i].rows[m].action \in {"semantic", "supersede"}
          /\ TextOf[batches[i].rows[m].entry] = t
      BY <1>9, <2>2, <3>1, <3>2, <3>3 DEF Kept, Answers
    <3>5. ~ Brought(b.rows, t)
      <4> SUFFICES ASSUME Brought(b.rows, t) PROVE FALSE
        OBVIOUS
      <4>1. PICK l \in DOMAIN b.rows :
              /\ b.rows[l].action \in {"semantic", "supersede"}
              /\ TextOf[b.rows[l].entry] = t
              /\ b.rows[l].created \/ b.rows[l].reactivated \/ b.rows[l].linked
        BY DEF Brought, IsFact
      <4>2. Depended(k)
        BY <1>2, <3>2, <3>4, <4>1 DEF Depended
      <4> QED
        BY <1>1, <4>2
    <3>6. t \in SeenIn(Store, e)
      BY <1>9, <3>1 DEF SeenIn, Store, Visible, Active
    <3>7. t \in SeenIn(U, e)
      <4>1. t \in Text
        BY <1>4, <3>1
      <4> QED
        BY <1>5, <2>2, <3>5, <3>6, <4>1 DEF Spared
    <3> QED
      BY <1>6, <3>1, <3>7 DEF SeenIn, Visible, Active
  <2> QED
    BY <2>1, <2>2
<1>10. ASSUME d.action = "state", state[e] = d.entry
       PROVE  state'[e] = d.entry
  <2>1. CASE e # b.review.entity
    BY <1>7, <1>10, <2>1 DEF What
  <2>2. CASE e = b.review.entity /\ \A m \in DOMAIN b.rows : b.rows[m].action # "state"
    BY <1>5, <1>6, <1>10, <2>2 DEF Spared
  <2>3. CASE e = b.review.entity /\ \E m \in DOMAIN b.rows : b.rows[m].action = "state"
    <3>1. PICK m \in DOMAIN b.rows : b.rows[m].action = "state"
      BY <2>3
    <3>2. PICK h : IsHistory(h)
      BY DEF ImportInv, HistoryInv
    <3>3. Traced(b, h) /\ h[b.after] = Now
      BY <1>1, <1>2, <3>2 DEF IsHistory
    <3>4. h[b.after].state[e] = b.rows[m].entry
      BY <2>3, <3>1, <3>3 DEF Traced
    <3>5. b.rows[m].entry = d.entry
      BY <1>10, <3>3, <3>4 DEF Now
    <3>6. b.rows[m].old = NoText /\ d.old = NoText
      <4>1. b.rows[m] \in Rows
        BY <1>3 DEF Batches
      <4> QED
        BY <1>4, <1>10, <3>1, <4>1 DEF Rows, Decisions, Coherent
    <3>7. PICK i \in live \ {k} : Applied(i) /\ Kept(batches[i], e, d)
      BY <1>8, <1>10
    <3>8. PICK l \in DOMAIN batches[i].rows : Answers(batches[i].rows[l], d)
      BY <3>7 DEF Kept
    <3>9. Answers(b.rows[m], batches[i].rows[l])
      BY <1>10, <3>1, <3>5, <3>6, <3>8 DEF Answers
    <3>10. Kept(batches[k], batches[i].review.entity, batches[i].rows[l])
      BY <1>2, <2>3, <3>7, <3>9 DEF Kept
    <3>11. k \in live
      BY DEF LedgerInv, RolledBack
    <3>12. i = k
      BY <3>7, <3>10, <3>11 DEF LedgerInv
    <3> QED
      BY <3>12
  <2> QED
    BY <2>1, <2>2, <2>3
<1>11. ASSUME d.action = "rule", NEW l \in DOMAIN batches, RuleId(l, d.entry) \in rules
       PROVE  \E i \in DOMAIN batches' : RuleId(i, d.entry) \in rules'
  <2>1. PICK i \in live \ {k} : Applied(i) /\ Kept(batches[i], e, d)
    BY <1>8, <1>11
  <2>2. PICK m \in DOMAIN batches[i].rows : Answers(batches[i].rows[m], d)
    BY <2>1 DEF Kept
  <2>3. batches[i].rows[m].action = "rule" /\ batches[i].rows[m].entry = d.entry
    BY <1>11, <2>2 DEF Answers
  <2>4. RuleId(i, d.entry) \in rules
    BY <2>1, <2>3 DEF LedgerInv
  <2>5. PICK x : x = RuleId(i, d.entry)
    OBVIOUS
  <2>6. \A entry : x # RuleId(k, entry)
    BY <2>1, <2>5 DEF RuleId
  <2>7. x \in U.rules
    BY <1>5, <2>4, <2>5, <2>6 DEF Spared
  <2>8. i \in DOMAIN batches'
    BY <1>1, <2>1 DEF ImportInv, TypesInv
  <2> QED
    BY <1>6, <2>5, <2>7, <2>8
<1>12. \/ d.action \in {"semantic", "supersede"} /\ TextOf[d.entry] \in Visible(e)
       \/ d.action = "state" /\ state[e] = d.entry
       \/ d.action = "rule" /\ \E i \in DOMAIN batches : RuleId(i, d.entry) \in rules
  BY <1>2 DEF Gives
<1>13. \/ d.action \in {"semantic", "supersede"} /\ TextOf[d.entry] \in Visible(e)'
       \/ d.action = "state" /\ state'[e] = d.entry
       \/ d.action = "rule" /\ \E i \in DOMAIN batches' : RuleId(i, d.entry) \in rules'
  BY <1>9, <1>10, <1>11, <1>12
<1>14. batches'[j].review.entity = e /\ batches'[j].review.decisions[n] = d
  BY <1>1, <1>2
<1> QED
  BY <1>13, <1>14 DEF Gives, RuleId

(* A rollback takes nothing away from a batch that is applied. *)
THEOREM RollbackSparesOthersHolds == ImportSpec => RollbackSparesOthers
<1>1. ImportInv /\ LedgerInv /\ [ImportNext]_allVars =>
       [\A k \in DOMAIN batches : RolledBack(k) =>
          \A j \in DOMAIN batches \ {k} : Applied(j) =>
            \A n \in DOMAIN batches[j].review.decisions :
              Gives(j, n) => Gives(j, n)']_allVars
  <2> SUFFICES ASSUME ImportInv, LedgerInv, [ImportNext]_allVars, NEW k \in DOMAIN batches,
                      RolledBack(k), NEW j \in DOMAIN batches \ {k}, Applied(j),
                      NEW n \in DOMAIN batches[j].review.decisions, Gives(j, n)
               PROVE  Gives(j, n)'
    OBVIOUS
  <2> QED
    BY RollbackSpares
<1> QED
  BY <1>1, ImportInvHolds, LedgerHolds, PTL DEF ImportSpec, RollbackSparesOthers
=============================================================================
