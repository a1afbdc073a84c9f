------------------------------ MODULE Knowledge ------------------------------
(***************************************************************************)
(* Semantic memory: the knowledge table, its links to entities and its     *)
(* supersession edges, as MemoryStore's writers change them from several   *)
(* processes.  The content hash is unique, so a row is its text.           *)
(*                                                                         *)
(* put_knowledge decides on SELECTs made before its first write opens the  *)
(* transaction (sqlite3 opens one at the first INSERT or UPDATE only): its *)
(* reads and its write are steps of their own, between which others        *)
(* commit.  The other writers are one transaction each.  Link roles, tags  *)
(* and sources are left out.                                               *)
(***************************************************************************)
EXTENDS Naturals, FiniteSets

CONSTANTS Proc, Text, Entity,
          MaxWrites, \* bound: no call starts after so many committed writes
          Everyone,  \* the scope of a supersession for all entities
          NoText, NoCall

Scope == Entity \cup {Everyone}

Call == [text : Text, old : Text \cup {NoText}, entities : SUBSET Entity,
         exists : BOOLEAN, global : BOOLEAN]

ASSUME KnowledgeAssumption ==
  /\ MaxWrites \in Nat
  /\ Everyone \notin Entity
  /\ NoText \notin Text
  /\ NoCall \notin Call

VARIABLES status,  \* of each text's row, "absent" before there is one
          global,  \* rows with global_scope = 1
          links,   \* memory_entities: pairs of a row and an entity
          edges,   \* active knowledge_supersessions: old row, new row, scope
          pc, call, \* put_knowledge: where each process is, and its call
          writes   \* committed writes so far

rows == <<status, global, links, edges>>
vars == <<rows, pc, call, writes>>

TypeOK ==
  /\ status \in [Text -> {"absent", "active", "superseded", "archived", "deleted"}]
  /\ global \subseteq Text
  /\ links \subseteq Text \X Entity
  /\ edges \subseteq Text \X Text \X Scope
  /\ pc \in [Proc -> {"idle", "existing", "write"}]
  /\ call \in [Proc -> Call \cup {NoCall}]
  /\ writes \in Nat

Init ==
  /\ status = [t \in Text |-> "absent"]
  /\ global = {} /\ links = {} /\ edges = {}
  /\ pc = [p \in Proc |-> "idle"]
  /\ call = [p \in Proc |-> NoCall]
  /\ writes = 0

Active(t) == status[t] = "active"

LinksOf(t) == {l \in links : l[1] = t}

(* What a search within an entity's scope can return. *)
Visible(e) == {t \in Text : Active(t) /\ (t \in global \/ <<t, e>> \in links)}

BugConflicts(old, new, scope) == FALSE  \* the later replacement is recorded too

(* _record_knowledge_supersession refuses a second replacement. *)
Conflicts(old, new, scope) ==
  \E edge \in edges : edge[1] = old /\ edge[3] = scope /\ edge[2] # new

BugRecorded(old, new, scope) ==  \* no edge to a row that was there already
  IF status[new] = "absent" THEN edges \cup {<<old, new, scope>>} ELSE edges

Recorded(old, new, scope) == edges \cup {<<old, new, scope>>}

-----------------------------------------------------------------------------
(* put_knowledge *)

MayStart == writes < MaxWrites

Commit == writes' = writes + 1

Return(p) == /\ pc' = [pc EXCEPT ![p] = "idle"]
             /\ call' = [call EXCEPT ![p] = NoCall]

(* The SELECT of the row to be superseded. *)
StartPut(p, t, old, entities) ==
  /\ pc[p] = "idle" /\ MayStart
  /\ old = NoText \/ entities = {}
  /\ old # NoText => Active(old) /\ old \in global
  /\ pc' = [pc EXCEPT ![p] = "existing"]
  /\ call' = [call EXCEPT ![p] = [text |-> t, old |-> old, entities |-> entities,
                                  exists |-> FALSE, global |-> FALSE]]
  /\ UNCHANGED <<rows, writes>>

(* The SELECT of the row with the same text; a call is refused that would *)
(* replace a text by itself or widen a scoped one.                        *)
ReadExisting(p) ==
  LET c == call[p]
      exists == status[c.text] # "absent"
      refused == \/ c.old = c.text
                 \/ c.entities = {} /\ c.text \notin global
  IN
    /\ pc[p] = "existing"
    /\ IF exists /\ refused
       THEN Return(p)
       ELSE /\ pc' = [pc EXCEPT ![p] = "write"]
            /\ call' = [call EXCEPT ![p] =
                 [text |-> c.text, old |-> c.old, entities |-> c.entities,
                  exists |-> exists, global |-> exists /\ c.text \in global]]
    /\ UNCHANGED <<rows, writes>>

(* The transaction is rolled back when the row appeared in the meantime, or *)
(* when the old row was replaced by another.                                *)
PutFails(c) == \/ ~ c.exists /\ status[c.text] # "absent"
               \/ c.old # NoText /\ Conflicts(c.old, c.text, Everyone)

FailPut(p) ==
  /\ pc[p] = "write" /\ PutFails(call[p])
  /\ Return(p)
  /\ UNCHANGED <<rows, writes>>

(* An existing row is revived only to supersede another. *)
WritePut(p) ==
  LET c == call[p] IN
    /\ pc[p] = "write" /\ ~ PutFails(c)
    /\ Commit /\ Return(p)
    /\ status' = [t \in Text |->
                    IF t = c.old THEN "superseded"
                    ELSE IF t = c.text /\ (~ c.exists \/ c.old # NoText) THEN "active"
                    ELSE status[t]]
    /\ global' = IF ~ c.exists /\ c.entities = {} THEN global \cup {c.text} ELSE global
    /\ edges' = IF c.old = NoText THEN edges
                ELSE Recorded(c.old, c.text, Everyone)
    /\ links' = IF c.global THEN links ELSE links \cup ({c.text} \X c.entities)

-----------------------------------------------------------------------------
(* The other writers *)

BugRemaining(old, e) == {}  \* the old row goes, whoever else it is linked to

(* The links the old row keeps when an entity gives it up. *)
Remaining(old, e) == LinksOf(old) \ {<<old, e>>}

(* supersede_knowledge_for_entity *)
SupersedeFor(old, new, e) ==
  /\ MayStart /\ Commit
  /\ Active(old) /\ old \notin global /\ <<old, e>> \in links
  /\ new # old
  /\ status[new] \in {"absent", "active"}
  /\ ~ Conflicts(old, new, e)
  /\ status' = [t \in Text |->
                  IF t = new THEN "active"
                  ELSE IF t = old /\ Remaining(old, e) = {} THEN "superseded"
                  ELSE status[t]]
  /\ links' = (links \ {<<old, e>>}) \cup (IF new \in global THEN {} ELSE {<<new, e>>})
  /\ edges' = Recorded(old, new, e)
  /\ UNCHANGED <<global, pc, call>>

BugLinkEntity(t, e) ==  \* the row stays global
  /\ MayStart /\ Commit
  /\ status[t] # "absent"
  /\ links' = links \cup {<<t, e>>}
  /\ UNCHANGED <<status, global, edges, pc, call>>

(* link_entity of a semantic row narrows a global one. *)
LinkEntity(t, e) ==
  /\ MayStart /\ Commit
  /\ status[t] # "absent"
  /\ global' = global \ {t}
  /\ links' = links \cup {<<t, e>>}
  /\ UNCHANGED <<status, edges, pc, call>>

(* record_lifecycle with archive or delete, which asks for no status. *)
Retire(t, how) ==
  /\ MayStart /\ Commit
  /\ status[t] # "absent"
  /\ status' = [status EXCEPT ![t] = how]
  /\ UNCHANGED <<global, links, edges, pc, call>>

-----------------------------------------------------------------------------

Put(p) == \/ \E t \in Text, old \in Text \cup {NoText}, S \in SUBSET Entity :
               StartPut(p, t, old, S)
          \/ ReadExisting(p) \/ FailPut(p) \/ WritePut(p)

Direct == \/ \E old, new \in Text, e \in Entity : SupersedeFor(old, new, e)
          \/ \E t \in Text, e \in Entity : LinkEntity(t, e)
          \/ \E t \in Text, how \in {"archived", "deleted"} : Retire(t, how)

Next == Direct \/ \E p \in Proc : Put(p)

Spec == Init /\ [][Next]_vars
-----------------------------------------------------------------------------
(* Properties *)

(* Two sessions that replace the same fact in the same scope at once do not *)
(* both win: the fact has one replacement there.                            *)
OneReplacement ==
  \A a, b \in edges : a[1] = b[1] /\ a[3] = b[3] => a = b

(* A fact is marked superseded only with an edge that says by what, however *)
(* the calls that read before they write overlap.                           *)
SupersededIsReplaced ==
  \A t \in Text : status[t] = "superseded" => \E edge \in edges : edge[1] = t

(* A fact is global or bound to entities, never both: a link made from a    *)
(* stale read of the scope does not bind a global fact.                     *)
GlobalIsUnlinked == \A t \in global : LinksOf(t) = {}

(* "Replace one entity's fact without changing other entity scopes"         *)
(* (supersede_knowledge_for_entity).                                        *)
ScopeIsolation ==
  [][\A old, new \in Text, e \in Entity :
       SupersedeFor(old, new, e) =>
         \A f \in Entity \ {e} : Visible(f)' = Visible(f)]_vars
=============================================================================
