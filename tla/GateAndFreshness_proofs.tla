-------------------------- MODULE GateAndFreshness_proofs --------------------------
(***************************************************************************)
(* Theorems about the rule gate (RuleGate) and about the freshness of      *)
(* imported sources (SourceFreshness), for any processes, rules, files,    *)
(* imports and bounds.  The two share no state here; both say that reads   *)
(* made one after the other, without a lock, still lead to a fair verdict. *)
(*                                                                         *)
(* Of the gate: the receipts follow from what the last receipt of a rule   *)
(* says of its status; the verdict, from what each of its reads has found  *)
(* of the things that have forbidden the action ever since it was asked.   *)
(*                                                                         *)
(* Of a refresh: FreshTypeInv says how far it may have come, and what it   *)
(* goes through are different sources at their places by latest import     *)
(* (LatestVersionsAre); FairInv says that, unless imports changed, it      *)
(* holds what the tables say now and each verdict so far lies between      *)
(* what was stale all the time and what was gone at some time.             *)
(***************************************************************************)
EXTENDS RuleGate, SourceFreshness, FiniteSetTheorems, NaturalsInduction, TLAPS

-----------------------------------------------------------------------------
(* The rule gate *)

Scopes == {{}} \cup {{e} : e \in Entity}

(* The steps of Next, by what they change. *)
OpenStep(p) == Open(p) \/ MirrorOnOpen(p) \/ MirrorChange(p)
AdminStep(p, r) == \/ Disable(p, r) \/ Enable(p, r)
                   \/ \E es \in Scopes : AddRule(p, r, es)
                   \/ \E e \in Entity : LinkRule(p, r, e)
ReadStep(p) == \/ ReadQuarantines(p) \/ Review(p) \/ ReadRules(p)
               \/ \E r \in Rule : ReadScope(p, r)
EndStep(p) == Verdict(p) \/ Die(p)
OutsideStep(r) == RollBack(r) \/ \E es \in Scopes : LegacyAdd(r, es)

LEMMA StepCases ==
  ASSUME Next
  PROVE  \/ \E p \in Proc : \/ OpenStep(p) \/ ReadStep(p) \/ EndStep(p)
                            \/ \E r \in Rule : AdminStep(p, r)
                            \/ \E e \in Entity \cup {NoEntity} : Ask(p, e)
         \/ \E r \in Rule : OutsideStep(r)
<1>1. {} \in Scopes
  BY DEF Scopes
<1>2. ASSUME NEW p \in Proc, CommandStep(p)
      PROVE  \/ OpenStep(p) \/ ReadStep(p) \/ EndStep(p)
             \/ \E r \in Rule : AdminStep(p, r)
             \/ \E e \in Entity \cup {NoEntity} : Ask(p, e)
  BY <1>2 DEF CommandStep, Scopes, OpenStep, AdminStep, ReadStep, EndStep
<1>3. ASSUME NEW r \in Rule, NEW es \in Scopes, LegacyAdd(r, es) PROVE OutsideStep(r)
  BY <1>3 DEF OutsideStep
<1>4. \/ \E p \in Proc : CommandStep(p) \/ Die(p)
      \/ \E r \in Rule, es \in Scopes : LegacyAdd(r, es)
      \/ \E r \in Rule : RollBack(r)
  BY DEF Next, Scopes
<1> QED
  BY <1>2, <1>3, <1>4 DEF EndStep, OutsideStep

LEMMA InitTypeOK == Init => TypeOK
BY RuleAssumption DEF Init, TypeOK, PC, Operation

LEMMA StillHeldType ==
  ASSUME TypeOK, NEW q \in Proc
  PROVE  StillHeld(q) \subseteq Rule
<1>1. Forbidding(scope[q])' \subseteq Rule
  BY DEF Forbidding
<1> QED
  BY <1>1 DEF StillHeld, TypeOK

LEMMA TrackType ==
  ASSUME TypeOK, Track
  PROVE  held' \in [Proc -> SUBSET Rule]
BY StillHeldType DEF Track

(* A receipt more, if there is room. *)
LEMMA RecordType ==
  ASSUME TypeOK, NEW r \in Rule, NEW op \in Operation, Record(r, op)
  PROVE  receipts' \in [Rule -> Seq(Operation)]
<1>1. Append(receipts[r], op) \in Seq(Operation)
  BY DEF TypeOK
<1> QED
  BY <1>1 DEF Record, TypeOK

(* Only receipts there are get into the audit stream. *)
LEMMA MirroredType ==
  ASSUME TypeOK, NEW p \in Proc, Mirrored(p)
  PROVE  audits' \subseteq Rule \X (1 .. MaxReceipts) /\ faults' \in 0 .. MaxFaults
<1>1. Receipt \subseteq Rule \X (1 .. MaxReceipts)
  BY DEF Receipt
<1>2. audits' \subseteq audits \cup Receipt
  BY DEF Mirrored
<1>3. faults' = faults \/ (faults < MaxFaults /\ faults' = faults + 1)
  BY DEF Mirrored
<1>4. faults' \in 0 .. MaxFaults
  BY <1>3, RuleAssumption DEF TypeOK
<1> QED
  BY <1>1, <1>2, <1>4 DEF TypeOK

LEMMA OpenTypeOK ==
  ASSUME TypeOK, NEW p \in Proc, OpenStep(p)
  PROVE  TypeOK'
<1> USE DEF At, Goto
<1>1. CASE Open(p)
  <2>1. Track /\ pc' = [pc EXCEPT ![p] = "opened"]
        /\ UNCHANGED <<status, links, audits, scope, rows, found, faults>>
    BY <1>1 DEF Open
  <2>2. receipts' \in [Rule -> Seq(Operation)]
    <3>1. \A r \in Rule : receipts[r] \in Seq(Operation)
                         /\ Append(receipts[r], "auto-quarantine") \in Seq(Operation)
      BY DEF TypeOK, Operation
    <3>2. receipts' = [r \in Rule |-> IF r \in ToQuarantine
                                     THEN Append(receipts[r], "auto-quarantine")
                                     ELSE receipts[r]]
      BY <1>1 DEF Open
    <3> QED
      BY <3>1, <3>2
  <2> QED
    BY <2>1, <2>2, TrackType DEF TypeOK, PC
<1>2. CASE MirrorOnOpen(p) \/ MirrorChange(p)
  <2>1. /\ Track /\ Mirrored(p) /\ UNCHANGED <<status, links, receipts, scope, rows, found>>
        /\ \E l \in {"ready", "idle"} : pc' = [pc EXCEPT ![p] = l]
    BY <1>2 DEF MirrorOnOpen, MirrorChange
  <2>2. audits' \subseteq Rule \X (1 .. MaxReceipts) /\ faults' \in 0 .. MaxFaults
    BY <2>1, MirroredType
  <2>3. pc' \in [Proc -> PC]
    BY <2>1 DEF TypeOK, PC
  <2>4. held' \in [Proc -> SUBSET Rule]
    BY <2>1, TrackType
  <2> QED
    BY <2>1, <2>2, <2>3, <2>4 DEF TypeOK
<1> QED
  BY <1>1, <1>2 DEF OpenStep

LEMMA AdminTypeOK ==
  ASSUME TypeOK, NEW p \in Proc, NEW r \in Rule, AdminStep(p, r)
  PROVE  TypeOK'
<1> USE DEF At, Goto
<1>1. Track /\ UNCHANGED <<audits, scope, rows, found, faults>>
  BY DEF AdminStep, Disable, Enable, AddRule, LinkRule
<1>2. pc' \in [Proc -> PC]
  BY DEF AdminStep, Disable, Enable, AddRule, LinkRule, TypeOK, PC
<1>3. receipts' \in [Rule -> Seq(Operation)]
  <2>1. \/ receipts' = receipts \/ Record(r, "operator-disable") \/ Record(r, "operator-enable")
    BY DEF AdminStep, Disable, Enable, AddRule, LinkRule
  <2>2. CASE receipts' = receipts
    BY <2>2 DEF TypeOK
  <2>3. CASE Record(r, "operator-disable")
    BY <2>3, RecordType DEF Operation
  <2>4. CASE Record(r, "operator-enable")
    BY <2>4, RecordType DEF Operation
  <2> QED
    BY <2>1, <2>2, <2>3, <2>4
<1>4. status' \in [Rule -> {"absent", "enabled", "disabled"}]
  BY DEF AdminStep, Disable, Enable, AddRule, LinkRule, TypeOK
<1>5. links' \in [Rule -> SUBSET Entity]
  <2>1. CASE Disable(p, r) \/ Enable(p, r)
    BY <2>1 DEF Disable, Enable, TypeOK
  <2>2. ASSUME NEW es \in Scopes, AddRule(p, r, es) PROVE links' \in [Rule -> SUBSET Entity]
    <3>1. es \in SUBSET Entity
      BY DEF Scopes
    <3> QED
      BY <2>2, <3>1 DEF AddRule, TypeOK
  <2>3. ASSUME NEW e \in Entity, LinkRule(p, r, e) PROVE links' \in [Rule -> SUBSET Entity]
    <3>1. links[r] \cup {e} \in SUBSET Entity
      BY DEF TypeOK
    <3> QED
      BY <2>3, <3>1 DEF LinkRule, TypeOK
  <2> QED
    BY <2>1, <2>2, <2>3 DEF AdminStep
<1> QED
  BY <1>1, <1>2, <1>3, <1>4, <1>5, TrackType DEF TypeOK

LEMMA GateTypeOK ==
  ASSUME TypeOK, NEW p \in Proc, NEW e,
         (e \in Entity \cup {NoEntity} /\ Ask(p, e)) \/ ReadStep(p) \/ EndStep(p)
  PROVE  TypeOK'
<1> USE DEF At, Goto, Answered, ReadStep, EndStep
<1> USE DEF Ask, ReadQuarantines, ReadScope, Review, ReadRules, Verdict, Die
<1>1. UNCHANGED <<status, links, receipts, audits>>
  OBVIOUS
<1>2. pc' \in [Proc -> PC]
  BY DEF TypeOK, PC, Gating
<1>3. held' \in [Proc -> SUBSET Rule]
  <2>1. CASE Ask(p, e)
    <3>1. Forbidding(e) \subseteq Rule
      BY DEF Forbidding
    <3> QED
      BY <2>1, <3>1 DEF TypeOK
  <2>2. CASE Track
    BY <2>2, TrackType
  <2> QED
    BY <2>1, <2>2
<1>4. faults' \in 0 .. MaxFaults
  BY RuleAssumption DEF TypeOK
<1>5. scope' \in [Proc -> Entity \cup {NoEntity}]
  BY DEF TypeOK
<1>6. rows' \in [Proc -> SUBSET Rule]
  <2>1. \/ rows' = rows \/ \E s \in SUBSET Rule : rows' = [rows EXCEPT ![p] = s]
        \/ \E r \in Rule : rows' = [rows EXCEPT ![p] = @ \ {r}]
    OBVIOUS
  <2> QED
    BY <2>1 DEF TypeOK
<1>7. found' \in [Proc -> SUBSET Rule]
  <2>1. \/ found' = found \/ found' = [found EXCEPT ![p] = {}]
        \/ \E r \in Rule : found' = [found EXCEPT ![p] = found[p] \cup {r}]
    OBVIOUS
  <2>2. found \in [Proc -> SUBSET Rule] /\ \A r \in Rule : found[p] \cup {r} \in SUBSET Rule
    BY DEF TypeOK
  <2> QED
    BY ONLY <2>1, <2>2
<1> QED
  BY <1>1, <1>2, <1>3, <1>4, <1>5, <1>6, <1>7 DEF TypeOK

LEMMA OutsideTypeOK ==
  ASSUME TypeOK, NEW r \in Rule, OutsideStep(r)
  PROVE  TypeOK'
<1>1. UNCHANGED <<receipts, audits, pc, scope, rows, found, faults>>
  BY DEF OutsideStep, LegacyAdd, RollBack
<1>2. \A es \in Scopes : es \in SUBSET Entity
  BY DEF Scopes
<1>3. links' \in [Rule -> SUBSET Entity]
  <2>1. ASSUME NEW es \in Scopes, LegacyAdd(r, es) PROVE links' \in [Rule -> SUBSET Entity]
    <3>1. es \in SUBSET Entity
      BY <1>2
    <3> QED
      BY <2>1, <3>1 DEF LegacyAdd, TypeOK
  <2>2. CASE RollBack(r)
    BY <2>2 DEF RollBack, TypeOK
  <2> QED
    BY <2>1, <2>2 DEF OutsideStep
<1>4. status' \in [Rule -> {"absent", "enabled", "disabled"}]
  BY DEF OutsideStep, LegacyAdd, RollBack, TypeOK
<1>5. held' \in [Proc -> SUBSET Rule]
  BY StillHeldType, TrackType DEF OutsideStep, LegacyAdd, RollBack
<1> QED
  BY <1>1, <1>3, <1>4, <1>5 DEF TypeOK

LEMMA StepTypeOK == TypeOK /\ [Next]_vars => TypeOK'
<1> SUFFICES ASSUME TypeOK, [Next]_vars PROVE TypeOK'
  OBVIOUS
<1>1. CASE Next
  <2>1. ASSUME NEW p \in Proc, OpenStep(p) PROVE TypeOK'
    BY <2>1, OpenTypeOK
  <2>2. ASSUME NEW p \in Proc, NEW r \in Rule, AdminStep(p, r) PROVE TypeOK'
    BY <2>2, AdminTypeOK
  <2>3. ASSUME NEW p \in Proc, ReadStep(p) \/ EndStep(p) PROVE TypeOK'
    BY <2>3, GateTypeOK
  <2>4. ASSUME NEW p \in Proc, NEW e \in Entity \cup {NoEntity}, Ask(p, e) PROVE TypeOK'
    BY <2>4, GateTypeOK
  <2>5. ASSUME NEW r \in Rule, OutsideStep(r) PROVE TypeOK'
    BY <2>5, OutsideTypeOK
  <2> QED
    BY <1>1, <2>1, <2>2, <2>3, <2>4, <2>5, StepCases
<1>2. CASE UNCHANGED vars
  BY <1>2 DEF vars, TypeOK
<1> QED
  BY <1>1, <1>2

(* The rules, the receipts and the processes keep their types. *)
THEOREM RulesTypeCorrect == Spec => []TypeOK
BY InitTypeOK, StepTypeOK, PTL DEF Spec
-----------------------------------------------------------------------------
(* Receipts *)

(* What the last receipt says of a rule. *)
RuleInv ==
  \A r \in Rule :
    /\ Latest(r) = "auto-quarantine" => r \in Unsafe
    /\ Latest(r) = "operator-disable" => status[r] = "disabled"
    /\ Latest(r) = "operator-enable" /\ r \notin Imported => status[r] = "enabled"

(* What may follow it. *)
Follows(r, a, b) ==
  /\ a = "auto-quarantine" => b = "operator-disable"
  /\ a = b => a = "operator-enable" /\ r \in Imported

LEMMA LatestAppend ==
  ASSUME TypeOK, NEW r \in Rule, NEW op \in Operation,
         receipts'[r] = Append(receipts[r], op)
  PROVE  Latest(r)' = op
<1>1. receipts[r] \in Seq(Operation)
  BY DEF TypeOK
<1> QED
  BY <1>1 DEF Latest

LEMMA ReceiptAppend ==
  ASSUME TypeOK, OneReceiptPerChange, NEW r \in Rule, NEW op \in Operation,
         receipts'[r] = Append(receipts[r], op), Follows(r, Latest(r), op)
  PROVE  \A i \in 1 .. Len(receipts'[r]) - 1 : Follows(r, receipts'[r][i], receipts'[r][i + 1])
<1>1. receipts[r] \in Seq(Operation)
  BY DEF TypeOK
<1>2. Len(receipts'[r]) = Len(receipts[r]) + 1 /\ Len(receipts[r]) \in Nat
  BY <1>1
<1>3. TAKE i \in 1 .. Len(receipts'[r]) - 1
<1>4. i \in 1 .. Len(receipts[r])
  BY <1>2
<1>5. receipts'[r][i] = receipts[r][i]
  BY <1>1, <1>4
<1>6. CASE i = Len(receipts[r])
  <2>1. receipts[r] # <<>> /\ receipts'[r][i + 1] = op
    BY <1>1, <1>4, <1>6
  <2> QED
    BY <1>5, <1>6, <2>1 DEF Latest
<1>7. CASE i # Len(receipts[r])
  <2>1. i \in 1 .. Len(receipts[r]) - 1 /\ receipts'[r][i + 1] = receipts[r][i + 1]
    BY <1>1, <1>4, <1>7
  <2> QED
    BY <1>5, <2>1 DEF OneReceiptPerChange, Follows
<1> QED
  BY <1>6, <1>7

LEMMA StepReceipts ==
  ASSUME TypeOK, RuleInv, OneReceiptPerChange, [Next]_vars
  PROVE  RuleInv' /\ OneReceiptPerChange'
<1> USE DEF Goto
(* It is enough to look at one rule: it has the receipts it had, or one     *)
(* that may follow them.                                                    *)
<1>1. ASSUME \A r \in Rule :
               \/ /\ receipts'[r] = receipts[r]
                  /\ \/ status'[r] = status[r]
                     \/ status[r] = "absent"
                     \/ status'[r] = "disabled" /\ r \in Imported
               \/ \E op \in Operation :
                    /\ receipts'[r] = Append(receipts[r], op) /\ Follows(r, Latest(r), op)
                    /\ op = "auto-quarantine" => r \in Unsafe
                    /\ op = "operator-disable" => status'[r] = "disabled"
                    /\ op = "operator-enable" => status'[r] = "enabled"
      PROVE  RuleInv' /\ OneReceiptPerChange'
  <2> SUFFICES ASSUME NEW r \in Rule
               PROVE  /\ Latest(r)' = "auto-quarantine" => r \in Unsafe
                      /\ Latest(r)' = "operator-disable" => status'[r] = "disabled"
                      /\ Latest(r)' = "operator-enable" /\ r \notin Imported => status'[r] = "enabled"
                      /\ \A i \in 1 .. Len(receipts'[r]) - 1 :
                           Follows(r, receipts'[r][i], receipts'[r][i + 1])
    BY DEF RuleInv, OneReceiptPerChange, Follows
  <2>1. CASE /\ receipts'[r] = receipts[r]
             /\ \/ status'[r] = status[r]
                \/ status[r] = "absent"
                \/ status'[r] = "disabled" /\ r \in Imported
    <3>1. Latest(r)' = Latest(r)
      BY <2>1 DEF Latest
    <3> QED
      BY <2>1, <3>1 DEF RuleInv, OneReceiptPerChange, Follows
  <2>2. ASSUME NEW op \in Operation,
               receipts'[r] = Append(receipts[r], op), Follows(r, Latest(r), op),
               op = "auto-quarantine" => r \in Unsafe,
               op = "operator-disable" => status'[r] = "disabled",
               op = "operator-enable" => status'[r] = "enabled"
        PROVE  /\ Latest(r)' = "auto-quarantine" => r \in Unsafe
               /\ Latest(r)' = "operator-disable" => status'[r] = "disabled"
               /\ Latest(r)' = "operator-enable" /\ r \notin Imported => status'[r] = "enabled"
               /\ \A i \in 1 .. Len(receipts'[r]) - 1 :
                    Follows(r, receipts'[r][i], receipts'[r][i + 1])
    BY <2>2, LatestAppend, ReceiptAppend
  <2> QED
    BY <1>1, <2>1, <2>2
<1>2. ASSUME NEW p \in Proc, OpenStep(p) PROVE RuleInv' /\ OneReceiptPerChange'
  <2>1. CASE Open(p)
    <3>1. /\ receipts' = [r \in Rule |-> IF r \in ToQuarantine
                                         THEN Append(receipts[r], "auto-quarantine")
                                         ELSE receipts[r]]
          /\ status' = status
      BY <2>1 DEF Open
    <3>2. \A r \in ToQuarantine : /\ r \in Unsafe /\ Follows(r, Latest(r), "auto-quarantine")
      BY DEF ToQuarantine, Quarantined, Follows
    <3>3. "auto-quarantine" \in Operation
      BY DEF Operation
    <3> QED
      BY <1>1, <3>1, <3>2, <3>3
  <2>2. CASE MirrorOnOpen(p) \/ MirrorChange(p)
    BY <1>1, <2>2 DEF MirrorOnOpen, MirrorChange
  <2> QED
    BY <1>2, <2>1, <2>2 DEF OpenStep
<1>3. ASSUME NEW p \in Proc, NEW r \in Rule, AdminStep(p, r)
      PROVE  RuleInv' /\ OneReceiptPerChange'
  <2>1. CASE UNCHANGED <<status, receipts>>
    BY <1>1, <2>1
  <2>2. CASE /\ status[r] = "enabled" \/ Quarantined(r)
             /\ status' = [status EXCEPT ![r] = "disabled"] /\ Record(r, "operator-disable")
    <3>1. Follows(r, Latest(r), "operator-disable")
      BY <2>2 DEF RuleInv, Quarantined, Follows
    <3>2. "operator-disable" \in Operation
      BY DEF Operation
    <3> QED
      BY <1>1, <2>2, <3>1, <3>2 DEF Record, TypeOK
  <2>3. CASE /\ r \notin Unsafe /\ status[r] = "disabled"
             /\ status' = [status EXCEPT ![r] = "enabled"] /\ Record(r, "operator-enable")
    <3>1. Follows(r, Latest(r), "operator-enable")
      BY <2>3 DEF RuleInv, Follows
    <3>2. "operator-enable" \in Operation
      BY DEF Operation
    <3> QED
      BY <1>1, <2>3, <3>1, <3>2 DEF Record, TypeOK
  <2>4. CASE \E es \in Scopes : AddRule(p, r, es)
    BY <1>1, <2>4 DEF AddRule, TypeOK
  <2>5. CASE \E e \in Entity : LinkRule(p, r, e)
    BY <1>1, <2>5 DEF LinkRule
  <2> QED
    BY <1>3, <2>1, <2>2, <2>3, <2>4, <2>5 DEF AdminStep, Disable, Enable
<1>4. ASSUME NEW p \in Proc, NEW e, Ask(p, e) \/ ReadStep(p) \/ EndStep(p)
      PROVE  RuleInv' /\ OneReceiptPerChange'
  BY <1>1, <1>4 DEF Ask, ReadStep, ReadQuarantines, ReadScope, Review, ReadRules, EndStep, Verdict, Die
<1>5. ASSUME NEW r \in Rule, OutsideStep(r) PROVE RuleInv' /\ OneReceiptPerChange'
  BY <1>1, <1>5 DEF OutsideStep, RollBack, LegacyAdd, TypeOK
<1>6. CASE UNCHANGED vars
  BY <1>1, <1>6 DEF vars
<1> QED
  BY <1>2, <1>3, <1>4, <1>5, <1>6, StepCases

(* For any rules and processes: one receipt per change. *)
THEOREM OneReceiptPerChangeHolds == Spec => []OneReceiptPerChange
<1> DEFINE I == TypeOK /\ RuleInv /\ OneReceiptPerChange
<1>1. Init => I
  <2> SUFFICES ASSUME Init PROVE RuleInv /\ OneReceiptPerChange
    BY InitTypeOK
  <2> QED
    BY DEF Init, RuleInv, OneReceiptPerChange, Latest
<1>2. I /\ [Next]_vars => I'
  BY StepTypeOK, StepReceipts
<1>3. I => OneReceiptPerChange
  OBVIOUS
<1> QED
  BY <1>1, <1>2, <1>3, PTL DEF Spec
-----------------------------------------------------------------------------
(* The gate *)

(* A rule that has forbidden the action so far forbids it now.  Once the    *)
(* reviews are read it is among them, or is enforced; if it was among       *)
(* them, the question ends when its links are read, so that at the read of  *)
(* the enabled rules it is enforced, and is read there.                     *)
HeldAt(q) ==
  /\ pc[q] \in Gating => held[q] \subseteq Forbidding(scope[q])
  /\ pc[q] = "reviews" => \A r \in held[q] : r \in rows[q] \cup found[q] \/ Enforced(r)
  /\ pc[q] = "rules" => rows[q] = {} /\ found[q] = {} /\ \A r \in held[q] : Enforced(r)
  /\ pc[q] = "verdict" =>
       held[q] \subseteq (rows[q] \cup found[q]) \cap (Unsafe \cup Blocking)

HeldInv == \A q \in Proc : HeldAt(q)

LEMMA TrackHeld ==
  ASSUME NEW q \in Proc, held'[q] \subseteq StillHeld(q), pc'[q] \in Gating, pc[q] \in Gating
  PROVE  held'[q] \subseteq held[q] /\ held'[q] \subseteq Forbidding(scope[q])'
BY DEF StillHeld

(* A step that takes q no further in the gate, and does not take a rule     *)
(* between its reads.                                                       *)
LEMMA QuietStep ==
  ASSUME HeldInv, NEW q \in Proc, held'[q] \subseteq StillHeld(q),
         \/ pc'[q] \notin Gating
         \/ pc'[q] = pc[q] /\ rows'[q] = rows[q] /\ found'[q] = found[q],
         \A r \in held'[q] : Enforced(r) => Enforced(r)' \/ ~ BetweenReads(q, r)
  PROVE  HeldAt(q)'
<1>1. CASE pc'[q] \notin Gating
  BY <1>1 DEF Gating, HeldAt
<1>2. CASE /\ pc'[q] \in Gating /\ pc'[q] = pc[q]
           /\ rows'[q] = rows[q] /\ found'[q] = found[q]
  <2>1. held'[q] \subseteq held[q] /\ held'[q] \subseteq Forbidding(scope[q])'
    BY <1>2, TrackHeld
  <2>2. HeldAt(q)
    BY DEF HeldInv
  <2>3. pc[q] = "reviews" => \A r \in held'[q] : r \in rows[q] \cup found[q] \/ Enforced(r)'
    BY <2>1, <2>2 DEF HeldAt, BetweenReads
  <2>4. pc[q] = "rules" => rows[q] = {} /\ found[q] = {} /\ \A r \in held'[q] : Enforced(r)'
    BY <2>1, <2>2 DEF HeldAt, BetweenReads
  <2> QED
    BY <1>2, <2>1, <2>2, <2>3, <2>4 DEF HeldAt
<1> QED
  BY <1>1, <1>2

(* What forbids is enforced or under review, and a step that disables with  *)
(* a receipt ends both.                                                     *)
LEMMA StaysEnforced ==
  ASSUME TypeOK, NEW p \in Proc, NEW s \in Rule, AdminStep(p, s),
         NEW e, NEW r \in Forbidding(e)', Enforced(r)
  PROVE  Enforced(r)'
<1>1. r \in Rule /\ status[r] = "enabled"
  BY DEF Forbidding, Enforced
<1>2. Quarantined(r)' \/ Enforced(r)'
  BY DEF Forbidding
<1>3. CASE status'[r] = "enabled"
  BY <1>3 DEF Enforced
<1>4. CASE status'[r] # "enabled"
  <2>1. s = r /\ Record(r, "operator-disable")
    BY <1>1, <1>4 DEF AdminStep, AddRule, LinkRule, Disable, Enable, TypeOK
  <2>2. Latest(r)' = "operator-disable"
    BY <1>1, <2>1, LatestAppend DEF Record, Operation, TypeOK
  <2> QED
    BY <1>2, <2>2 DEF Quarantined
<1> QED
  BY <1>3, <1>4

LEMMA StepHeld ==
  ASSUME TypeOK, HeldInv, [Next]_vars
  PROVE  HeldInv'
<1> USE DEF At, Goto
<1>1. ASSUME Track, \A r \in Rule : Enforced(r) => Enforced(r)',
             \A q \in Proc : \/ pc'[q] \notin Gating
                             \/ pc'[q] = pc[q] /\ rows'[q] = rows[q] /\ found'[q] = found[q]
      PROVE  HeldInv'
  <2>1. \A q \in Proc : held'[q] \subseteq StillHeld(q) /\ held'[q] \subseteq Rule
    BY <1>1, TrackType DEF Track
  <2> QED
    BY <1>1, <2>1, QuietStep DEF HeldInv
<1>2. ASSUME NEW p \in Proc, OpenStep(p) PROVE HeldInv'
  <2>1. /\ Track /\ UNCHANGED <<status, rows, found>>
        /\ \E l \in {"opened", "ready", "idle"} : pc' = [pc EXCEPT ![p] = l]
    BY <1>2 DEF OpenStep, Open, MirrorOnOpen, MirrorChange
  <2> QED
    BY <1>1, <2>1 DEF TypeOK, Gating, Enforced
<1>3. ASSUME NEW p \in Proc, NEW r \in Rule, AdminStep(p, r) PROVE HeldInv'
  <2>1. /\ Track /\ UNCHANGED <<rows, found>>
        /\ \E l \in {"idle", "mirror"} : pc' = [pc EXCEPT ![p] = l]
    BY <1>3 DEF AdminStep, AddRule, LinkRule, Disable, Enable
  <2> SUFFICES ASSUME NEW q \in Proc PROVE HeldAt(q)'
    BY DEF HeldInv
  <2>2. held'[q] \subseteq StillHeld(q)
    BY <2>1 DEF Track
  <2>3. CASE pc'[q] \notin Gating
    BY <2>3 DEF HeldAt, Gating
  <2>4. CASE pc'[q] \in Gating
    <3>1. pc'[q] = pc[q]
      BY <2>1, <2>4 DEF TypeOK, Gating
    <3>2. held'[q] \subseteq Forbidding(scope[q])'
      BY <2>2, <2>4, <3>1, TrackHeld
    <3>3. \A x \in held'[q] : Enforced(x) => Enforced(x)'
      BY <1>3, <3>2, StaysEnforced
    <3> QED
      BY <2>1, <2>2, <3>1, <3>3, QuietStep
  <2> QED
    BY <2>3, <2>4
<1>4. ASSUME NEW p \in Proc, EndStep(p) PROVE HeldInv'
  <2>1. /\ Track /\ status' = status
        /\ pc' = [pc EXCEPT ![p] = "idle"] /\ rows' = [rows EXCEPT ![p] = {}]
        /\ found' = [found EXCEPT ![p] = {}]
    BY <1>4 DEF EndStep, Verdict, Die, Answered
  <2> QED
    BY <1>1, <2>1 DEF TypeOK, Gating, Enforced
<1>5. ASSUME NEW r \in Rule, OutsideStep(r) PROVE HeldInv'
  <2>1. UNCHANGED <<pc, rows, found>>
    BY <1>5 DEF OutsideStep, RollBack, LegacyAdd
  <2>2. CASE RollBack(r)
    <3> SUFFICES ASSUME NEW q \in Proc PROVE HeldAt(q)'
      BY DEF HeldInv
    <3>1. held'[q] = StillHeld(q) \ {x \in {r} : BetweenReads(q, x)}
      BY <2>2 DEF RollBack
    <3>2. \A x : x # r /\ Enforced(x) => Enforced(x)'
      <4>1. status' = [status EXCEPT ![r] = "disabled"]
        BY <2>2 DEF RollBack
      <4>2. \A x : x # r /\ x \in Rule => status'[x] = status[x]
        BY <4>1 DEF TypeOK
      <4> QED
        BY <4>2, RuleAssumption DEF Enforced
    <3> QED
      BY <2>1, <3>1, <3>2, QuietStep
  <2>3. ASSUME NEW es \in Scopes, LegacyAdd(r, es) PROVE HeldInv'
    <3>1. \A x \in Rule : Enforced(x) => Enforced(x)'
      BY <2>3 DEF LegacyAdd, Enforced, TypeOK
    <3> QED
      BY <1>1, <2>1, <2>3, <3>1 DEF LegacyAdd
  <2> QED
    BY <1>5, <2>2, <2>3 DEF OutsideStep
<1>6. ASSUME NEW p \in Proc, NEW e, Ask(p, e) PROVE HeldInv'
  <2>1. /\ UNCHANGED <<status, links, receipts, rows, found>> /\ pc[p] = "ready"
        /\ pc' = [pc EXCEPT ![p] = "quarantines"]
        /\ scope' = [scope EXCEPT ![p] = e]
        /\ held' = [held EXCEPT ![p] = Forbidding(e)]
    BY <1>6 DEF Ask
  <2>2. \A x : Forbidding(x)' = Forbidding(x) /\ Enforced(x)' = Enforced(x)
    BY <2>1 DEF Forbidding, Applies, Quarantined, Latest, Enforced
  <2>3. \A q \in Proc \ {p} : /\ pc'[q] = pc[q] /\ scope'[q] = scope[q] /\ held'[q] = held[q]
                              /\ rows'[q] = rows[q] /\ found'[q] = found[q]
    BY <2>1 DEF TypeOK
  <2>4. pc'[p] = "quarantines" /\ scope'[p] = e /\ held'[p] = Forbidding(e)
    BY <2>1 DEF TypeOK
  <2>5. HeldAt(p)'
    BY <2>2, <2>4 DEF HeldAt
  <2>6. ASSUME NEW q \in Proc \ {p} PROVE HeldAt(q)'
    BY <2>2, <2>3, <2>6 DEF HeldAt, HeldInv
  <2> QED
    BY <2>5, <2>6 DEF HeldInv
<1>7. ASSUME NEW p \in Proc, ReadStep(p) PROVE HeldInv'
  <2> USE DEF ReadStep, ReadQuarantines, ReadScope, Review, ReadRules, Answered
  <2>1. /\ Track /\ UNCHANGED <<status, links, receipts>>
        /\ \A q \in Proc \ {p} : /\ pc'[q] = pc[q] /\ rows'[q] = rows[q]
                                /\ found'[q] = found[q]
    BY <1>7 DEF TypeOK
  <2>2. \A q \in Proc : held'[q] \subseteq StillHeld(q)
    BY <2>1 DEF Track
  <2>3. \A x : Enforced(x)' = Enforced(x)
    BY <2>1 DEF Enforced
  <2> SUFFICES HeldAt(p)'
    BY <2>1, <2>2, <2>3, QuietStep DEF HeldInv
  <2>4. pc[p] \in Gating
    BY <1>7 DEF Gating
  <2>5. pc'[p] \in Gating =>
          held'[p] \subseteq held[p] /\ held'[p] \subseteq Forbidding(scope[p])'
    BY <2>2, <2>4, TrackHeld
  <2>6. HeldAt(p) /\ held[p] \subseteq Forbidding(scope[p])
    BY <2>4 DEF HeldInv, HeldAt
  <2>7. \A r \in held[p] : r \in Rule /\ Applies(r, scope[p]) /\ (Quarantined(r) \/ Enforced(r))
    BY <2>6 DEF Forbidding
  <2>8. CASE ReadQuarantines(p)
    <3>1. pc'[p] = "reviews" /\ rows'[p] = {r \in Rule : Quarantined(r)}
      BY <2>8 DEF TypeOK
    <3> QED
      BY <2>3, <2>5, <2>7, <3>1 DEF HeldAt, Gating
  <2>9. ASSUME NEW r \in Rule, ReadScope(p, r) PROVE HeldAt(p)'
    <3>1. /\ pc'[p] = pc[p] /\ pc[p] \in {"reviews", "verdict"}
          /\ rows'[p] = rows[p] \ {r}
          /\ found'[p] = IF Applies(r, scope[p]) THEN found[p] \cup {r} ELSE found[p]
      BY <2>9 DEF TypeOK
    <3>2. \A x \in held[p] : x \in rows[p] \cup found[p] => x \in rows'[p] \cup found'[p]
      BY <2>7, <3>1
    <3> QED
      BY <2>3, <2>5, <2>6, <3>1, <3>2 DEF HeldAt, Gating
  <2>10. CASE Review(p)
    <3>1. CASE found[p] # {}
      BY <2>10, <3>1 DEF TypeOK, Gating, HeldAt
    <3>2. CASE found[p] = {}
      <4>1. /\ pc[p] = "reviews" /\ pc'[p] = "rules"
            /\ rows[p] = {} /\ rows'[p] = {} /\ found'[p] = {}
        BY <2>10, <3>2 DEF TypeOK
      <4> QED
        BY <2>3, <2>5, <2>6, <3>2, <4>1 DEF HeldAt, Gating
    <3> QED
      BY <3>1, <3>2
  <2>11. CASE ReadRules(p)
    <3>1. /\ pc[p] = "rules" /\ pc'[p] = "verdict"
          /\ rows'[p] = {r \in Rule : status[r] = "enabled"}
      BY <2>11 DEF TypeOK
    <3>2. \A r \in held[p] : r \in Unsafe \cup Blocking /\ r \in rows'[p]
      BY <2>6, <2>7, <3>1 DEF HeldAt, Enforced
    <3> QED
      BY <2>5, <3>1, <3>2 DEF HeldAt, Gating
  <2> QED
    BY <1>7, <2>8, <2>9, <2>10, <2>11
<1>8. CASE UNCHANGED vars
  BY <1>8 DEF vars, HeldInv, HeldAt, Forbidding, Applies, Quarantined, Latest, Enforced
<1> QED
  BY <1>2, <1>3, <1>4, <1>5, <1>6, <1>7, <1>8, StepCases

(* For any rules, scopes and processes: no rule that has forbidden the      *)
(* action ever since it was asked is missed, but one that a rollback has    *)
(* disabled between the two reads.                                          *)
THEOREM NothingHeldIsAllowedHolds == Spec => NothingHeldIsAllowed
<1> DEFINE I == TypeOK /\ HeldInv
<1>1. Init => I
  BY InitTypeOK DEF Init, HeldInv, HeldAt, Gating
<1>2. I /\ [Next]_vars => I'
  BY StepTypeOK, StepHeld
<1>3. I => \A p \in Proc : Verdict(p) /\ Allowed(p) => held[p] = {}
  <2> SUFFICES ASSUME I, NEW p \in Proc, Verdict(p), Allowed(p)
               PROVE  held[p] = {}
    OBVIOUS
  <2>1. /\ pc[p] = "verdict" /\ rows[p] = {}
        /\ found[p] \cap (Unsafe \cup Blocking) = {}
    BY DEF Verdict, At, Allowed
  <2>2. held[p] \subseteq (rows[p] \cup found[p]) \cap (Unsafe \cup Blocking)
    BY <2>1 DEF HeldInv, HeldAt
  <2> QED
    BY <2>1, <2>2
<1> QED
  BY <1>1, <1>2, <1>3, PTL DEF Spec, NothingHeldIsAllowed

-----------------------------------------------------------------------------
(* The latest batch of each source, and the order of the sources *)

(* A set of numbers up to N that is not empty has a greatest one. *)
LEMMA GreatestNatural ==
  ASSUME NEW N \in Nat, NEW S \in SUBSET (1 .. N), S # {}
  PROVE  \E k \in S : \A j \in S : j <= k
<1> DEFINE T == {N - k : k \in S}
           R == OpToRel(<, Nat)
<1>1. IsWellFoundedOn(R, Nat)
  BY NatLessThanWellFounded
<1>2. \A x, y \in Nat : <<x, y>> \in R <=> x < y
  BY DEF OpToRel
<1>3. T \in SUBSET Nat
  OBVIOUS
<1>4. PICK i : i \in S
  OBVIOUS
<1>5. N - i \in T
  BY <1>4
<1>6. T # {}
  BY <1>5
<1> HIDE DEF R, T
<1>7. PICK x \in T : \A y \in T : ~ (<<y, x>> \in R)
  BY <1>1, <1>3, <1>6, WFMin
<1>8. PICK k \in S : x = N - k
  BY <1>7 DEF T
<1>9. \A j \in S : N - j \in T
  BY DEF T
<1>10. ASSUME NEW j \in S
       PROVE  j <= k
  <2>1. ~ (N - j < x)
    BY <1>2, <1>3, <1>7, <1>9
  <2> QED
    BY <1>8, <2>1
<1> QED
  BY <1>10

TablesOK == batches \in Seq(Batch)

LEMMA LatestIs ==
  ASSUME TablesOK, NEW s \in Known
  PROVE  /\ LatestOf(s) \in 1 .. Len(batches)
         /\ SourceOf[batches[LatestOf(s)].version] = s
         /\ batches[LatestOf(s)].applied
         /\ \A j \in AppliedOf(s) : j <= LatestOf(s)
<1>1. Len(batches) \in Nat /\ AppliedOf(s) \in SUBSET (1 .. Len(batches))
  BY DEF TablesOK, AppliedOf
<1>2. AppliedOf(s) # {}
  BY DEF Known
<1>3. \E k \in AppliedOf(s) : \A j \in AppliedOf(s) : j <= k
  BY <1>1, <1>2, GreatestNatural
<1>4. LatestOf(s) \in AppliedOf(s) /\ \A j \in AppliedOf(s) : j <= LatestOf(s)
  BY <1>3 DEF LatestOf
<1> QED
  BY <1>1, <1>4 DEF AppliedOf

LEMMA LatestApart ==
  ASSUME TablesOK, NEW s \in Known, NEW u \in Known, LatestOf(s) = LatestOf(u)
  PROVE  s = u
BY LatestIs

LEMMA KnownFinite ==
  ASSUME TablesOK
  PROVE  IsFiniteSet(Known)
<1> DEFINE f == [s \in Known |-> LatestOf(s)]
<1>1. Len(batches) \in Nat
  BY DEF TablesOK
<1>2. \A s \in Known : LatestOf(s) \in 1 .. Len(batches)
  BY LatestIs
<1>3. f \in Injection(Known, 1 .. Len(batches))
  BY <1>2, LatestApart DEF Injection, IsInjective
<1>4. IsFiniteSet(1 .. Len(batches))
  BY <1>1, FS_Interval
<1> QED
  BY <1>3, <1>4, FS_Injection

(* The sources imported no earlier than one. *)
Since(s) == {u \in Known : LatestOf(u) >= LatestOf(s)}

LEMMA SinceFinite ==
  ASSUME TablesOK, NEW s \in Known
  PROVE  /\ IsFiniteSet(Since(s)) /\ Place(s) = Cardinality(Since(s))
         /\ Place(s) \in 1 .. Cardinality(Known) /\ Cardinality(Known) \in Nat
<1>1. IsFiniteSet(Known) /\ Since(s) \in SUBSET Known
  BY KnownFinite DEF Since
<1>2. IsFiniteSet(Since(s)) /\ Cardinality(Since(s)) <= Cardinality(Known)
  BY <1>1, FS_Subset
<1>3. Cardinality(Since(s)) \in Nat /\ Cardinality(Known) \in Nat
  BY <1>1, <1>2, FS_CardinalityType
<1>4. LatestOf(s) \in Nat
  BY LatestIs DEF TablesOK
<1>5. s \in Since(s)
  BY <1>4 DEF Since
<1>6. Cardinality(Since(s)) # 0
  BY <1>2, <1>5, FS_EmptySet
<1>7. Place(s) = Cardinality(Since(s))
  BY DEF Place, Since
<1> QED
  BY <1>2, <1>3, <1>6, <1>7

(* A source imported later has an earlier place. *)
LEMMA PlaceOrder ==
  ASSUME TablesOK, NEW s \in Known, NEW u \in Known, LatestOf(u) < LatestOf(s)
  PROVE  Place(s) < Place(u)
<1>1. LatestOf(s) \in Nat /\ LatestOf(u) \in Nat /\ \A v \in Known : LatestOf(v) \in Nat
  BY LatestIs DEF TablesOK
<1>2. Since(s) \in SUBSET Since(u)
  BY <1>1 DEF Since
<1>3. u \in Since(u) /\ u \notin Since(s)
  BY <1>1 DEF Since
<1>4. /\ IsFiniteSet(Since(s)) /\ Place(s) = Cardinality(Since(s)) /\ Place(s) \in Nat
      /\ IsFiniteSet(Since(u)) /\ Place(u) = Cardinality(Since(u)) /\ Place(u) \in Nat
  BY SinceFinite
<1>5. /\ Cardinality(Since(s)) <= Cardinality(Since(u))
      /\ Cardinality(Since(u)) = Cardinality(Since(s)) => Since(u) = Since(s)
  BY <1>2, <1>4, FS_Subset
<1> QED
  BY <1>3, <1>4, <1>5

LEMMA PlaceApart ==
  ASSUME TablesOK, NEW s \in Known, NEW u \in Known, Place(s) = Place(u)
  PROVE  s = u
<1>1. LatestOf(s) \in Nat /\ LatestOf(u) \in Nat /\ Place(s) \in Nat
  BY LatestIs, SinceFinite DEF TablesOK
<1>2. ~ (LatestOf(u) < LatestOf(s)) /\ ~ (LatestOf(s) < LatestOf(u))
  BY <1>1, PlaceOrder
<1> QED
  BY <1>1, <1>2, LatestApart

(* Every place up to their number has a source. *)
LEMMA PlaceTaken ==
  ASSUME TablesOK, NEW n \in 1 .. Cardinality(Known)
  PROVE  \E s \in Known : Place(s) = n
<1> DEFINE f == [s \in Known |-> Place(s)]
           P == 1 .. Cardinality(Known)
<1>1. Cardinality(Known) \in Nat
  BY KnownFinite, FS_CardinalityType
<1>2. IsFiniteSet(P) /\ Cardinality(P) = Cardinality(Known)
  BY <1>1, FS_Interval
<1>3. \A s \in Known : Place(s) \in P
  BY SinceFinite
<1>4. f \in Injection(Known, P)
  BY <1>3, PlaceApart DEF Injection, IsInjective
<1>5. f \in Surjection(Known, P)
  BY <1>2, <1>4, FS_Injection
<1> QED
  BY <1>5 DEF Surjection

(* What a refresh goes through: each source that has a batch, at its place,  *)
(* with the version of its latest.                                           *)
LEMMA LatestVersionsAre ==
  ASSUME TablesOK
  PROVE  /\ LatestVersions \in Seq(Version)
         /\ \A n \in DOMAIN LatestVersions :
              LET s == SourceOf[LatestVersions[n]] IN
              s \in Known /\ Place(s) = n /\ batches[LatestOf(s)].version = LatestVersions[n]
         /\ \A s \in Known : /\ Place(s) \in DOMAIN LatestVersions
                            /\ SourceOf[LatestVersions[Place(s)]] = s
<1> DEFINE N == Cardinality(Known)
<1>1. N \in Nat
  BY KnownFinite, FS_CardinalityType
<1>2. ASSUME NEW n \in 1 .. N
      PROVE  \E s \in Known : /\ Place(s) = n /\ LatestVersions[n] = batches[LatestOf(s)].version
                              /\ SourceOf[LatestVersions[n]] = s
                              /\ LatestVersions[n] \in Version
  <2>1. PICK s : s = CHOOSE u \in Known : Place(u) = n
    OBVIOUS
  <2>2. s \in Known /\ Place(s) = n
    BY <2>1, PlaceTaken
  <2>3. LatestVersions[n] = batches[LatestOf(s)].version
    BY <2>1 DEF LatestVersions
  <2>4. LatestOf(s) \in 1 .. Len(batches) /\ SourceOf[batches[LatestOf(s)].version] = s
    BY <2>2, LatestIs
  <2>5. \A k \in 1 .. Len(batches) : batches[k] \in Batch
    BY DEF TablesOK
  <2>6. batches[LatestOf(s)].version \in Version
    BY <2>4, <2>5 DEF Batch
  <2> QED
    BY <2>2, <2>3, <2>4, <2>6
<1>3. DOMAIN LatestVersions = 1 .. N
  BY DEF LatestVersions
<1>4. LatestVersions \in Seq(Version)
  <2>1. LatestVersions = [n \in 1 .. N |-> LatestVersions[n]]
    BY DEF LatestVersions
  <2> QED
    BY <1>1, <1>2, <2>1
<1>5. ASSUME NEW s \in Known
      PROVE  /\ Place(s) \in DOMAIN LatestVersions
             /\ SourceOf[LatestVersions[Place(s)]] = s
  <2>1. Place(s) \in 1 .. N
    BY SinceFinite
  <2>2. PICK u \in Known : Place(u) = Place(s) /\ SourceOf[LatestVersions[Place(s)]] = u
    BY <1>2, <2>1
  <2> QED
    BY <1>3, <2>1, <2>2, PlaceApart
<1> QED
  BY <1>2, <1>3, <1>4, <1>5
-----------------------------------------------------------------------------
(* Types *)

(* The sources of a refresh are different ones; it goes on to the audit of a *)
(* source only when there is one, and among the first MaxTracked.            *)
Fits(r) ==
  /\ Len(r.report) <= Len(r.latest)
  /\ \A m, n \in DOMAIN r.latest : SourceOf[r.latest[m]] = SourceOf[r.latest[n]] => m = n
  /\ r.at = "audit" => Len(r.report) < Len(r.latest) /\ Len(r.report) < MaxTracked

HooksOK ==
  /\ hook \in [Hook -> Refreshing \cup {Idle}]
  /\ \A h \in Hook : hook[h] # Idle => Fits(hook[h])

FilesOK ==
  /\ file \in [Source -> Version \cup {Missing}]
  /\ \A s \in Source : file[s] # Missing => SourceOf[file[s]] = s

CachesOK ==
  /\ clearing \subseteq DOMAIN batches
  /\ cached \in [Source -> SUBSET Target]
  /\ changes \in 0 .. MaxChanges

HistoriesOK ==
  /\ ever \in [Watched -> [Source -> SUBSET Target]]
  /\ always \in [Watched -> [Source -> SUBSET Target]]

FreshTypeInv == TablesOK /\ FilesOK /\ CachesOK /\ HooksOK /\ HistoriesOK

LEMMA FreshTypeInvTypes == FreshTypeInv => FreshTypeOK
BY DEF FreshTypeInv, TablesOK, FilesOK, CachesOK, HooksOK, HistoriesOK, FreshTypeOK, Fits

LEMMA FreshInitTypes == FreshInit => FreshTypeInv
<1> SUFFICES ASSUME FreshInit PROVE FreshTypeInv
  OBVIOUS
<1>1. TablesOK
  BY DEF FreshInit, TablesOK
<1>2. FilesOK
  BY DEF FreshInit, FilesOK
<1>3. Nothing \in [Source -> SUBSET Target]
  BY DEF Nothing
<1>4. CachesOK
  BY <1>3, FreshnessAssumption DEF FreshInit, CachesOK
<1>5. HooksOK
  BY DEF FreshInit, HooksOK
<1>6. HistoriesOK
  BY <1>3 DEF FreshInit, HistoriesOK
<1> QED
  BY <1>1, <1>2, <1>4, <1>5, <1>6 DEF FreshTypeInv

LEMMA TargetsType ==
  ASSUME NEW F \in SUBSET Fragment
  PROVE  Targets(F) \in SUBSET Target
BY FreshnessAssumption DEF Targets

LEMMA RowsType ==
  ASSUME TablesOK, NEW s
  PROVE  Rows(s) \in SUBSET Fragment
<1>1. \A k \in DOMAIN batches : batches[k] \in Batch
  BY DEF TablesOK
<1>2. \A k \in AppliedOf(s) : batches[k].rows \in SUBSET Fragment
  BY <1>1 DEF AppliedOf, Batch
<1> QED
  BY <1>2 DEF Rows

LEMMA RowsTypeNext ==
  ASSUME TablesOK', NEW s
  PROVE  Rows(s)' \in SUBSET Fragment
<1>1. \A k \in DOMAIN batches' : batches'[k] \in Batch
  BY DEF TablesOK
<1>2. \A k \in AppliedOf(s)' : batches'[k].rows \in SUBSET Fragment
  BY <1>1 DEF AppliedOf, Batch
<1> QED
  BY <1>2 DEF Rows

LEMMA GoneType ==
  ASSUME TablesOK
  PROVE  /\ Gone \in [Source -> SUBSET Target] /\ Due \in [Source -> SUBSET Target]
         /\ \A s \in Source : Due[s] \subseteq Gone[s]
<1>1. \A s \in Source : Targets(Rows(s)) \in SUBSET Target
  BY RowsType, TargetsType
<1>2. Gone \in [Source -> SUBSET Target]
  BY <1>1 DEF Gone
<1>3. PICK gone \in [Source -> SUBSET Target] : gone = Gone
  BY <1>2
<1>4. Due = [s \in Source |->
        IF s \in Known /\ Place(s) <= MaxTracked /\ batches[LatestOf(s)].version = file[s]
        THEN {} ELSE gone[s]]
  BY <1>3, Zenon DEF Due, PassesAsCurrent
<1> QED
  BY <1>3, <1>4

LEMMA GoneTypeNext ==
  ASSUME TablesOK'
  PROVE  Gone' \in [Source -> SUBSET Target] /\ Due' \in [Source -> SUBSET Target]
<1>1. \A s \in Source : Targets(Rows(s)') \in SUBSET Target
  BY RowsTypeNext, TargetsType
<1>2. \A s \in Source : Targets(Rows(s))' \in SUBSET Target
  BY <1>1 DEF Targets
<1>3. Gone' \in [Source -> SUBSET Target]
  BY <1>2 DEF Gone
<1>4. PICK gone \in [Source -> SUBSET Target] : gone = Gone'
  BY <1>3
<1>5. Due' = [s \in Source |->
        IF s \in Known' /\ Place(s)' <= MaxTracked /\ batches'[LatestOf(s)'].version = file'[s]
        THEN {} ELSE gone[s]]
  BY <1>4, Zenon DEF Due, PassesAsCurrent
<1> QED
  BY <1>4, <1>5

(* The histories of a refresh, as Remember goes on with them. *)
LEMMA EverIs ==
  ASSUME Remember, NEW h \in Watched
  PROVE  ever'[h] = IF hook'[h] = Idle THEN Nothing
                    ELSE IF hook[h] = Idle THEN Gone
                    ELSE IF batches' # batches THEN [s \in Source |-> Target]
                    ELSE IF file' = file THEN ever[h]
                    ELSE [s \in Source |-> ever[h][s] \cup Gone'[s]]
BY DEF Remember, Kept

LEMMA AlwaysIs ==
  ASSUME Remember, NEW h \in Watched
  PROVE  always'[h] = IF hook'[h] = Idle THEN Nothing
                      ELSE IF hook[h] = Idle THEN Due
                      ELSE IF batches' # batches THEN [s \in Source |-> {}]
                      ELSE IF file' = file THEN always[h]
                      ELSE [s \in Source |-> always[h][s] \cap Due'[s]]
BY DEF Remember, Kept

LEMMA HistoriesType ==
  ASSUME FreshTypeInv, TablesOK', Remember
  PROVE  HistoriesOK'
<1>1. /\ Nothing \in [Source -> SUBSET Target]
      /\ [s \in Source |-> Target] \in [Source -> SUBSET Target]
      /\ [s \in Source |-> {}] \in [Source -> SUBSET Target]
  BY DEF Nothing
<1>2. PICK gone \in [Source -> SUBSET Target], due \in [Source -> SUBSET Target] :
        gone = Gone' /\ due = Due'
  BY GoneTypeNext
<1>3. Gone \in [Source -> SUBSET Target] /\ Due \in [Source -> SUBSET Target]
  BY GoneType DEF FreshTypeInv
<1>4. ASSUME NEW h \in Watched
      PROVE  ever'[h] \in [Source -> SUBSET Target] /\ always'[h] \in [Source -> SUBSET Target]
  <2>1. PICK e \in [Source -> SUBSET Target], a \in [Source -> SUBSET Target] :
          e = ever[h] /\ a = always[h]
    BY DEF FreshTypeInv, HistoriesOK
  <2>2. /\ [s \in Source |-> e[s] \cup gone[s]] \in [Source -> SUBSET Target]
        /\ [s \in Source |-> a[s] \cap due[s]] \in [Source -> SUBSET Target]
    OBVIOUS
  <2>3. \/ ever'[h] = Nothing \/ ever'[h] = Gone \/ ever'[h] = [s \in Source |-> Target]
        \/ ever'[h] = e \/ ever'[h] = [s \in Source |-> e[s] \cup gone[s]]
    BY <1>2, <2>1, EverIs, Zenon
  <2>4. \/ always'[h] = Nothing \/ always'[h] = Due \/ always'[h] = [s \in Source |-> {}]
        \/ always'[h] = a \/ always'[h] = [s \in Source |-> a[s] \cap due[s]]
    BY <1>2, <2>1, AlwaysIs, Zenon
  <2> QED
    BY <1>1, <1>3, <2>2, <2>3, <2>4
<1>5. ever' = [h \in Watched |-> ever'[h]] /\ always' = [h \in Watched |-> always'[h]]
  BY DEF Remember, Kept
<1> QED
  BY <1>4, <1>5 DEF HistoriesOK

LEMMA EditTypes ==
  ASSUME FreshTypeInv, NEW s \in Source, NEW v \in Version \cup {Missing}, Edit(s, v)
  PROVE  /\ TablesOK' /\ FilesOK' /\ CachesOK'
         /\ hook' = hook /\ batches' = batches /\ changes' # changes
<1>1. FilesOK'
  BY DEF Edit, FreshTypeInv, FilesOK
<1>2. changes' \in 0 .. MaxChanges /\ changes' # changes
  BY FreshnessAssumption DEF Edit, Spend, FreshTypeInv, CachesOK
<1> QED
  BY <1>1, <1>2 DEF Edit, imports, FreshTypeInv, TablesOK, CachesOK

LEMMA ApplyTypes ==
  ASSUME FreshTypeInv, NEW s \in Source, NEW chosen \in SUBSET Fragment, Apply(s, chosen)
  PROVE  /\ TablesOK' /\ FilesOK' /\ CachesOK'
         /\ hook' = hook /\ file' = file /\ changes' # changes
<1> DEFINE made == chosen \ UNION {batches[k].rows :
                       k \in {j \in AppliedOf(s) : batches[j].version = file[s]}}
           b == [version |-> file[s], rows |-> made, applied |-> TRUE]
<1>1. made \in SUBSET Fragment
  OBVIOUS
<1>2. file[s] \in Version
  BY DEF Apply, FreshTypeInv, FilesOK
<1> HIDE DEF made
<1>3. b \in Batch
  BY <1>1, <1>2 DEF Batch
<1>4. batches' = Append(batches, b)
  BY Zenon DEF Apply, b, made
<1> HIDE DEF b
<1>5. /\ TablesOK' /\ DOMAIN batches' = 1 .. Len(batches) + 1
      /\ DOMAIN batches = 1 .. Len(batches) /\ Len(batches) \in Nat
  BY <1>3, <1>4 DEF FreshTypeInv, TablesOK
<1>6. clearing' = clearing \cup {Len(batches) + 1} /\ UNCHANGED <<file, cached, hook>> /\ Spend
  BY Zenon DEF Apply
<1>7. clearing \subseteq DOMAIN batches
  BY DEF FreshTypeInv, CachesOK
<1>8. clearing' \subseteq DOMAIN batches'
  BY <1>5, <1>6, <1>7
<1>9. changes' \in 0 .. MaxChanges /\ changes' # changes
  BY <1>6, FreshnessAssumption DEF Spend, FreshTypeInv, CachesOK
<1>10. CachesOK'
  BY <1>6, <1>8, <1>9 DEF FreshTypeInv, CachesOK
<1>11. FilesOK'
  BY <1>6 DEF FreshTypeInv, FilesOK
<1> QED
  BY <1>5, <1>6, <1>9, <1>10, <1>11

LEMMA ClearTypes ==
  ASSUME FreshTypeInv, NEW k \in DOMAIN batches, Clear(k) \/ DieBeforeClear(k)
  PROVE  /\ TablesOK' /\ FilesOK' /\ CachesOK'
         /\ hook' = hook /\ file' = file /\ batches' = batches
<1>1. clearing' = clearing \ {k} /\ UNCHANGED <<file, batches, hook, changes>>
  BY DEF Clear, DieBeforeClear
<1>2. cached' \in [Source -> SUBSET Target]
  BY DEF Clear, DieBeforeClear, FreshTypeInv, CachesOK
<1> QED
  BY <1>1, <1>2 DEF FreshTypeInv, TablesOK, FilesOK, CachesOK

LEMMA RollbackTypes ==
  ASSUME FreshTypeInv, NEW k \in DOMAIN batches, Rollback(k)
  PROVE  /\ TablesOK' /\ FilesOK' /\ CachesOK'
         /\ hook' = hook /\ file' = file /\ changes' # changes
<1>1. PICK b \in Batch : b = [batches[k] EXCEPT !.applied = FALSE]
  <2>1. batches[k] \in Batch
    BY DEF FreshTypeInv, TablesOK
  <2> QED
    BY <2>1 DEF Batch
<1>2. batches' = [batches EXCEPT ![k] = b]
  BY <1>1 DEF Rollback
<1>3. TablesOK' /\ DOMAIN batches' = DOMAIN batches
  BY <1>1, <1>2 DEF FreshTypeInv, TablesOK
<1>4. UNCHANGED <<file, clearing, cached, hook>> /\ Spend
  BY DEF Rollback
<1>5. changes' \in 0 .. MaxChanges /\ changes' # changes
  BY <1>4, FreshnessAssumption DEF Spend, FreshTypeInv, CachesOK
<1> QED
  BY <1>3, <1>4, <1>5 DEF FreshTypeInv, FilesOK, CachesOK

(* People and reviews leave the refreshes alone, and change files or imports. *)
LEMMA ChangeTypes ==
  ASSUME FreshTypeInv, Change
  PROVE  /\ TablesOK' /\ FilesOK' /\ CachesOK'
         /\ hook' = hook /\ (batches' = batches \/ file' = file)
BY EditTypes, ApplyTypes, ClearTypes, RollbackTypes DEF Change

(* A step of one refresh. *)
LEMMA ToTypes ==
  ASSUME FreshTypeInv, NEW h \in Hook, NEW r \in Refreshing \cup {Idle}, To(h, r),
         r # Idle => Fits(r)
  PROVE  HooksOK' /\ hook'[h] = r /\ \A g \in Hook \ {h} : hook'[g] = hook[g]
<1>1. hook' = [hook EXCEPT ![h] = r] /\ hook \in [Hook -> Refreshing \cup {Idle}]
  BY DEF To, FreshTypeInv, HooksOK
<1>2. hook' \in [Hook -> Refreshing \cup {Idle}] /\ hook'[h] = r
      /\ \A g \in Hook \ {h} : hook'[g] = hook[g]
  BY <1>1
<1>3. \A g \in Hook : hook'[g] # Idle => Fits(hook'[g])
  BY <1>2 DEF FreshTypeInv, HooksOK
<1> QED
  BY <1>2, <1>3 DEF HooksOK

LEMMA ElsewhereTypes ==
  ASSUME FreshTypeInv, Elsewhere
  PROVE  /\ TablesOK' /\ FilesOK' /\ file' = file /\ batches' = batches /\ changes' = changes
         /\ cached' \in [Source -> SUBSET Target] => CachesOK'
BY DEF FreshTypeInv, Elsewhere, imports, TablesOK, FilesOK, CachesOK

(* A refresh that has begun, and the source it has come to. *)
LEMMA ComeTo ==
  ASSUME FreshTypeInv, NEW h \in Hook, hook[h] # Idle
  PROVE  /\ hook[h] \in Refreshing /\ Fits(hook[h])
         /\ Position(h) \in Nat /\ Position(h) = Len(hook[h].report) + 1
         /\ Len(hook[h].latest) \in Nat /\ Len(hook[h].report) \in Nat
         /\ Position(h) <= Len(hook[h].latest) =>
              /\ Position(h) \in DOMAIN hook[h].latest
              /\ Approved(h) = hook[h].latest[Position(h)]
              /\ Approved(h) \in Version /\ SourceOf[Approved(h)] \in Source
              /\ ImportedRows(h) = hook[h].rows[SourceOf[Approved(h)]]
              /\ ImportedRows(h) \in SUBSET Fragment
<1>1. PICK r \in Refreshing : r = hook[h]
  BY DEF FreshTypeInv, HooksOK
<1>2. r.latest \in Seq(Version) /\ r.rows \in [Source -> SUBSET Fragment]
      /\ r.report \in Seq(SUBSET Target)
  BY DEF Refreshing
<1>3. Position(h) = Len(r.report) + 1 /\ Position(h) \in Nat
      /\ Len(r.latest) \in Nat /\ Len(r.report) \in Nat
  BY <1>1, <1>2 DEF Position
<1>4. Fits(r)
  BY <1>1 DEF FreshTypeInv, HooksOK
<1>5. ASSUME Position(h) <= Len(r.latest)
      PROVE  /\ Position(h) \in DOMAIN r.latest
             /\ Approved(h) = r.latest[Position(h)]
             /\ Approved(h) \in Version /\ SourceOf[Approved(h)] \in Source
             /\ ImportedRows(h) = r.rows[SourceOf[Approved(h)]]
             /\ ImportedRows(h) \in SUBSET Fragment
  <2>1. Position(h) \in DOMAIN r.latest
    BY <1>2, <1>3, <1>5
  <2>2. Approved(h) = r.latest[Position(h)] /\ Approved(h) \in Version
    BY <1>1, <1>2, <2>1 DEF Approved
  <2>3. SourceOf[Approved(h)] \in Source
    BY <2>2, FreshnessAssumption
  <2>4. ImportedRows(h) = r.rows[SourceOf[Approved(h)]]
    BY <1>1 DEF ImportedRows
  <2> QED
    BY <1>2, <2>1, <2>2, <2>3, <2>4
<1> QED
  BY <1>1, <1>3, <1>4, <1>5

LEMMA StartTypes ==
  ASSUME FreshTypeInv, NEW h \in Hook, StartRefresh(h)
  PROVE  /\ HooksOK' /\ \A g \in Hook \ {h} : hook'[g] = hook[g]
         /\ hook[h] = Idle
         /\ hook'[h] = [at |-> "rows", latest |-> LatestVersions, rows |-> Nothing, report |-> <<>>]
<1>1. PICK r : r = [at |-> "rows", latest |-> LatestVersions, rows |-> Nothing, report |-> <<>>]
  OBVIOUS
<1>2. PICK l \in Seq(Version) : l = LatestVersions
  BY LatestVersionsAre DEF FreshTypeInv
<1>3. Nothing \in [Source -> SUBSET Fragment] /\ <<>> \in Seq(SUBSET Target) /\ Len(<<>>) = 0
  BY DEF Nothing
<1>4. r \in Refreshing
  BY <1>1, <1>2, <1>3 DEF Refreshing
<1>5. \A m, n \in DOMAIN l : SourceOf[l[m]] = SourceOf[l[n]] => m = n
  BY <1>2, LatestVersionsAre DEF FreshTypeInv
<1>6. Fits(r)
  BY <1>1, <1>2, <1>3, <1>5 DEF Fits
<1>7. To(h, r) /\ hook[h] = Idle
  BY <1>1 DEF StartRefresh
<1> QED
  BY <1>1, <1>4, <1>6, <1>7, ToTypes

LEMMA ReadTypes ==
  ASSUME FreshTypeInv, NEW h \in Hook, ReadRows(h)
  PROVE  /\ HooksOK' /\ \A g \in Hook \ {h} : hook'[g] = hook[g]
         /\ hook[h] # Idle /\ hook[h].at = "rows"
         /\ hook'[h] # Idle
         /\ hook'[h].at = "observe" /\ hook'[h].rows = [s \in Source |-> Rows(s)]
         /\ hook'[h].latest = hook[h].latest /\ hook'[h].report = hook[h].report
<1>1. hook[h] # Idle /\ hook[h].at = "rows"
  BY DEF ReadRows
<1>2. PICK r \in Refreshing : r = hook[h] /\ Fits(r)
  BY <1>1, ComeTo
<1>3. PICK made \in [Source -> SUBSET Fragment] : made = [s \in Source |-> Rows(s)]
  BY RowsType DEF FreshTypeInv
<1>4. PICK x : x = [r EXCEPT !.at = "observe", !.rows = made]
  OBVIOUS
<1>5. /\ x \in Refreshing /\ x.at = "observe" /\ x.rows = made
      /\ x.latest = r.latest /\ x.report = r.report
  BY <1>4 DEF Refreshing
<1>6. Fits(x)
  BY <1>2, <1>5 DEF Fits
<1>7. To(h, x)
  BY <1>2, <1>3, <1>4 DEF ReadRows
<1>8. HooksOK' /\ hook'[h] = x /\ \A g \in Hook \ {h} : hook'[g] = hook[g]
  BY <1>5, <1>6, <1>7, ToTypes
<1>9. x # Idle
  BY <1>5, FreshnessAssumption
<1> QED
  BY <1>1, <1>2, <1>3, <1>5, <1>8, <1>9

LEMMA JudgeTypes ==
  ASSUME FreshTypeInv, NEW h \in Hook, hook[h] # Idle, Position(h) <= Len(hook[h].latest),
         NEW stale \in SUBSET Target, Judge(h, stale)
  PROVE  /\ HooksOK' /\ \A g \in Hook \ {h} : hook'[g] = hook[g]
         /\ hook'[h] # Idle /\ hook'[h].at = "observe" /\ hook'[h].rows = hook[h].rows
         /\ hook'[h].latest = hook[h].latest
         /\ DOMAIN hook'[h].report = 1 .. Position(h)
         /\ hook'[h].report[Position(h)] = stale
         /\ \A n \in 1 .. Position(h) :
              n # Position(h) => /\ n \in DOMAIN hook[h].report
                                 /\ hook'[h].report[n] = hook[h].report[n]
<1>1. PICK r \in Refreshing : r = hook[h] /\ Fits(r)
  BY ComeTo
<1>2. PICK x : x = [r EXCEPT !.at = "observe", !.report = Append(@, stale)]
  OBVIOUS
<1>3. r.report \in Seq(SUBSET Target) /\ Append(r.report, stale) \in Seq(SUBSET Target)
  BY DEF Refreshing
<1>4. /\ x \in Refreshing /\ x.at = "observe" /\ x.rows = r.rows
      /\ x.latest = r.latest /\ x.report = Append(r.report, stale)
  BY <1>2, <1>3 DEF Refreshing
<1>5. Position(h) = Len(r.report) + 1 /\ Len(r.report) \in Nat /\ Len(r.latest) \in Nat
  BY <1>1, ComeTo
<1>6. Len(x.report) = Position(h)
  BY <1>3, <1>4, <1>5
<1>7. Fits(x)
  BY <1>1, <1>4, <1>5, <1>6 DEF Fits
<1>8. To(h, x)
  BY <1>1, <1>2 DEF Judge
<1>9. HooksOK' /\ hook'[h] = x /\ \A g \in Hook \ {h} : hook'[g] = hook[g]
  BY <1>4, <1>7, <1>8, ToTypes
<1>10. x # Idle
  BY <1>4, FreshnessAssumption
<1>11. /\ DOMAIN x.report = 1 .. Position(h) /\ x.report[Position(h)] = stale
       /\ \A n \in 1 .. Position(h) :
            n # Position(h) => n \in DOMAIN r.report /\ x.report[n] = r.report[n]
  BY <1>3, <1>4, <1>5, <1>6
<1> QED
  BY <1>1, <1>4, <1>9, <1>10, <1>11

LEMMA ToAuditTypes ==
  ASSUME FreshTypeInv, NEW h \in Hook, hook[h] # Idle, Position(h) <= Len(hook[h].latest),
         Position(h) <= MaxTracked, To(h, [hook[h] EXCEPT !.at = "audit"])
  PROVE  /\ HooksOK' /\ \A g \in Hook \ {h} : hook'[g] = hook[g]
         /\ hook'[h] # Idle /\ hook'[h].at = "audit" /\ hook'[h].rows = hook[h].rows
         /\ hook'[h].latest = hook[h].latest /\ hook'[h].report = hook[h].report
<1>1. PICK r \in Refreshing : r = hook[h] /\ Fits(r)
  BY ComeTo
<1>2. PICK x : x = [r EXCEPT !.at = "audit"]
  OBVIOUS
<1>3. /\ x \in Refreshing /\ x.at = "audit" /\ x.rows = r.rows
      /\ x.latest = r.latest /\ x.report = r.report
  BY <1>2 DEF Refreshing
<1>4. Position(h) = Len(r.report) + 1 /\ Len(r.report) \in Nat /\ Len(r.latest) \in Nat
  BY <1>1, ComeTo
<1>5. Len(r.report) < Len(r.latest) /\ Len(r.report) < MaxTracked
  BY <1>1, <1>4, FreshnessAssumption
<1>6. Fits(x)
  BY <1>1, <1>3, <1>5 DEF Fits
<1>7. To(h, x)
  BY <1>1, <1>2
<1>8. HooksOK' /\ hook'[h] = x /\ \A g \in Hook \ {h} : hook'[g] = hook[g]
  BY <1>3, <1>6, <1>7, ToTypes
<1>9. x # Idle
  BY <1>3, FreshnessAssumption
<1> QED
  BY <1>1, <1>3, <1>8, <1>9

(* An observation judges the source, or goes on to audit its file. *)
LEMMA ObserveIs ==
  ASSUME FreshTypeInv, NEW h \in Hook, Observe(h)
  PROVE  /\ hook[h] # Idle /\ hook[h].at = "observe" /\ Position(h) <= Len(hook[h].latest)
         /\ \/ /\ file[SourceOf[Approved(h)]] = Missing \/ Position(h) > MaxTracked
               /\ Targets(ImportedRows(h)) \in SUBSET Target
               /\ Judge(h, Targets(ImportedRows(h)))
            \/ /\ file[SourceOf[Approved(h)]] = Approved(h) /\ Position(h) <= MaxTracked
               /\ {} \in SUBSET Target
               /\ Judge(h, {})
            \/ /\ Position(h) <= MaxTracked
               /\ To(h, [hook[h] EXCEPT !.at = "audit"])
<1>1. hook[h] # Idle /\ hook[h].at = "observe" /\ Position(h) <= Len(hook[h].latest)
  BY DEF Observe
<1>2. ImportedRows(h) \in SUBSET Fragment /\ Position(h) \in Nat
  BY <1>1, ComeTo
<1>3. Targets(ImportedRows(h)) \in SUBSET Target
  BY <1>2, TargetsType
<1>4. CASE Withheld(h)
  BY <1>1, <1>3, <1>4 DEF Observe, Withheld
<1>5. CASE ~ Withheld(h)
  <2>1. Position(h) <= MaxTracked
    BY <1>2, <1>5, FreshnessAssumption DEF Withheld
  <2> QED
    BY <1>1, <1>5, <2>1 DEF Observe
<1> QED
  BY <1>4, <1>5

LEMMA AuditIs ==
  ASSUME FreshTypeInv, NEW h \in Hook, Audit(h)
  PROVE  /\ hook[h] # Idle /\ hook[h].at = "audit" /\ Position(h) <= Len(hook[h].latest)
         /\ Position(h) <= MaxTracked
         /\ \E stale \in SUBSET Target :
              /\ Judge(h, stale)
              /\ \/ /\ file[SourceOf[Approved(h)]] = Missing
                    /\ stale = Targets(ImportedRows(h))
                 \/ /\ file[SourceOf[Approved(h)]] \in Version
                    /\ stale = Stale(ImportedRows(h), Fragments[file[SourceOf[Approved(h)]]])
<1>1. hook[h] # Idle /\ hook[h].at = "audit"
  BY DEF Audit
<1>2. PICK r \in Refreshing : r = hook[h] /\ Fits(r) /\ r.at = "audit"
  BY <1>1, ComeTo
<1>3. Position(h) = Len(r.report) + 1 /\ Len(r.report) \in Nat /\ Len(r.latest) \in Nat
  BY <1>1, <1>2, ComeTo
<1>4. Position(h) <= Len(hook[h].latest) /\ Position(h) <= MaxTracked
  BY <1>2, <1>3, FreshnessAssumption DEF Fits
<1>5. PICK made \in SUBSET Fragment, s \in Source :
        made = ImportedRows(h) /\ s = SourceOf[Approved(h)]
  BY <1>1, <1>4, ComeTo
<1>6. Targets(made) \in SUBSET Target /\ \A inFile : Stale(made, inFile) \in SUBSET Target
  <2>1. \A inFile : Targets(made \ inFile) \in SUBSET Target
    BY TargetsType
  <2> QED
    BY <2>1, TargetsType DEF Stale
<1>7. CASE file[s] = Missing
  <2>1. Judge(h, Targets(made))
    BY <1>5, <1>7 DEF Audit
  <2> QED
    BY <1>1, <1>4, <1>5, <1>6, <1>7, <2>1
<1>8. CASE file[s] # Missing
  <2>1. Judge(h, Stale(made, Fragments[file[s]]))
    BY <1>5, <1>8 DEF Audit
  <2>2. file[s] \in Version
    BY <1>8 DEF FreshTypeInv, FilesOK
  <2> QED
    BY <1>1, <1>4, <1>5, <1>6, <2>1, <2>2
<1> QED
  BY <1>7, <1>8

(* A refresh publishes when it has judged each of its sources. *)
LEMMA PublishIs ==
  ASSUME FreshTypeInv, NEW h \in Hook, Publish(h)
  PROVE  /\ HooksOK' /\ \A g \in Hook \ {h} : hook'[g] = hook[g]
         /\ hook[h] # Idle /\ hook[h].at = "observe" /\ hook'[h] = Idle
         /\ DOMAIN hook[h].report = DOMAIN hook[h].latest
         /\ cached' = Published(h) /\ cached' \in [Source -> SUBSET Target]
<1>1. /\ hook[h] # Idle /\ hook[h].at = "observe" /\ Position(h) > Len(hook[h].latest)
      /\ cached' = Published(h) /\ To(h, Idle)
  BY DEF Publish
<1>2. PICK r \in Refreshing : r = hook[h] /\ Fits(r)
  BY <1>1, ComeTo
<1>3. Position(h) = Len(r.report) + 1 /\ Len(r.report) \in Nat /\ Len(r.latest) \in Nat
  BY <1>1, <1>2, ComeTo
<1>4. Len(r.report) = Len(r.latest)
  BY <1>1, <1>2, <1>3 DEF Fits
<1>5. r.report \in Seq(SUBSET Target) /\ r.latest \in Seq(Version)
  BY DEF Refreshing
<1>6. DOMAIN r.report = DOMAIN r.latest
  BY <1>4, <1>5
<1>7. \A n \in DOMAIN r.latest : r.report[n] \in SUBSET Target
  BY <1>5, <1>6
<1>8. \A s \in Source : UNION {r.report[n] : n \in {m \in DOMAIN r.latest :
                                               SourceOf[r.latest[m]] = s}} \in SUBSET Target
  BY <1>7
<1>9. Published(h) \in [Source -> SUBSET Target]
  BY <1>2, <1>8 DEF Published
<1>10. HooksOK' /\ hook'[h] = Idle /\ \A g \in Hook \ {h} : hook'[g] = hook[g]
  BY <1>1, ToTypes
<1> QED
  BY <1>1, <1>2, <1>6, <1>9, <1>10

LEMMA FailTypes ==
  ASSUME FreshTypeInv, NEW h \in Hook, Fail(h)
  PROVE  /\ TablesOK' /\ FilesOK' /\ CachesOK' /\ HooksOK'
         /\ file' = file /\ batches' = batches /\ changes' # changes
         /\ hook'[h] = Idle /\ \A g \in Hook \ {h} : hook'[g] = hook[g]
<1>1. To(h, Idle) /\ Spend /\ UNCHANGED <<file, imports, cached>>
  BY DEF Fail
<1>2. HooksOK' /\ hook'[h] = Idle /\ \A g \in Hook \ {h} : hook'[g] = hook[g]
  BY <1>1, ToTypes
<1>3. file' = file /\ batches' = batches /\ clearing' = clearing /\ cached' = cached
  BY <1>1 DEF imports
<1>4. TablesOK' /\ FilesOK'
  BY <1>3 DEF FreshTypeInv, TablesOK, FilesOK
<1>5. changes' \in 0 .. MaxChanges /\ changes' # changes
  BY <1>1, FreshnessAssumption DEF Spend, FreshTypeInv, CachesOK
<1>6. CachesOK'
  BY <1>3, <1>5 DEF FreshTypeInv, CachesOK
<1> QED
  BY <1>2, <1>3, <1>4, <1>5, <1>6

LEMMA RefreshTypes ==
  ASSUME FreshTypeInv, NEW h \in Hook, Refresh(h)
  PROVE  /\ TablesOK' /\ FilesOK' /\ CachesOK' /\ HooksOK'
         /\ file' = file /\ batches' = batches
         /\ \A g \in Hook \ {h} : hook'[g] = hook[g]
         /\ hook[h] # Idle /\ hook'[h] = Idle => Publish(h)
<1>1. Elsewhere /\ (cached' = cached \/ Publish(h))
  BY DEF Refresh, StartRefresh, ReadRows, Observe, Audit, Publish
<1>2. cached' \in [Source -> SUBSET Target]
  BY <1>1, PublishIs DEF FreshTypeInv, CachesOK
<1>3. TablesOK' /\ FilesOK' /\ CachesOK' /\ file' = file /\ batches' = batches
  BY <1>1, <1>2, ElsewhereTypes
<1> DEFINE Alone == HooksOK' /\ \A g \in Hook \ {h} : hook'[g] = hook[g]
           Ends == hook[h] # Idle /\ hook'[h] = Idle
<1>4. CASE StartRefresh(h)
  BY <1>4, StartTypes, <1>3
<1>5. CASE ReadRows(h)
  BY <1>3, <1>5, ReadTypes
<1>6. CASE Observe(h)
  <2>1. /\ hook[h] # Idle /\ Position(h) <= Len(hook[h].latest)
        /\ \/ \E stale \in SUBSET Target : Judge(h, stale)
           \/ Position(h) <= MaxTracked /\ To(h, [hook[h] EXCEPT !.at = "audit"])
    BY <1>6, ObserveIs
  <2>2. Alone /\ ~ Ends
    BY <2>1, JudgeTypes, ToAuditTypes
  <2> QED
    BY <1>3, <2>2
<1>7. CASE Audit(h)
  <2>1. /\ hook[h] # Idle /\ Position(h) <= Len(hook[h].latest)
        /\ \E stale \in SUBSET Target : Judge(h, stale)
    BY <1>7, AuditIs
  <2>2. Alone /\ ~ Ends
    BY <2>1, JudgeTypes
  <2> QED
    BY <1>3, <2>2
<1>8. CASE Publish(h)
  BY <1>3, <1>8, PublishIs
<1> QED
  BY <1>4, <1>5, <1>6, <1>7, <1>8 DEF Refresh

LEMMA FreshStepTypes == FreshTypeInv /\ [FreshNext]_freshVars => FreshTypeInv'
<1> SUFFICES ASSUME FreshTypeInv, [FreshNext]_freshVars PROVE FreshTypeInv'
  OBVIOUS
<1>1. CASE UNCHANGED freshVars
  <2>1. UNCHANGED <<file, batches, clearing, cached, hook, changes, ever, always>>
    BY <1>1 DEF freshVars, imports
  <2> QED
    BY <2>1 DEF FreshTypeInv, TablesOK, FilesOK, CachesOK, HooksOK, HistoriesOK
<1>2. CASE Change /\ Remember
  <2>1. TablesOK' /\ FilesOK' /\ CachesOK' /\ hook' = hook
    BY <1>2, ChangeTypes
  <2>2. HooksOK'
    BY <2>1 DEF FreshTypeInv, HooksOK
  <2> QED
    BY <1>2, <2>1, <2>2, HistoriesType DEF FreshTypeInv
<1>3. ASSUME NEW h \in Hook, Refresh(h) \/ Fail(h), Remember
      PROVE  FreshTypeInv'
  BY <1>3, RefreshTypes, FailTypes, HistoriesType DEF FreshTypeInv
<1> QED
  BY <1>1, <1>2, <1>3 DEF FreshNext

LEMMA FreshTypesHold == FreshSpec => []FreshTypeInv
BY FreshInitTypes, FreshStepTypes, PTL DEF FreshSpec

(* Files, imports, cache and refreshes keep their types; in particular, the  *)
(* sources that a refresh goes through are different ones.                   *)
THEOREM FreshnessTypeCorrect == FreshSpec => []FreshTypeOK
BY FreshTypesHold, FreshTypeInvTypes, PTL

-----------------------------------------------------------------------------
(* The verdicts *)

(* Nothing is owed by a refresh during which an import changed.              *)
Excused(h) == \A s \in Source : ever[h][s] = Target /\ always[h][s] = {}

(* Any other one goes through what the tables say now, and each verdict has  *)
(* withheld what was stale all the time, and only what was gone at some.     *)
Steady(h) ==
  /\ hook[h].latest = LatestVersions
  /\ hook[h].at = "rows" => hook[h].report = <<>>
  /\ hook[h].at # "rows" => hook[h].rows = [s \in Source |-> Rows(s)]
  /\ \A s \in Source : always[h][s] \subseteq Due[s] /\ Gone[s] \subseteq ever[h][s]
  /\ \A n \in DOMAIN hook[h].report :
       /\ always[h][SourceOf[hook[h].latest[n]]] \subseteq hook[h].report[n]
       /\ hook[h].report[n] \subseteq ever[h][SourceOf[hook[h].latest[n]]]

FairInv == \A h \in Watched : hook[h] # Idle => Excused(h) \/ Steady(h)

LEMMA SameTables ==
  ASSUME batches' = batches
  PROVE  /\ \A s : Rows(s)' = Rows(s) /\ Place(s)' = Place(s) /\ LatestOf(s)' = LatestOf(s)
         /\ Known' = Known /\ LatestVersions' = LatestVersions
<1>1. \A s : AppliedOf(s)' = AppliedOf(s)
  BY DEF AppliedOf
<1>2. \A s : Rows(s)' = Rows(s) /\ LatestOf(s)' = LatestOf(s)
  BY <1>1 DEF Rows, LatestOf
<1>3. Known' = Known
  BY <1>1 DEF Known
<1>4. \A s : Place(s)' = Place(s)
  BY <1>2, <1>3 DEF Place
<1>5. LatestVersions' = LatestVersions
  BY DEF LatestVersions, Known, Place, LatestOf, AppliedOf
<1> QED
  BY <1>2, <1>3, <1>4, <1>5

LEMMA SameGone ==
  ASSUME batches' = batches, file' = file
  PROVE  Gone' = Gone /\ Due' = Due
<1>1. Gone' = Gone
  BY SameTables DEF Gone
<1>2. PICK gone : gone = Gone /\ gone = Gone'
  BY <1>1
<1>3. /\ Due = [s \in Source |->
           IF s \in Known /\ Place(s) <= MaxTracked /\ batches[LatestOf(s)].version = file[s]
           THEN {} ELSE gone[s]]
      /\ Due' = [s \in Source |->
           IF s \in Known' /\ Place(s)' <= MaxTracked /\ batches'[LatestOf(s)'].version = file'[s]
           THEN {} ELSE gone[s]]
  BY <1>2, Zenon DEF Due, PassesAsCurrent
<1> QED
  BY <1>1, <1>3, SameTables

LEMMA ReportedSources ==
  ASSUME FreshTypeInv, NEW h \in Watched, hook[h] # Idle
  PROVE  \A n \in DOMAIN hook[h].report : /\ n \in DOMAIN hook[h].latest
                                          /\ SourceOf[hook[h].latest[n]] \in Source
<1>1. PICK r \in Refreshing : r = hook[h] /\ Fits(r)
  BY FreshnessAssumption, ComeTo
<1>2. r.latest \in Seq(Version) /\ r.report \in Seq(SUBSET Target)
  BY DEF Refreshing
<1>3. \A n \in DOMAIN r.report : n \in DOMAIN r.latest /\ r.latest[n] \in Version
  BY <1>1, <1>2 DEF Fits
<1> QED
  BY <1>1, <1>3, FreshnessAssumption

(* The targets of the imported fragments which none in the file supports. *)
LEMMA StaleIs ==
  ASSUME NEW made \in SUBSET Fragment, NEW inFile
  PROVE  Stale(made, inFile) =
           {t \in Targets(made) : \A f \in made \cap inFile : TargetOf[f] # t}
BY DEF Stale, Targets

(* What an observation or an audit that finds the file as it is decides. *)
LEMMA JudgedFairly ==
  ASSUME FreshTypeInv, NEW h \in Hook, hook[h] # Idle, Position(h) <= Len(hook[h].latest),
         hook[h].latest = LatestVersions, hook[h].rows = [u \in Source |-> Rows(u)],
         NEW s, s = SourceOf[Approved(h)], NEW stale,
         \/ /\ file[s] = Missing \/ Position(h) > MaxTracked
            /\ stale = Targets(ImportedRows(h))
         \/ /\ file[s] = Approved(h) /\ Position(h) <= MaxTracked
            /\ stale = {}
         \/ /\ file[s] \in Version /\ Position(h) <= MaxTracked
            /\ stale = Stale(ImportedRows(h), Fragments[file[s]])
  PROVE  /\ s \in Source /\ s = SourceOf[hook[h].latest[Position(h)]]
         /\ Due[s] \subseteq stale /\ stale \subseteq Gone[s]
<1>1. /\ Position(h) \in Nat /\ Position(h) \in DOMAIN LatestVersions
      /\ Approved(h) = LatestVersions[Position(h)]
      /\ s \in Source /\ ImportedRows(h) = Rows(s)
  BY ComeTo
<1>2. s \in Known /\ Place(s) = Position(h) /\ batches[LatestOf(s)].version = Approved(h)
  BY <1>1, LatestVersionsAre DEF FreshTypeInv
<1>3. PICK made \in SUBSET Fragment : made = Rows(s)
  BY RowsType DEF FreshTypeInv
<1>4. Gone[s] = {t \in Targets(made) :
                   \/ file[s] = Missing \/ Place(s) > MaxTracked
                   \/ \A f \in made \cap Fragments[file[s]] : TargetOf[f] # t}
  BY <1>1, <1>3 DEF Gone
<1>5. /\ Due[s] \subseteq Gone[s]
      /\ file[s] = Approved(h) /\ Position(h) <= MaxTracked => Due[s] = {}
  <2>1. Due[s] \subseteq Gone[s]
    BY <1>1, GoneType DEF FreshTypeInv
  <2>2. file[s] = Approved(h) /\ Position(h) <= MaxTracked => Due[s] = {}
    BY <1>1, <1>2 DEF Due, PassesAsCurrent
  <2> QED
    BY <2>1, <2>2
<1>6. CASE (file[s] = Missing \/ Position(h) > MaxTracked) /\ stale = Targets(made)
  <2>1. Gone[s] = Targets(made)
    BY <1>2, <1>4, <1>6
  <2> QED
    BY <1>1, <1>5, <1>6, <2>1
<1>7. CASE file[s] = Approved(h) /\ Position(h) <= MaxTracked /\ stale = {}
  BY <1>1, <1>5, <1>7
<1>8. CASE /\ file[s] \in Version /\ Position(h) <= MaxTracked
           /\ stale = Stale(made, Fragments[file[s]])
  <2>1. file[s] # Missing /\ ~ (Place(s) > MaxTracked)
    BY <1>1, <1>2, <1>8, FreshnessAssumption
  <2>2. stale = {t \in Targets(made) : \A f \in made \cap Fragments[file[s]] : TargetOf[f] # t}
    BY <1>8, StaleIs
  <2>3. stale = Gone[s]
    BY <1>4, <2>1, <2>2
  <2> QED
    BY <1>1, <1>5, <2>3
<1> QED
  BY <1>1, <1>3, <1>6, <1>7, <1>8

(* The histories of a refresh that goes on while the imports stay as they are. *)
LEMMA HistoriesStay ==
  ASSUME Remember, NEW h \in Watched, hook[h] # Idle, hook'[h] # Idle,
         batches' = batches, file' = file
  PROVE  ever'[h] = ever[h] /\ always'[h] = always[h]
BY EverIs, AlwaysIs

LEMMA SteadyStays ==
  ASSUME NEW h \in Watched, Steady(h), hook'[h] = hook[h],
         ever'[h] = ever[h], always'[h] = always[h], batches' = batches, file' = file
  PROVE  Steady(h)'
<1>1. /\ Gone' = Gone /\ Due' = Due /\ LatestVersions' = LatestVersions
      /\ \A s \in Source : Rows(s)' = Rows(s)
  BY SameTables, SameGone
<1>2. [s \in Source |-> Rows(s)]' = [s \in Source |-> Rows(s)]
  BY <1>1
<1> QED
  BY <1>1, <1>2 DEF Steady

LEMMA ChangeFair ==
  ASSUME FreshTypeInv, FairInv, Change, Remember
  PROVE  FairInv'
<1>1. hook' = hook /\ TablesOK' /\ (batches' = batches \/ file' = file)
  BY ChangeTypes
<1>2. ASSUME NEW h \in Watched, hook'[h] # Idle
      PROVE  Excused(h)' \/ Steady(h)'
  <2>1. hook[h] # Idle /\ hook'[h] = hook[h]
    BY <1>1, <1>2
  <2>2. PICK e \in [Source -> SUBSET Target], a \in [Source -> SUBSET Target] :
          e = ever[h] /\ a = always[h]
    BY DEF FreshTypeInv, HistoriesOK
  <2>3. PICK gone \in [Source -> SUBSET Target], due \in [Source -> SUBSET Target] :
          gone = Gone' /\ due = Due'
    BY <1>1, GoneTypeNext
  <2>4. CASE batches' # batches
    <3>1. ever'[h] = [s \in Source |-> Target] /\ always'[h] = [s \in Source |-> {}]
      BY <1>2, <2>1, <2>4, EverIs, AlwaysIs, Zenon
    <3> QED
      BY <3>1 DEF Excused
  <2>5. CASE batches' = batches /\ file' = file
    <3>1. ever'[h] = ever[h] /\ always'[h] = always[h]
      BY <1>2, <2>1, <2>5, HistoriesStay
    <3>2. Excused(h) => Excused(h)'
      BY <3>1 DEF Excused
    <3>3. Steady(h) => Steady(h)'
      BY <2>1, <2>5, <3>1, SteadyStays
    <3> QED
      BY <2>1, <3>2, <3>3 DEF FairInv
  <2>6. CASE batches' = batches /\ file' # file
    <3>1. /\ ever'[h] = [s \in Source |-> e[s] \cup gone[s]]
          /\ always'[h] = [s \in Source |-> a[s] \cap due[s]]
      BY <1>2, <2>1, <2>2, <2>3, <2>6, EverIs, AlwaysIs, Zenon
    <3>2. CASE Excused(h)
      <4>1. \A s \in Source : ever'[h][s] = Target /\ always'[h][s] = {}
        BY <2>2, <2>3, <3>1, <3>2 DEF Excused
      <4> QED
        BY <4>1 DEF Excused
    <3>3. CASE Steady(h)
      <4>1. LatestVersions' = LatestVersions /\ \A s \in Source : Rows(s)' = Rows(s)
        BY <2>6, SameTables
      <4>2. \A s \in Source : always'[h][s] \subseteq Due'[s] /\ Gone'[s] \subseteq ever'[h][s]
        BY <2>3, <3>1
      <4>3. \A s \in Source : always'[h][s] \subseteq always[h][s] /\ ever[h][s] \subseteq ever'[h][s]
        BY <2>2, <3>1
      <4>4. \A n \in DOMAIN hook[h].report : SourceOf[hook[h].latest[n]] \in Source
        BY <2>1, ReportedSources
      <4>5. \A n \in DOMAIN hook[h].report :
              /\ always'[h][SourceOf[hook[h].latest[n]]] \subseteq hook[h].report[n]
              /\ hook[h].report[n] \subseteq ever'[h][SourceOf[hook[h].latest[n]]]
        BY <3>3, <4>3, <4>4 DEF Steady
      <4>6. [s \in Source |-> Rows(s)]' = [s \in Source |-> Rows(s)]
        BY <4>1
      <4> QED
        BY <2>1, <3>3, <4>1, <4>2, <4>5, <4>6 DEF Steady
    <3> QED
      BY <2>1, <3>2, <3>3 DEF FairInv
  <2> QED
    BY <1>1, <2>4, <2>5, <2>6
<1> QED
  BY <1>2 DEF FairInv

(* A refresh that goes on: what is owed stays, or the step itself is a verdict. *)
LEMMA JudgeFair ==
  ASSUME FreshTypeInv, FairInv, Remember, NEW h \in Watched,
         hook[h] # Idle, Position(h) <= Len(hook[h].latest), hook[h].at # "rows",
         batches' = batches, file' = file, NEW stale \in SUBSET Target, Judge(h, stale),
         \/ /\ file[SourceOf[Approved(h)]] = Missing \/ Position(h) > MaxTracked
            /\ stale = Targets(ImportedRows(h))
         \/ /\ file[SourceOf[Approved(h)]] = Approved(h) /\ Position(h) <= MaxTracked
            /\ stale = {}
         \/ /\ file[SourceOf[Approved(h)]] \in Version /\ Position(h) <= MaxTracked
            /\ stale = Stale(ImportedRows(h), Fragments[file[SourceOf[Approved(h)]]])
  PROVE  Excused(h)' \/ Steady(h)'
<1>1. h \in Hook
  BY FreshnessAssumption
<1>2. /\ hook'[h] # Idle /\ hook'[h].at = "observe" /\ hook'[h].rows = hook[h].rows
      /\ hook'[h].latest = hook[h].latest
      /\ DOMAIN hook'[h].report = 1 .. Position(h)
      /\ hook'[h].report[Position(h)] = stale
      /\ \A n \in 1 .. Position(h) :
           n # Position(h) => /\ n \in DOMAIN hook[h].report
                              /\ hook'[h].report[n] = hook[h].report[n]
  BY <1>1, JudgeTypes
<1>3. ever'[h] = ever[h] /\ always'[h] = always[h]
  BY <1>2, HistoriesStay
<1>4. CASE Excused(h)
  BY <1>3, <1>4 DEF Excused
<1>5. CASE Steady(h)
  <2>1. hook[h].latest = LatestVersions /\ hook[h].rows = [u \in Source |-> Rows(u)]
    BY <1>5 DEF Steady
  <2>2. PICK s : s = SourceOf[Approved(h)]
    OBVIOUS
  <2>3. /\ s \in Source /\ s = SourceOf[hook[h].latest[Position(h)]]
        /\ Due[s] \subseteq stale /\ stale \subseteq Gone[s]
    BY <1>1, <2>1, <2>2, JudgedFairly
  <2>4. /\ Gone' = Gone /\ Due' = Due /\ LatestVersions' = LatestVersions
        /\ \A u \in Source : Rows(u)' = Rows(u)
    BY SameTables, SameGone
  <2>5. [u \in Source |-> Rows(u)]' = [u \in Source |-> Rows(u)]
    BY <2>4
  <2>6. always[h][s] \subseteq stale /\ stale \subseteq ever[h][s]
    BY <1>5, <2>3 DEF Steady
  <2>7. ASSUME NEW n \in 1 .. Position(h)
        PROVE  /\ always[h][SourceOf[hook[h].latest[n]]] \subseteq hook'[h].report[n]
               /\ hook'[h].report[n] \subseteq ever[h][SourceOf[hook[h].latest[n]]]
    <3>1. CASE n = Position(h)
      BY <1>2, <2>3, <2>6, <3>1
    <3>2. CASE n # Position(h)
      BY <1>2, <1>5, <2>7, <3>2 DEF Steady
    <3> QED
      BY <3>1, <3>2
  <2> QED
    BY <1>2, <1>3, <1>5, <2>1, <2>4, <2>5, <2>7 DEF Steady
<1> QED
  BY <1>4, <1>5 DEF FairInv

LEMMA RefreshFair ==
  ASSUME FreshTypeInv, FairInv, Remember, NEW h \in Watched, Refresh(h), hook'[h] # Idle
  PROVE  Excused(h)' \/ Steady(h)'
<1>1. h \in Hook /\ batches' = batches /\ file' = file
  BY FreshnessAssumption, RefreshTypes
<1>2. /\ Gone' = Gone /\ Due' = Due /\ LatestVersions' = LatestVersions
      /\ \A u \in Source : Rows(u)' = Rows(u)
      /\ [u \in Source |-> Rows(u)]' = [u \in Source |-> Rows(u)]
  BY <1>1, SameTables, SameGone
<1>3. CASE StartRefresh(h)
  <2>1. hook[h] = Idle /\ hook'[h] =
          [at |-> "rows", latest |-> LatestVersions, rows |-> Nothing, report |-> <<>>]
    BY <1>1, <1>3, StartTypes
  <2>2. ever'[h] = Gone /\ always'[h] = Due
    BY <2>1, EverIs, AlwaysIs
  <2>3. hook'[h].at = "rows" /\ hook'[h].latest = LatestVersions /\ hook'[h].report = <<>>
    BY <2>1
  <2>4. DOMAIN hook'[h].report = {}
    BY <2>3
  <2> QED
    BY <1>2, <2>2, <2>3, <2>4 DEF Steady
<1>4. CASE ReadRows(h)
  <2>1. /\ hook[h] # Idle /\ hook[h].at = "rows"
        /\ hook'[h].at = "observe" /\ hook'[h].rows = [s \in Source |-> Rows(s)]
        /\ hook'[h].latest = hook[h].latest /\ hook'[h].report = hook[h].report
    BY <1>1, <1>4, ReadTypes
  <2>2. ever'[h] = ever[h] /\ always'[h] = always[h]
    BY <1>1, <2>1, HistoriesStay
  <2>3. CASE Excused(h)
    BY <2>2, <2>3 DEF Excused
  <2>4. CASE Steady(h)
    BY <1>2, <2>1, <2>2, <2>4 DEF Steady
  <2> QED
    BY <2>1, <2>3, <2>4 DEF FairInv
<1>5. CASE Observe(h)
  <2>1. /\ hook[h] # Idle /\ hook[h].at = "observe" /\ Position(h) <= Len(hook[h].latest)
        /\ \/ /\ file[SourceOf[Approved(h)]] = Missing \/ Position(h) > MaxTracked
              /\ Targets(ImportedRows(h)) \in SUBSET Target
              /\ Judge(h, Targets(ImportedRows(h)))
           \/ /\ file[SourceOf[Approved(h)]] = Approved(h) /\ Position(h) <= MaxTracked
              /\ {} \in SUBSET Target
              /\ Judge(h, {})
           \/ /\ Position(h) <= MaxTracked
              /\ To(h, [hook[h] EXCEPT !.at = "audit"])
    BY <1>1, <1>5, ObserveIs
  <2>2. ASSUME NEW stale \in SUBSET Target, Judge(h, stale),
               \/ /\ file[SourceOf[Approved(h)]] = Missing \/ Position(h) > MaxTracked
                  /\ stale = Targets(ImportedRows(h))
               \/ /\ file[SourceOf[Approved(h)]] = Approved(h) /\ Position(h) <= MaxTracked
                  /\ stale = {}
        PROVE  Excused(h)' \/ Steady(h)'
    BY <1>1, <2>1, <2>2, JudgeFair
  <2>3. ASSUME Position(h) <= MaxTracked, To(h, [hook[h] EXCEPT !.at = "audit"])
        PROVE  Excused(h)' \/ Steady(h)'
    <3>1. /\ hook'[h].at = "audit" /\ hook'[h].rows = hook[h].rows
          /\ hook'[h].latest = hook[h].latest /\ hook'[h].report = hook[h].report
      BY <1>1, <2>1, <2>3, ToAuditTypes
    <3>2. ever'[h] = ever[h] /\ always'[h] = always[h]
      BY <1>1, <2>1, HistoriesStay
    <3>3. CASE Excused(h)
      BY <3>2, <3>3 DEF Excused
    <3>4. CASE Steady(h)
      BY <1>2, <2>1, <3>1, <3>2, <3>4 DEF Steady
    <3> QED
      BY <2>1, <3>3, <3>4 DEF FairInv
  <2> QED
    BY <2>1, <2>2, <2>3
<1>6. CASE Audit(h)
  <2>1. /\ hook[h] # Idle /\ hook[h].at = "audit" /\ Position(h) <= Len(hook[h].latest)
        /\ Position(h) <= MaxTracked
    BY <1>1, <1>6, AuditIs
  <2>2. PICK stale \in SUBSET Target :
          /\ Judge(h, stale)
          /\ \/ /\ file[SourceOf[Approved(h)]] = Missing
                /\ stale = Targets(ImportedRows(h))
             \/ /\ file[SourceOf[Approved(h)]] \in Version
                /\ stale = Stale(ImportedRows(h), Fragments[file[SourceOf[Approved(h)]]])
    BY <1>1, <1>6, AuditIs
  <2> QED
    BY <1>1, <2>1, <2>2, JudgeFair
<1>7. CASE Publish(h)
  BY <1>1, <1>7, PublishIs
<1> QED
  BY <1>3, <1>4, <1>5, <1>6, <1>7 DEF Refresh

LEMMA HookStepFair ==
  ASSUME FreshTypeInv, FairInv, Remember, NEW g \in Hook, Refresh(g) \/ Fail(g)
  PROVE  FairInv'
<1>1. /\ batches' = batches /\ file' = file
      /\ \A h \in Hook \ {g} : hook'[h] = hook[h]
  BY RefreshTypes, FailTypes
<1>2. ASSUME NEW h \in Watched, hook'[h] # Idle
      PROVE  Excused(h)' \/ Steady(h)'
  <2>1. CASE h = g
    <3>1. Refresh(h)
      BY <1>2, <2>1, FailTypes
    <3> QED
      BY <1>2, <3>1, RefreshFair
  <2>2. CASE h # g
    <3>1. hook'[h] = hook[h] /\ hook[h] # Idle
      BY <1>1, <1>2, <2>2, FreshnessAssumption
    <3>2. ever'[h] = ever[h] /\ always'[h] = always[h]
      BY <1>1, <1>2, <3>1, HistoriesStay
    <3>3. Excused(h) => Excused(h)'
      BY <3>2 DEF Excused
    <3>4. Steady(h) => Steady(h)'
      BY <1>1, <3>1, <3>2, SteadyStays
    <3> QED
      BY <3>1, <3>3, <3>4 DEF FairInv
  <2> QED
    BY <2>1, <2>2
<1> QED
  BY <1>2 DEF FairInv

LEMMA FreshInitFair == FreshInit => FairInv
BY FreshnessAssumption DEF FreshInit, FairInv

LEMMA FreshStepFair == FreshTypeInv /\ FairInv /\ [FreshNext]_freshVars => FairInv'
<1> SUFFICES ASSUME FreshTypeInv, FairInv, [FreshNext]_freshVars PROVE FairInv'
  OBVIOUS
<1>1. CASE UNCHANGED freshVars
  <2>1. UNCHANGED <<file, batches, hook, ever, always>>
    BY <1>1 DEF freshVars, imports
  <2>2. \A h \in Watched : Steady(h) => Steady(h)'
    BY <2>1, SteadyStays
  <2>3. \A h \in Watched : Excused(h) => Excused(h)'
    BY <2>1 DEF Excused
  <2> QED
    BY <2>1, <2>2, <2>3 DEF FairInv
<1> QED
  BY <1>1, ChangeFair, HookStepFair DEF FreshNext

LEMMA FairHolds == FreshSpec => [](FreshTypeInv /\ FairInv)
<1>1. FreshTypeInv /\ FairInv /\ [FreshNext]_freshVars => FreshTypeInv' /\ FairInv'
  BY FreshStepTypes, FreshStepFair
<1> QED
  BY FreshInitTypes, FreshInitFair, <1>1, PTL DEF FreshSpec

(* A refresh publishes for a source what its verdict on that source was. *)
LEMMA PublishedFairly ==
  ASSUME FreshTypeInv, FairInv, NEW h \in Watched, Publish(h), NEW s \in Source
  PROVE  always[h][s] \subseteq cached'[s] /\ cached'[s] \subseteq ever[h][s]
<1>1. /\ hook[h] # Idle /\ hook[h].at = "observe"
      /\ DOMAIN hook[h].report = DOMAIN hook[h].latest
      /\ cached' = Published(h) /\ cached' \in [Source -> SUBSET Target]
  BY FreshnessAssumption, PublishIs
<1>2. CASE Excused(h)
  BY <1>1, <1>2 DEF Excused
<1>3. CASE Steady(h)
  <2>1. cached'[s] = UNION {hook[h].report[n] : n \in {m \in DOMAIN hook[h].latest :
                                                  SourceOf[hook[h].latest[m]] = s}}
    BY <1>1 DEF Published
  <2>2. \A n \in DOMAIN hook[h].latest : SourceOf[hook[h].latest[n]] = s =>
          always[h][s] \subseteq hook[h].report[n] /\ hook[h].report[n] \subseteq ever[h][s]
    BY <1>1, <1>3 DEF Steady
  <2>3. cached'[s] \subseteq ever[h][s]
    BY <2>1, <2>2
  <2>4. CASE s \in Known
    <3>1. PICK n \in DOMAIN hook[h].latest : SourceOf[hook[h].latest[n]] = s
      BY <1>3, <2>4, LatestVersionsAre DEF Steady, FreshTypeInv
    <3>2. hook[h].report[n] \subseteq cached'[s]
      BY <2>1, <3>1
    <3> QED
      BY <2>2, <2>3, <3>1, <3>2
  <2>5. CASE s \notin Known
    <3>1. Rows(s) = {}
      BY <2>5 DEF Known, Rows
    <3>2. Gone[s] = {}
      BY <3>1 DEF Gone, Targets
    <3>3. Due[s] \subseteq Gone[s]
      BY GoneType DEF FreshTypeInv
    <3>4. always[h][s] = {}
      BY <1>3, <3>2, <3>3 DEF Steady
    <3> QED
      BY <2>3, <3>4
  <2> QED
    BY <2>4, <2>5
<1> QED
  BY <1>1, <1>2, <1>3 DEF FairInv

(* A refresh withholds what was stale all the time it ran, and nothing that  *)
(* was supported all that time, whatever is edited meanwhile.                *)
THEOREM VerdictIsFairHolds == FreshSpec => VerdictIsFair
<1> DEFINE Fair ==
             \A h \in Watched : hook[h] # Idle /\ hook'[h] = Idle /\ changes' = changes =>
               \A s \in Source : always[h][s] \subseteq cached'[s] /\ cached'[s] \subseteq ever[h][s]
<1>1. FreshTypeInv /\ FairInv /\ [FreshNext]_freshVars => [Fair]_freshVars
  <2> SUFFICES ASSUME FreshTypeInv, FairInv, FreshNext, NEW h \in Watched,
                      hook[h] # Idle, hook'[h] = Idle, changes' = changes
               PROVE  \A s \in Source :
                        always[h][s] \subseteq cached'[s] /\ cached'[s] \subseteq ever[h][s]
    OBVIOUS
  <2>1. ~ Change
    BY ChangeTypes
  <2>2. PICK g \in Hook : Refresh(g) \/ Fail(g)
    BY <2>1 DEF FreshNext
  <2>3. Refresh(g) /\ g = h
    BY <2>2, RefreshTypes, FailTypes, FreshnessAssumption
  <2>4. Publish(h)
    BY <2>3, RefreshTypes
  <2> QED
    BY <2>4, PublishedFairly
<1> QED
  BY <1>1, FairHolds, PTL DEF FreshSpec, VerdictIsFair
=============================================================================
