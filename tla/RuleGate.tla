------------------------------ MODULE RuleGate ------------------------------
(* Procedural rules (storage.py) and the gate that asks them about a        *)
(* proposed action (runtime.py gate).                                       *)
(*                                                                          *)
(* Each command is a process that opens the store, does one thing and ends. *)
(* Opening quarantines the enabled rules that today's admission would       *)
(* refuse, because an older version let them in: such a rule holds every    *)
(* action in its scope until an operator disables it.  Every administrative *)
(* change leaves a receipt in the transaction that makes it, and the        *)
(* receipt is copied to the audit stream afterwards, by this process or any *)
(* later one.  The gate reads the rules under review, the links of each,   *)
(* then the enabled rules and the links of each, every one of them in a     *)
(* transaction of its own, while other processes change all of them.  All   *)
(* rules here match the one proposed action; receipts are ordered by a      *)
(* clock that does not go backwards.                                        *)
EXTENDS Naturals, Sequences, FiniteSets

CONSTANTS
  Proc,      \* processes
  Rule,      \* rule ids
  Unsafe,    \* rules today's admission refuses
  Blocking,  \* rules that block the action; the others warn
  Imported,  \* rules of reviewed imports, which a rollback disables
  Entity,
  NoEntity,  \* an action proposed for no entity
  MaxActiveRules, \* MAX_ACTIVE_RULES
  MaxReceipts, \* bound on the receipts of a rule
  MaxFaults  \* bound on processes that die and audit lines that are not written

ASSUME RuleAssumption ==
  /\ Unsafe \subseteq Rule /\ Blocking \subseteq Rule /\ Imported \subseteq Rule
  /\ NoEntity \notin Entity
  /\ MaxActiveRules \in Nat /\ MaxReceipts \in Nat /\ MaxFaults \in Nat

VARIABLES
  status,    \* the rule table
  links,     \* links[r]: the entities of rule r, none if it is global
  receipts,  \* receipts[r]: rule_admin_events of r, oldest first
  audits,    \* the receipts that are in the audit stream
  pc,
  scope,     \* scope[p]: the entity p asks the gate for
  rows,      \* rows[p]: the rules p has just read, whose links it has yet to read
  found,     \* found[p]: those of them that apply to the entity
  faults,
  held       \* history, held[p]: the rules that have forbidden p's action ever
             \* since it asked

vars == <<status, links, receipts, audits, pc, scope, rows, found, faults, held>>
-----------------------------------------------------------------------------
Operation == {"auto-quarantine", "operator-disable", "operator-enable"}

Receipt == {x \in Rule \X (1 .. MaxReceipts) : x[2] <= Len(receipts[x[1]])}

Latest(r) == IF receipts[r] = <<>> THEN "none" ELSE receipts[r][Len(receipts[r])]
Quarantined(r) == Latest(r) = "auto-quarantine"

(* A rule without links is global. *)
Applies(r, e) == links[r] = {} \/ e \in links[r]

(* A rule that blocks the action when it is enabled, or that cannot be      *)
(* evaluated, which blocks it too.                                          *)
Enforced(r) == r \in Unsafe \cup Blocking /\ status[r] = "enabled"

(* The rules that forbid the action in a scope, for one reason or another.  *)
Forbidding(e) == {r \in Rule : Applies(r, e) /\ (Quarantined(r) \/ Enforced(r))}

Gating == {"quarantines", "reviews", "rules", "verdict"}
PC == {"idle", "opened", "ready", "mirror"} \cup Gating

At(p, l) == pc[p] = l
Goto(p, l) == pc' = [pc EXCEPT ![p] = l]

(* The rules that forbid q's action after a step as they did before it. *)
StillHeld(q) == IF pc'[q] \notin Gating THEN {}
                ELSE IF pc[q] \notin Gating THEN Forbidding(scope[q])'
                ELSE held[q] \cap Forbidding(scope[q])'

(* The history of a step, its last conjunct. *)
Track == held' = [q \in Proc |-> StillHeld(q)]

Record(r, op) == receipts' = [receipts EXCEPT ![r] = Append(@, op)]
-----------------------------------------------------------------------------
(* Opening the store *)

BugToQuarantine == {r \in Unsafe : status[r] = "enabled"}  \* again at every start

(* Enabled rules that today's admission refuses, and that are not under     *)
(* review already, get a receipt, in one transaction.                       *)
ToQuarantine == {r \in Unsafe : status[r] = "enabled" /\ ~ Quarantined(r)}

Open(p) ==
  /\ At(p, "idle")
  /\ \A r \in ToQuarantine : Len(receipts[r]) < MaxReceipts
  /\ receipts' = [r \in Rule |-> IF r \in ToQuarantine
                                 THEN Append(receipts[r], "auto-quarantine")
                                 ELSE receipts[r]]
  /\ Goto(p, "opened")
  /\ UNCHANGED <<status, links, audits, scope, rows, found, faults>>
  /\ Track

(* Each receipt that is not in the audit stream is appended; one that       *)
(* cannot be is left to the next process.                                   *)
Mirrored(p) ==
  \E missed \in SUBSET (Receipt \ audits) :
    /\ audits' = audits \cup (Receipt \ missed)
    /\ \/ missed = {} /\ UNCHANGED faults
       \/ missed # {} /\ faults < MaxFaults /\ faults' = faults + 1

BugMirrorOnOpen(p) ==  \* only the process that made a change mirrors it
  /\ At(p, "opened")
  /\ Goto(p, "ready")
  /\ UNCHANGED <<status, links, receipts, audits, scope, rows, found, faults>>
  /\ Track

MirrorOnOpen(p) ==
  /\ At(p, "opened")
  /\ Mirrored(p)
  /\ Goto(p, "ready")
  /\ UNCHANGED <<status, links, receipts, scope, rows, found>>
  /\ Track
-----------------------------------------------------------------------------
(* Administration *)

AddRule(p, r, es) ==
  /\ At(p, "ready")
  /\ status[r] = "absent" /\ r \notin Unsafe
  /\ status' = [status EXCEPT ![r] = "enabled"]
  /\ links' = [links EXCEPT ![r] = es]
  /\ Goto(p, "idle")
  /\ UNCHANGED <<receipts, audits, scope, rows, found, faults>>
  /\ Track

LinkRule(p, r, e) ==
  /\ At(p, "ready")
  /\ status[r] # "absent"
  /\ links' = [links EXCEPT ![r] = @ \cup {e}]
  /\ Goto(p, "idle")
  /\ UNCHANGED <<status, receipts, audits, scope, rows, found, faults>>
  /\ Track

(* An operator's acknowledgment, too, of a rule that is disabled already.   *)
Disable(p, r) ==
  /\ At(p, "ready")
  /\ status[r] # "absent"
  /\ IF status[r] = "enabled" \/ Quarantined(r)
     THEN /\ Len(receipts[r]) < MaxReceipts
          /\ status' = [status EXCEPT ![r] = "disabled"]
          /\ Record(r, "operator-disable")
          /\ Goto(p, "mirror")
     ELSE Goto(p, "idle") /\ UNCHANGED <<status, receipts>>
  /\ UNCHANGED <<links, audits, scope, rows, found, faults>>
  /\ Track

(* A rule that today's admission refuses cannot be enabled again. *)
Enable(p, r) ==
  /\ At(p, "ready")
  /\ status[r] # "absent" /\ r \notin Unsafe
  /\ IF status[r] = "disabled"
     THEN /\ Len(receipts[r]) < MaxReceipts
          /\ status' = [status EXCEPT ![r] = "enabled"]
          /\ Record(r, "operator-enable")
          /\ Goto(p, "mirror")
     ELSE Goto(p, "idle") /\ UNCHANGED <<status, receipts>>
  /\ UNCHANGED <<links, audits, scope, rows, found, faults>>
  /\ Track

MirrorChange(p) ==
  /\ At(p, "mirror")
  /\ Mirrored(p)
  /\ Goto(p, "idle")
  /\ UNCHANGED <<status, links, receipts, scope, rows, found>>
  /\ Track
-----------------------------------------------------------------------------
(* The gate *)

Ask(p, e) ==
  /\ At(p, "ready")
  /\ scope' = [scope EXCEPT ![p] = e]
  /\ Goto(p, "quarantines")
  /\ held' = [held EXCEPT ![p] = Forbidding(e)]
  /\ UNCHANGED <<status, links, receipts, audits, rows, found, faults>>

ReadQuarantines(p) ==
  /\ At(p, "quarantines")
  /\ rows' = [rows EXCEPT ![p] = {r \in Rule : Quarantined(r)}]
  /\ Goto(p, "reviews")
  /\ UNCHANGED <<status, links, receipts, audits, scope, found, faults>>
  /\ Track

(* The links of one of the rows read, by which its scope is decided. *)
ReadScope(p, r) ==
  /\ pc[p] \in {"reviews", "verdict"}
  /\ r \in rows[p]
  /\ rows' = [rows EXCEPT ![p] = @ \ {r}]
  /\ found' = IF Applies(r, scope[p]) THEN [found EXCEPT ![p] = @ \cup {r}] ELSE found
  /\ UNCHANGED <<status, links, receipts, audits, pc, scope, faults>>
  /\ Track

Answered(p) == /\ Goto(p, "idle")
               /\ scope' = [scope EXCEPT ![p] = NoEntity]
               /\ rows' = [rows EXCEPT ![p] = {}]
               /\ found' = [found EXCEPT ![p] = {}]

(* A rule under review that applies blocks the action. *)
Review(p) ==
  /\ At(p, "reviews") /\ rows[p] = {}
  /\ IF found[p] # {} THEN Answered(p)
     ELSE Goto(p, "rules") /\ UNCHANGED <<scope, rows, found>>
  /\ UNCHANGED <<status, links, receipts, audits, faults>>
  /\ Track

ReadRules(p) ==
  /\ At(p, "rules")
  /\ rows' = [rows EXCEPT ![p] = {r \in Rule : status[r] = "enabled"}]
  /\ Goto(p, "verdict")
  /\ UNCHANGED <<status, links, receipts, audits, scope, found, faults>>
  /\ Track

BugAllowed(p) ==  \* what cannot be evaluated does not match
  /\ Cardinality(found[p]) <= MaxActiveRules
  /\ found[p] \cap (Blocking \ Unsafe) = {}

Allowed(p) == /\ Cardinality(found[p]) <= MaxActiveRules
              /\ found[p] \cap (Unsafe \cup Blocking) = {}

Verdict(p) ==
  /\ At(p, "verdict") /\ rows[p] = {}
  /\ Answered(p)
  /\ UNCHANGED <<status, links, receipts, audits, faults>>
  /\ Track
-----------------------------------------------------------------------------
CommandStep(p) ==
  \/ Open(p) \/ MirrorOnOpen(p) \/ MirrorChange(p)
  \/ \E r \in Rule : Disable(p, r) \/ Enable(p, r)
  \/ \E r \in Rule, es \in {{}} \cup {{e} : e \in Entity} : AddRule(p, r, es)
  \/ \E r \in Rule, e \in Entity : LinkRule(p, r, e)
  \/ \E e \in Entity \cup {NoEntity} : Ask(p, e)
  \/ ReadQuarantines(p) \/ Review(p) \/ ReadRules(p) \/ Verdict(p)
  \/ \E r \in Rule : ReadScope(p, r)

(* A process dies; what it has committed stays. *)
Die(p) ==
  /\ ~ At(p, "idle") /\ faults < MaxFaults
  /\ faults' = faults + 1
  /\ Answered(p)
  /\ UNCHANGED <<status, links, receipts, audits>>
  /\ Track

(* A process of an older version adds a rule, or has added it before. *)
LegacyAdd(r, es) ==
  /\ status[r] = "absent" /\ r \in Unsafe
  /\ status' = [status EXCEPT ![r] = "enabled"]
  /\ links' = [links EXCEPT ![r] = es]
  /\ UNCHANGED <<receipts, audits, pc, scope, rows, found, faults>>
  /\ Track

(* The gate of q has read r neither as a rule under review nor, yet, as an  *)
(* enabled one.                                                             *)
BetweenReads(q, r) == pc[q] \in {"reviews", "rules"} /\ r \notin rows[q] \cup found[q]

(* The rollback of an import disables its rule, without a receipt: a rule   *)
(* under review by then forbids on, and the gate that is between its reads  *)
(* will not see it.  The history leaves such a rule out.                    *)
RollBack(r) ==
  /\ r \in Imported /\ status[r] = "enabled"
  /\ status' = [status EXCEPT ![r] = "disabled"]
  /\ UNCHANGED <<links, receipts, audits, pc, scope, rows, found, faults>>
  /\ held' = [q \in Proc |-> StillHeld(q) \ {x \in {r} : BetweenReads(q, x)}]

Init ==
  /\ status = [r \in Rule |-> "absent"]
  /\ links = [r \in Rule |-> {}]
  /\ receipts = [r \in Rule |-> <<>>]
  /\ audits = {}
  /\ pc = [p \in Proc |-> "idle"]
  /\ scope = [p \in Proc |-> NoEntity]
  /\ rows = [p \in Proc |-> {}]
  /\ found = [p \in Proc |-> {}]
  /\ faults = 0
  /\ held = [p \in Proc |-> {}]

Next == \/ \E p \in Proc : CommandStep(p) \/ Die(p)
        \/ \E r \in Rule, es \in {{}} \cup {{e} : e \in Entity} : LegacyAdd(r, es)
        \/ \E r \in Rule : RollBack(r)

Spec == Init /\ [][Next]_vars

(* A running command goes on, and commands go on being run. *)
FairSpec == Spec /\ \A p \in Proc : WF_vars(CommandStep(p))
-----------------------------------------------------------------------------
(* Properties *)

TypeOK ==
  /\ status \in [Rule -> {"absent", "enabled", "disabled"}]
  /\ links \in [Rule -> SUBSET Entity]
  /\ receipts \in [Rule -> Seq(Operation)]
  /\ audits \subseteq Rule \X (1 .. MaxReceipts)
  /\ pc \in [Proc -> PC]
  /\ scope \in [Proc -> Entity \cup {NoEntity}]
  /\ rows \in [Proc -> SUBSET Rule]
  /\ found \in [Proc -> SUBSET Rule]
  /\ faults \in 0 .. MaxFaults
  /\ held \in [Proc -> SUBSET Rule]

(* However its reads interleave with operators, imports and other versions, *)
(* the gate allows an action only if no rule has forbidden it from the      *)
(* question to the answer, be it for one reason all that time, under        *)
(* review, blocking or impossible to evaluate, or for one after the other.  *)
(* One case is excepted, by the history of RollBack: an enabled rule that   *)
(* is put under review after the gate has read the reviews, and disabled    *)
(* by the rollback of its import before the gate reads the enabled rules,   *)
(* is in neither read, and the action is allowed although it is held.       *)
NothingHeldIsAllowed ==
  [][\A p \in Proc : Verdict(p) /\ Allowed(p) => held[p] = {}]_vars

(* Operators that act at once, and processes that open the store at once,   *)
(* leave one receipt per change: a review is closed by one acknowledgment,  *)
(* a rule is not disabled twice in a row, nor enabled twice unless the      *)
(* rollback of an import disabled it in between.                            *)
OneReceiptPerChange ==
  \A r \in Rule : \A i \in 1 .. Len(receipts[r]) - 1 :
    /\ receipts[r][i] = "auto-quarantine" => receipts[r][i + 1] = "operator-disable"
    /\ receipts[r][i] = receipts[r][i + 1] => /\ receipts[r][i] = "operator-enable"
                                              /\ r \in Imported

(* "SQLite is the authoritative safety receipt" and "every initialization   *)
(* retries any mirror interrupted by a crash" (storage.py, initialize): as  *)
(* long as commands are run, each receipt reaches the audit stream.         *)
ReceiptsReachAudit ==
  \A r \in Rule : \A i \in 1 .. MaxReceipts :
    (i <= Len(receipts[r])) ~> (<<r, i>> \in audits)
=============================================================================
