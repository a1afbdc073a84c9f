----------------------------- MODULE MCRuleGate -----------------------------
(* The instance of RuleGate that TLC checks: a rule of an older version, of *)
(* an import, and a rule of today's.                                        *)
EXTENDS RuleGate
=============================================================================
