------------------------------ MODULE AppendLog ------------------------------
(***************************************************************************)
(* What a JSONL stream promises its callers, whatever the processes that   *)
(* share it do and wherever one of them dies: a log that only grows, in    *)
(* which a record with a stable id is committed once, and out of which a   *)
(* caller never learns of a record that is not committed.                  *)
(* This is the abstract side of JsonlStream's refinement; it stands for no *)
(* code of its own.                                                        *)
(***************************************************************************)
EXTENDS Sequences, Naturals, Functions

CONSTANTS Record,     \* everything callers append
          OnceRecord  \* the records appended under a stable id

VARIABLES log,    \* the committed records, oldest first
          known   \* the records some caller was told of: acknowledged or read

vars == <<log, known>>

Init == /\ log = <<>>
        /\ known = {}

Commit(r) == /\ r \in OnceRecord => r \notin Range(log)
             /\ log' = Append(log, r)
             /\ UNCHANGED known

Learn(S) == /\ S \subseteq Range(log)
            /\ known' = known \cup S
            /\ UNCHANGED log

Next == \/ \E r \in Record : Commit(r)
        \/ \E S \in SUBSET Record : Learn(S)

Spec == Init /\ [][Next]_vars
=============================================================================
