----------------------------- MODULE WorkReceipts -----------------------------
(***************************************************************************)
(* What the loop promises about memory-relevant work: each piece is noted  *)
(* once; it stays open until one receipt, a checkpoint or a detailed       *)
(* handoff, closes all the open work of its session at once; a receipt     *)
(* issued earlier closes nothing more; only an issued receipt is           *)
(* published.  The abstract side of LoopLedger's refinement.               *)
(***************************************************************************)
CONSTANTS Work, Receipt, Session, SessionOf

VARIABLES open, closed,  \* work not yet, and already, under a receipt
          issued,        \* receipts
          published      \* receipts a later session can read

vars == <<open, closed, issued, published>>

Init == open = {} /\ closed = {} /\ issued = {} /\ published = {}

Report(w) ==
  /\ w \notin open \cup closed
  /\ open' = open \cup {w}
  /\ UNCHANGED <<closed, issued, published>>

Issue(r, s) ==
  LET done == {w \in open : SessionOf[w] = s} IN
    /\ r \notin issued
    /\ issued' = issued \cup {r}
    /\ open' = open \ done
    /\ closed' = closed \cup done
    /\ UNCHANGED published

Publish(r) ==
  /\ r \in issued
  /\ published' = published \cup {r}
  /\ UNCHANGED <<open, closed, issued>>

Next == \/ \E w \in Work : Report(w)
        \/ \E r \in Receipt, s \in Session : Issue(r, s)
        \/ \E r \in Receipt : Publish(r)

Spec == Init /\ [][Next]_vars
=============================================================================
