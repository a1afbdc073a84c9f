----------------------------- MODULE JsonlStream -----------------------------
(***************************************************************************)
(* One JSONL stream of the store (events, checkpoints or audit) and the    *)
(* processes that append to it and read it: MemoryStore._append_jsonl,     *)
(* _append_jsonl_once, _read_jsonl and the tail repair they run, under the *)
(* sidecar lock of privacy.exclusive_file_lock.                            *)
(*                                                                         *)
(* A file is the complete lines it holds and at most one torn tail, the    *)
(* unterminated line a dead or failing writer left.  Every operation that  *)
(* may fail or die in the middle is split there: the repair into look,     *)
(* create, fill and truncate, the append into scan and write.              *)
(***************************************************************************)
EXTENDS Naturals, Sequences, Functions

CONSTANTS Proc,        \* processes that share the stream
          Record,      \* records they append
          OnceRecord,  \* those appended by _append_jsonl_once
          MaxPlain,    \* bound: no plain append starts on a longer stream
          MaxFaults,   \* bound on crashes and I/O errors
          Garbage,     \* a complete line that is no record
          NoTail, NoProc

TornLine == Record \X {"part", "whole"}

ASSUME StreamAssumption ==
  /\ OnceRecord \subseteq Record
  /\ Garbage \notin Record
  /\ NoTail \notin TornLine
  /\ NoProc \notin Proc
  /\ MaxPlain \in Nat
  /\ MaxFaults \in Nat

VARIABLES lock,        \* holder of the sidecar lock
          lines,       \* the complete physical lines
          tail,        \* the unterminated last line; "whole" lacks only its newline
          quarantine,  \* the .truncated-<digest>.bin file of each possible tail
          pc, rec,     \* where each process is, and the record it appends
          known,       \* history: records a caller was told are there
          dropped,     \* history: tails cut off the stream
          faults       \* crashes and errors so far

disk == <<lines, tail, quarantine>>
history == <<known, dropped>>
vars == <<lock, disk, pc, rec, history, faults>>

LockedPC == {"inspect", "create", "fill", "truncate", "scan", "write",
             "release", "read", "abort"}

TypeOK ==
  /\ lock \in Proc \cup {NoProc}
  /\ lines \in Seq(Record \cup {Garbage})
  /\ tail \in TornLine \cup {NoTail}
  /\ quarantine \in [TornLine -> {"absent", "partial", "full"}]
  /\ pc \in [Proc -> LockedPC \cup {"idle", "lock", "readlock"}]
  /\ rec \in [Proc -> Record]
  /\ known \subseteq Record
  /\ dropped \subseteq TornLine
  /\ faults \in Nat

Init ==
  /\ lock = NoProc
  /\ lines = <<>>
  /\ tail = NoTail
  /\ quarantine = [t \in TornLine |-> "absent"]
  /\ pc = [p \in Proc |-> "idle"]
  /\ rec \in [Proc -> Record]
  /\ known = {}
  /\ dropped = {}
  /\ faults = 0

Step(p, from, to) == /\ pc[p] = from
                     /\ pc' = [pc EXCEPT ![p] = to]

(* Definitions named Bug... are plausible mistakes in the definition that    *)
(* follows them; the runs are repeated with each of them to see the          *)
(* properties fail.                                                          *)
BugTornTailIsARecord ==
  (Range(lines) \cap Record)
    \cup {tail[1] : t \in {u \in {tail} : u # NoTail /\ u[2] = "whole"}}

(* What a reader makes of the file: whole lines that parse; the torn tail *)
(* is no record even when its text is complete JSON.                      *)
ReadRecords == Range(lines) \cap Record

-----------------------------------------------------------------------------
(* Appenders *)

StartAppend(p, r) ==
  /\ Step(p, "idle", "lock")
  /\ r \in OnceRecord \/ Len(lines) < MaxPlain
  /\ rec' = [rec EXCEPT ![p] = r]
  /\ UNCHANGED <<lock, disk, history, faults>>

BugNoLock(p) ==
  /\ Step(p, "lock", "inspect")
  /\ lock' = p
  /\ UNCHANGED <<disk, rec, history, faults>>

Lock(p) ==
  /\ lock = NoProc
  /\ Step(p, "lock", "inspect")
  /\ lock' = p
  /\ UNCHANGED <<disk, rec, history, faults>>

BugNoRepair(p) ==
  /\ Step(p, "inspect", "scan")
  /\ UNCHANGED <<lock, disk, rec, history, faults>>

Inspect(p) ==
  /\ Step(p, "inspect", IF tail = NoTail THEN "scan" ELSE "create")
  /\ UNCHANGED <<lock, disk, rec, history, faults>>

BugAnyQuarantineWillDo(p) ==
  /\ pc[p] = "create"
  /\ IF quarantine[tail] = "absent"
     THEN /\ Step(p, "create", "fill")
          /\ quarantine' = [quarantine EXCEPT ![tail] = "partial"]
     ELSE Step(p, "create", "truncate") /\ UNCHANGED quarantine
  /\ UNCHANGED <<lock, lines, tail, rec, history, faults>>

BugExistingIsConflict(p) ==
  /\ pc[p] = "create"
  /\ IF quarantine[tail] = "absent"
     THEN /\ Step(p, "create", "fill")
          /\ quarantine' = [quarantine EXCEPT ![tail] = "partial"]
     ELSE Step(p, "create", "abort") /\ UNCHANGED quarantine
  /\ UNCHANGED <<lock, lines, tail, rec, history, faults>>

(* create_private_file: O_EXCL decides who creates; the loser compares. *)
CreateQuarantine(p) ==
  /\ \/ /\ Step(p, "create", "fill")
        /\ quarantine[tail] = "absent"
        /\ quarantine' = [quarantine EXCEPT ![tail] = "partial"]
     \/ /\ Step(p, "create", "truncate")
        /\ quarantine[tail] = "full"
        /\ UNCHANGED quarantine
     \/ /\ Step(p, "create", "abort")
        /\ quarantine[tail] = "partial"
        /\ UNCHANGED quarantine
  /\ UNCHANGED <<lock, lines, tail, rec, history, faults>>

FillQuarantine(p) ==
  /\ Step(p, "fill", "truncate")
  /\ quarantine' = [quarantine EXCEPT ![tail] = "full"]
  /\ UNCHANGED <<lock, lines, tail, rec, history, faults>>

Truncate(p) ==
  /\ Step(p, "truncate", "scan")
  /\ dropped' = dropped \cup {tail}
  /\ tail' = NoTail
  /\ UNCHANGED <<lock, lines, quarantine, rec, known, faults>>

(* Only the appends under a stable id look for it; a record found is already *)
(* committed, and its caller is told so.                                     *)
Scan(p) ==
  /\ Step(p, "scan", IF rec[p] \in OnceRecord /\ rec[p] \in ReadRecords
                     THEN "release" ELSE "write")
  /\ UNCHANGED <<lock, disk, rec, history, faults>>

(* The bytes go to the end of the file: onto the torn tail if one is there. *)
Write(p) ==
  /\ Step(p, "write", "release")
  /\ lines' = Append(lines, IF tail = NoTail THEN rec[p] ELSE Garbage)
  /\ tail' = NoTail
  /\ UNCHANGED <<lock, quarantine, rec, history, faults>>

Release(p) ==
  /\ Step(p, "release", "idle")
  /\ lock' = NoProc
  /\ known' = known \cup {rec[p]}
  /\ UNCHANGED <<disk, rec, dropped, faults>>

-----------------------------------------------------------------------------
(* Readers *)

StartRead(p) ==
  /\ Step(p, "idle", "readlock")
  /\ UNCHANGED <<lock, disk, rec, history, faults>>

LockRead(p) ==
  /\ lock = NoProc
  /\ Step(p, "readlock", "read")
  /\ lock' = p
  /\ UNCHANGED <<disk, rec, history, faults>>

Read(p) ==
  /\ Step(p, "read", "idle")
  /\ lock' = NoProc
  /\ known' = known \cup ReadRecords
  /\ UNCHANGED <<disk, rec, dropped, faults>>

-----------------------------------------------------------------------------
(* Failures *)

(* An exception on the way out of the critical section. *)
Abort(p) ==
  /\ Step(p, "abort", "idle")
  /\ lock' = NoProc
  /\ UNCHANGED <<disk, rec, history, faults>>

Fault == /\ faults < MaxFaults
         /\ faults' = faults + 1

(* A write stopped part way, by an error or by the end of the process. *)
TornWrite(p, k) ==
  /\ Fault
  /\ Step(p, "write", "abort")
  /\ tail' = <<rec[p], k>>
  /\ UNCHANGED <<lock, lines, quarantine, rec, history>>

(* An I/O error in any other step, the fsync after the write included. *)
IOError(p) ==
  /\ Fault
  /\ pc[p] \in LockedPC \ {"abort"}
  /\ pc' = [pc EXCEPT ![p] = "abort"]
  /\ UNCHANGED <<lock, disk, rec, history>>

(* A killed process: the kernel drops its lock. *)
Crash(p) ==
  /\ Fault
  /\ pc[p] # "idle"
  /\ pc' = [pc EXCEPT ![p] = "idle"]
  /\ lock' = IF lock = p THEN NoProc ELSE lock
  /\ UNCHANGED <<disk, rec, history>>

-----------------------------------------------------------------------------

Work(p) == \/ Inspect(p) \/ CreateQuarantine(p) \/ FillQuarantine(p)
           \/ Truncate(p) \/ Scan(p) \/ Write(p) \/ Release(p)
           \/ Read(p) \/ Abort(p)

Next == \E p \in Proc :
          \/ \E r \in Record : StartAppend(p, r)
          \/ StartRead(p)
          \/ Lock(p) \/ LockRead(p)
          \/ Work(p)
          \/ \E k \in {"part", "whole"} : TornWrite(p, k)
          \/ IOError(p) \/ Crash(p)

Spec == Init /\ [][Next]_vars

(* A live process in its critical section goes on, flock admits every     *)
(* waiter in the end, and a caller whose record is not acknowledged tries *)
(* again, as each hook's recovery does with every pending mirror.         *)
Fairness == \A p \in Proc :
              /\ WF_vars(Work(p))
              /\ SF_vars(Lock(p))
              /\ SF_vars(LockRead(p))
              /\ \A r \in OnceRecord : SF_vars(r \notin known /\ StartAppend(p, r))

FairSpec == Spec /\ Fairness

-----------------------------------------------------------------------------
(* Properties *)

(* _append_jsonl_once commits a record id once, however many processes    *)
(* append it, retry it or die in the middle of it.                        *)
OnceCommittedOnce ==
  \A i, j \in DOMAIN lines :
    lines[i] \in OnceRecord /\ lines[i] = lines[j] => i = j

(* A record whose append returned, or that a reader was handed, stays     *)
(* readable: no later crash, torn write or repair takes it away.          *)
KnownStaysReadable == known \subseteq ReadRecords

(* _repair_jsonl_tail_unlocked cuts off no crash evidence it has not kept *)
(* byte for byte in the quarantine file.                                  *)
EvidenceKept == \A t \in dropped : quarantine[t] = "full"

(* The stream implements the log its callers rely on. *)
AL == INSTANCE AppendLog WITH log <- lines
ImplementsAppendLog == AL!Spec

(* A record that is retried is committed, unless a quarantine file is     *)
(* itself left torn for good: a repair that was interrupted anywhere else *)
(* is finished by the next append.                                        *)
RetriesCommitUnlessEvidenceTorn ==
  \/ <>(OnceRecord \subseteq known)
  \/ <>[](\E t \in TornLine : quarantine[t] = "partial")
=============================================================================
