------------------------- MODULE JsonlStream_proofs -------------------------
(***************************************************************************)
(* Proofs about JsonlStream, for any set of processes and records and any  *)
(* number of crashes and errors: its safety properties and that it         *)
(* implements AppendLog.                                                   *)
(*                                                                         *)
(* The argument is the one of the code: whatever a process knows of the    *)
(* file between two of its steps it learned under the sidecar lock, which  *)
(* it still holds.  StreamInv says what that is at each place of the       *)
(* critical section.                                                       *)
(***************************************************************************)
EXTENDS JsonlStream, TLAPS

(* The lock is held by the one process in its critical section. *)
LockInv == \A p \in Proc : pc[p] \in LockedPC <=> lock = p

(* What the holder of the lock knows of the file. *)
HolderInv == \A p \in Proc :
  /\ pc[p] \in {"create", "fill", "truncate"} => tail # NoTail
  /\ pc[p] = "fill" => quarantine[tail] = "partial"
  /\ pc[p] = "truncate" => quarantine[tail] = "full"
  /\ pc[p] \in {"scan", "write"} => tail = NoTail
  /\ pc[p] = "write" /\ rec[p] \in OnceRecord => rec[p] \notin Range(lines)
  /\ pc[p] = "release" => rec[p] \in Range(lines)

NoGarbage == Garbage \notin Range(lines)

StreamInv == /\ TypeOK
             /\ LockInv
             /\ HolderInv
             /\ NoGarbage
             /\ OnceCommittedOnce
             /\ KnownStaysReadable
             /\ EvidenceKept

(* Appending adds exactly the appended line to the lines of a file. *)
LEMMA RangeAppend ==
  ASSUME NEW S, NEW s \in Seq(S), NEW e \in S
  PROVE  /\ Append(s, e) \in Seq(S)
         /\ Range(Append(s, e)) = Range(s) \cup {e}
         /\ Len(Append(s, e)) = Len(s) + 1
         /\ Append(s, e)[Len(s) + 1] = e
         /\ \A i \in 1 .. Len(s) : Append(s, e)[i] = s[i]
<1>1. /\ Append(s, e) \in Seq(S)
      /\ Len(Append(s, e)) = Len(s) + 1
      /\ Append(s, e)[Len(s) + 1] = e
      /\ \A i \in 1 .. Len(s) : Append(s, e)[i] = s[i]
  OBVIOUS
<1>2. /\ DOMAIN Append(s, e) = 1 .. Len(s) + 1
      /\ DOMAIN s = 1 .. Len(s)
      /\ Len(s) \in Nat
  BY <1>1
<1>3. Range(Append(s, e)) = Range(s) \cup {e}
  BY <1>1, <1>2 DEF Range
<1>. QED  BY <1>1, <1>3

(* Reading loses nothing when no line is garbage. *)
LEMMA ReadAll ==
  ASSUME TypeOK, NoGarbage
  PROVE  ReadRecords = Range(lines)
<1>1. Range(lines) \subseteq Record \cup {Garbage}
  BY DEF TypeOK, Range
<1>. QED  BY <1>1 DEF ReadRecords, NoGarbage

LEMMA InitStreamInv == Init => StreamInv
<1>1. SUFFICES ASSUME Init PROVE StreamInv
  OBVIOUS
<1>2. Range(lines) = {}
  BY <1>1 DEF Init, Range
<1>3. TypeOK
  BY <1>1 DEF Init, TypeOK
<1>4. LockInv /\ HolderInv
  BY <1>1, StreamAssumption DEF Init, LockInv, HolderInv, LockedPC
<1>. QED
  BY <1>1, <1>2, <1>3, <1>4
     DEF StreamInv, NoGarbage, OnceCommittedOnce, KnownStaysReadable,
         EvidenceKept, Init

LEMMA TypeStep ==
  ASSUME TypeOK, HolderInv, [Next]_vars
  PROVE  TypeOK'
<1>. USE StreamAssumption DEF TypeOK, HolderInv, LockedPC, Step, disk, history
<1>1. CASE UNCHANGED vars
  BY <1>1 DEF vars
<1>2. ASSUME NEW p \in Proc, NEW r \in Record, StartAppend(p, r) PROVE TypeOK'
  BY <1>2 DEF StartAppend
<1>3. ASSUME NEW p \in Proc, StartRead(p) \/ Lock(p) \/ LockRead(p) \/ Inspect(p)
      PROVE  TypeOK'
  BY <1>3 DEF StartRead, Lock, LockRead, Inspect
<1>4. ASSUME NEW p \in Proc, CreateQuarantine(p) PROVE TypeOK'
  BY <1>4 DEF CreateQuarantine
<1>5. ASSUME NEW p \in Proc, FillQuarantine(p) PROVE TypeOK'
  BY <1>5 DEF FillQuarantine
<1>6. ASSUME NEW p \in Proc, Truncate(p) PROVE TypeOK'
  BY <1>6 DEF Truncate
<1>7. ASSUME NEW p \in Proc, Scan(p) \/ Release(p) \/ Abort(p) PROVE TypeOK'
  BY <1>7 DEF Scan, Release, Abort
<1>8. ASSUME NEW p \in Proc, Write(p) PROVE TypeOK'
  BY <1>8 DEF Write
<1>9. ASSUME NEW p \in Proc, Read(p) PROVE TypeOK'
  BY <1>9 DEF Read, ReadRecords
<1>10. ASSUME NEW p \in Proc, NEW k \in {"part", "whole"}, TornWrite(p, k) PROVE TypeOK'
  BY <1>10 DEF TornWrite, Fault, TornLine
<1>11. ASSUME NEW p \in Proc, IOError(p) \/ Crash(p) PROVE TypeOK'
  BY <1>11 DEF IOError, Crash, Fault
<1>. QED
  BY <1>1, <1>2, <1>3, <1>4, <1>5, <1>6, <1>7, <1>8, <1>9, <1>10, <1>11
     DEF Next, Work

LEMMA LockStep ==
  ASSUME TypeOK, LockInv, [Next]_vars
  PROVE  LockInv'
<1>. USE StreamAssumption DEF TypeOK, LockInv, LockedPC, Step
<1>1. CASE UNCHANGED vars
  BY <1>1 DEF vars
<1>2. ASSUME NEW p \in Proc, NEW r \in Record, StartAppend(p, r) PROVE LockInv'
  BY <1>2 DEF StartAppend
<1>3. ASSUME NEW p \in Proc, StartRead(p) \/ Lock(p) \/ LockRead(p) PROVE LockInv'
  BY <1>3 DEF StartRead, Lock, LockRead
<1>4. ASSUME NEW p \in Proc,
             Inspect(p) \/ CreateQuarantine(p) \/ FillQuarantine(p) \/ Truncate(p)
      PROVE  LockInv'
  BY <1>4 DEF Inspect, CreateQuarantine, FillQuarantine, Truncate
<1>5. ASSUME NEW p \in Proc, Scan(p) \/ Write(p) PROVE LockInv'
  BY <1>5 DEF Scan, Write
<1>6. ASSUME NEW p \in Proc, Release(p) \/ Read(p) \/ Abort(p) PROVE LockInv'
  BY <1>6 DEF Release, Read, Abort
<1>7. ASSUME NEW p \in Proc, NEW k \in {"part", "whole"}, TornWrite(p, k) PROVE LockInv'
  BY <1>7 DEF TornWrite
<1>8. ASSUME NEW p \in Proc, IOError(p) PROVE LockInv'
  BY <1>8 DEF IOError
<1>9. ASSUME NEW p \in Proc, Crash(p) PROVE LockInv'
  BY <1>9 DEF Crash
<1>. QED
  BY <1>1, <1>2, <1>3, <1>4, <1>5, <1>6, <1>7, <1>8, <1>9 DEF Next, Work

(* No other process changes the file under the holder of the lock: what the *)
(* holder knows of it stays true until its own next step.                   *)
LEMMA HolderStep ==
  ASSUME TypeOK, LockInv, HolderInv, NoGarbage, [Next]_vars
  PROVE  HolderInv'
<1>. USE StreamAssumption DEF TypeOK, LockInv, HolderInv, LockedPC, Step
<1>1. CASE UNCHANGED vars
  BY <1>1 DEF vars, disk, Range
<1>2. ASSUME NEW p \in Proc, NEW r \in Record, StartAppend(p, r) PROVE HolderInv'
  BY <1>2 DEF StartAppend, disk, Range
<1>3. ASSUME NEW p \in Proc, StartRead(p) \/ Lock(p) \/ LockRead(p) PROVE HolderInv'
  BY <1>3 DEF StartRead, Lock, LockRead, disk, Range
<1>4. ASSUME NEW p \in Proc, Inspect(p) PROVE HolderInv'
  BY <1>4 DEF Inspect, disk, Range
<1>5. ASSUME NEW p \in Proc, CreateQuarantine(p) PROVE HolderInv'
  BY <1>5 DEF CreateQuarantine, Range
<1>6. ASSUME NEW p \in Proc, FillQuarantine(p) PROVE HolderInv'
  BY <1>6 DEF FillQuarantine, Range
<1>7. ASSUME NEW p \in Proc, Truncate(p) PROVE HolderInv'
  BY <1>7 DEF Truncate, Range
<1>8. ASSUME NEW p \in Proc, Scan(p) PROVE HolderInv'
  <2>1. ReadRecords = Range(lines)
    BY ReadAll
  <2>2. Range(lines)' = Range(lines)
    BY <1>8 DEF Scan, disk, Range
  <2>. QED  BY <1>8, <2>1, <2>2 DEF Scan, disk
<1>9. ASSUME NEW p \in Proc, Write(p) PROVE HolderInv'
  <2>1. lines' = Append(lines, rec[p])
    BY <1>9 DEF Write
  <2>2. Range(lines)' = Range(lines) \cup {rec[p]}
    BY <2>1, RangeAppend DEF Range
  <2>. QED  BY <1>9, <2>2 DEF Write
<1>10. ASSUME NEW p \in Proc, Release(p) \/ Read(p) \/ Abort(p) PROVE HolderInv'
  BY <1>10 DEF Release, Read, Abort, disk, Range
<1>11. ASSUME NEW p \in Proc, NEW k \in {"part", "whole"}, TornWrite(p, k) PROVE HolderInv'
  BY <1>11 DEF TornWrite, Range
<1>12. ASSUME NEW p \in Proc, IOError(p) \/ Crash(p) PROVE HolderInv'
  BY <1>12 DEF IOError, Crash, disk, Range
<1>. QED
  BY <1>1, <1>2, <1>3, <1>4, <1>5, <1>6, <1>7, <1>8, <1>9, <1>10, <1>11, <1>12
     DEF Next, Work

(* The only step that changes the complete lines of the file appends the    *)
(* record of a process that holds the lock and has just looked for it.      *)
LEMMA LinesStep ==
  ASSUME TypeOK, LockInv, HolderInv, NoGarbage, [Next]_vars
  PROVE  \/ UNCHANGED lines
         \/ \E p \in Proc : /\ lines' = Append(lines, rec[p])
                            /\ rec[p] \in OnceRecord => rec[p] \notin Range(lines)
                            /\ UNCHANGED known
<1>1. CASE UNCHANGED vars
  BY <1>1 DEF vars, disk
<1>2. ASSUME NEW p \in Proc, Write(p)
      PROVE  /\ lines' = Append(lines, rec[p])
             /\ rec[p] \in OnceRecord => rec[p] \notin Range(lines)
             /\ UNCHANGED known
  BY <1>2 DEF Write, Step, HolderInv, history
<1>3. ASSUME NEW p \in Proc,
             \/ \E r \in Record : StartAppend(p, r)
             \/ StartRead(p) \/ Lock(p) \/ LockRead(p) \/ Inspect(p)
             \/ CreateQuarantine(p) \/ FillQuarantine(p) \/ Truncate(p)
             \/ Scan(p) \/ Release(p) \/ Read(p) \/ Abort(p)
             \/ \E k \in {"part", "whole"} : TornWrite(p, k)
             \/ IOError(p) \/ Crash(p)
      PROVE  UNCHANGED lines
  BY <1>3 DEF StartAppend, StartRead, Lock, LockRead, Inspect, CreateQuarantine,
              FillQuarantine, Truncate, Scan, Release, Read, Abort, TornWrite,
              IOError, Crash, disk
<1>. QED  BY <1>1, <1>2, <1>3 DEF Next, Work

(* What a step tells a caller is a set of records readable at that moment. *)
LEMMA KnownStep ==
  ASSUME TypeOK, LockInv, HolderInv, NoGarbage, [Next]_vars
  PROVE  \/ UNCHANGED known
         \/ /\ UNCHANGED lines
            /\ \E S \in SUBSET (Range(lines) \cap Record) : known' = known \cup S
<1>1. CASE UNCHANGED vars
  BY <1>1 DEF vars, history
<1>2. ASSUME NEW p \in Proc, Release(p)
      PROVE  /\ UNCHANGED lines
             /\ \E S \in SUBSET (Range(lines) \cap Record) : known' = known \cup S
  <2>1. {rec[p]} \in SUBSET (Range(lines) \cap Record)
    BY <1>2 DEF Release, Step, HolderInv, TypeOK
  <2>. QED  BY <1>2, <2>1 DEF Release, disk
<1>3. ASSUME NEW p \in Proc, Read(p)
      PROVE  /\ UNCHANGED lines
             /\ \E S \in SUBSET (Range(lines) \cap Record) : known' = known \cup S
  BY <1>3 DEF Read, ReadRecords, disk
<1>4. ASSUME NEW p \in Proc,
             \/ \E r \in Record : StartAppend(p, r)
             \/ StartRead(p) \/ Lock(p) \/ LockRead(p) \/ Inspect(p)
             \/ CreateQuarantine(p) \/ FillQuarantine(p) \/ Truncate(p)
             \/ Scan(p) \/ Write(p) \/ Abort(p)
             \/ \E k \in {"part", "whole"} : TornWrite(p, k)
             \/ IOError(p) \/ Crash(p)
      PROVE  UNCHANGED known
  BY <1>4 DEF StartAppend, StartRead, Lock, LockRead, Inspect, CreateQuarantine,
              FillQuarantine, Truncate, Scan, Write, Abort, TornWrite,
              IOError, Crash, history
<1>. QED  BY <1>1, <1>2, <1>3, <1>4 DEF Next, Work

LEMMA EvidenceStep ==
  ASSUME TypeOK, HolderInv, EvidenceKept, [Next]_vars
  PROVE  EvidenceKept'
<1>. USE DEF TypeOK, HolderInv, EvidenceKept, Step
<1>1. CASE UNCHANGED vars
  BY <1>1 DEF vars, disk, history
<1>2. ASSUME NEW p \in Proc, CreateQuarantine(p) PROVE EvidenceKept'
  BY <1>2 DEF CreateQuarantine, history
<1>3. ASSUME NEW p \in Proc, FillQuarantine(p) PROVE EvidenceKept'
  BY <1>3 DEF FillQuarantine, history
<1>4. ASSUME NEW p \in Proc, Truncate(p) PROVE EvidenceKept'
  BY <1>4 DEF Truncate
<1>5. ASSUME NEW p \in Proc,
             \/ \E r \in Record : StartAppend(p, r)
             \/ StartRead(p) \/ Lock(p) \/ LockRead(p) \/ Inspect(p)
             \/ Scan(p) \/ Write(p) \/ Release(p) \/ Read(p) \/ Abort(p)
             \/ \E k \in {"part", "whole"} : TornWrite(p, k)
             \/ IOError(p) \/ Crash(p)
      PROVE  EvidenceKept'
  BY <1>5 DEF StartAppend, StartRead, Lock, LockRead, Inspect, Scan, Write,
              Release, Read, Abort, TornWrite, IOError, Crash, disk, history
<1>. QED  BY <1>1, <1>2, <1>3, <1>4, <1>5 DEF Next, Work

LEMMA LogStep ==
  ASSUME TypeOK, LockInv, HolderInv, NoGarbage, OnceCommittedOnce,
         KnownStaysReadable, [Next]_vars
  PROVE  NoGarbage' /\ OnceCommittedOnce' /\ KnownStaysReadable'
<1>. USE StreamAssumption DEF NoGarbage, OnceCommittedOnce, KnownStaysReadable
<1>1. CASE UNCHANGED lines
  <2>1. Range(lines') = Range(lines)
    BY <1>1
  <2>2. known' \subseteq Range(lines) \cap Record
    BY KnownStep DEF ReadRecords
  <2>. QED  BY <1>1, <2>1, <2>2 DEF ReadRecords
<1>2. ASSUME NEW p \in Proc, lines' = Append(lines, rec[p]),
             rec[p] \in OnceRecord => rec[p] \notin Range(lines),
             UNCHANGED known
      PROVE  NoGarbage' /\ OnceCommittedOnce' /\ KnownStaysReadable'
  <2>. DEFINE n == Len(lines)
  <2>1. /\ Range(lines') = Range(lines) \cup {rec[p]}
        /\ lines'[n + 1] = rec[p]
        /\ \A i \in 1 .. n : lines'[i] = lines[i]
        /\ DOMAIN lines' = 1 .. n + 1
        /\ DOMAIN lines = 1 .. n
        /\ n \in Nat
    BY <1>2, RangeAppend DEF TypeOK
  <2>2. \A i \in 1 .. n : lines[i] \in Range(lines)
    BY <2>1 DEF Range
  <2>3. OnceCommittedOnce'
    <3>. SUFFICES ASSUME NEW i \in 1 .. n + 1, NEW j \in 1 .. n + 1,
                         lines'[i] \in OnceRecord, lines'[i] = lines'[j]
                  PROVE  i = j
      BY <2>1
    <3>1. CASE i \in 1 .. n /\ j \in 1 .. n
      BY <2>1, <3>1
    <3>2. CASE i = n + 1 /\ j \in 1 .. n
      BY <1>2, <2>1, <2>2, <3>2
    <3>3. CASE i \in 1 .. n /\ j = n + 1
      BY <1>2, <2>1, <2>2, <3>3
    <3>. QED  BY <2>1, <3>1, <3>2, <3>3
  <2>4. rec[p] \in Record
    BY DEF TypeOK
  <2>. QED  BY <1>2, <2>1, <2>3, <2>4 DEF ReadRecords
<1>. QED  BY <1>1, <1>2, LinesStep

LEMMA StreamInvariant == Spec => []StreamInv
<1>1. StreamInv /\ [Next]_vars => StreamInv'
  BY TypeStep, LockStep, HolderStep, LogStep, EvidenceStep DEF StreamInv
<1>. QED  BY <1>1, InitStreamInv, PTL DEF Spec

-----------------------------------------------------------------------------

(* Every variable keeps its type, whatever the processes do. *)
THEOREM StreamTypeCorrect == Spec => []TypeOK
<1>1. StreamInv => TypeOK
  BY DEF StreamInv
<1>. QED  BY <1>1, StreamInvariant, PTL

(* _append_jsonl_once commits a stable id at most once. *)
THEOREM OnceCommittedOnceHolds == Spec => []OnceCommittedOnce
<1>1. StreamInv => OnceCommittedOnce
  BY DEF StreamInv
<1>. QED  BY <1>1, StreamInvariant, PTL

(* No crash and no repair takes back what a caller was told is there. *)
THEOREM KnownStaysReadableHolds == Spec => []KnownStaysReadable
<1>1. StreamInv => KnownStaysReadable
  BY DEF StreamInv
<1>. QED  BY <1>1, StreamInvariant, PTL

(* The repair keeps the evidence it cuts off. *)
THEOREM EvidenceKeptHolds == Spec => []EvidenceKept
<1>1. StreamInv => EvidenceKept
  BY DEF StreamInv
<1>. QED  BY <1>1, StreamInvariant, PTL

(* The stream implements the append-only log. *)
THEOREM StreamImplementsAppendLog == Spec => ImplementsAppendLog
<1>1. Init => AL!Init
  BY DEF Init, AL!Init
<1>2. StreamInv /\ [Next]_vars => [AL!Next]_(AL!vars)
  <2>. SUFFICES ASSUME StreamInv, [Next]_vars
                PROVE  AL!Next \/ UNCHANGED <<lines, known>>
    BY DEF AL!vars
  <2>. USE DEF StreamInv
  <2>1. ASSUME NEW p \in Proc, lines' = Append(lines, rec[p]),
               rec[p] \in OnceRecord => rec[p] \notin Range(lines),
               UNCHANGED known
        PROVE  AL!Next
    <3>1. rec[p] \in Record
      BY DEF TypeOK
    <3>. QED  BY <2>1, <3>1 DEF AL!Next, AL!Commit, AL!Range, Range
  <2>2. ASSUME UNCHANGED lines,
               NEW S \in SUBSET (Range(lines) \cap Record), known' = known \cup S
        PROVE  AL!Next
    BY <2>2 DEF AL!Next, AL!Learn, AL!Range, Range
  <2>. QED  BY <2>1, <2>2, LinesStep, KnownStep
<1>. QED
  BY <1>1, <1>2, StreamInvariant, PTL DEF Spec, ImplementsAppendLog, AL!Spec

=============================================================================
