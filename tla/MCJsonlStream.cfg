\* Two processes, a stable-id record retried and a plain one, three faults.
CONSTANTS
  p1 = p1
  p2 = p2
  r1 = r1
  r2 = r2
  Proc = {p1, p2}
  Record = {r1, r2}
  OnceRecord = {r1}
  MaxPlain = 1
  MaxFaults = 3
  Garbage = Garbage
  NoTail = NoTail
  NoProc = NoProc

SPECIFICATION FairSpec
INVARIANTS
  OnceCommittedOnce
  KnownStaysReadable
  EvidenceKept
PROPERTIES RetriesCommitUnlessEvidenceTorn
  ImplementsAppendLog
