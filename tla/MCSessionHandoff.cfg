CONSTANTS
  s1 = s1
  s2 = s2
  Proc = {p1, p2}
  Session = {s1, s2}
  Entity = {e1, e2}
  MaxHandoffs = 2
  MaxTime = 2
  MaxFaults = 1
  Budget = 3
  MaxRecord = 2
  NoSession = NoSession
  Envelope = {1, 4}
SPECIFICATION MCSpec
SYMMETRY Symmetry
CONSTRAINT Roles
INVARIANTS ResumesTheLatest HandoffIsShown
\* Nothing has to happen once no handoff is left to write.
CHECK_DEADLOCK FALSE
