CONSTANTS
  Proc = {p1, p2}
  s1 = s1
  Edit = {e1}
  Note = {}
  Explicit = {x1}
  Quiet = {}
  Stop = {}
  Session = {s1}
  SessionOf <- OneSession
  ChangeOf <- OwnChange
  MaxChanges = 1
  MaxFaults = 1
  NoKey = NoKey
  p1 = p1
  p2 = p2
SPECIFICATION Spec
PROPERTY OldRetryKeepsNewerWork
