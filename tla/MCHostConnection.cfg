CONSTANTS
  Proc = {p1, p2}
  Version = {v1}
  Edit = {e1}
  MaxFaults = 1
  Toml = TRUE
  NoFile = NoFile
  NoVersion = NoVersion
  NoProc = NoProc
  Touched = Touched
SPECIFICATION Spec
SYMMETRY Symmetry
INVARIANTS HooksMatchRecord AllOrNothing
PROPERTY EditsSurvive
CHECK_DEADLOCK FALSE
