\* Two sessions import two files for two entities beside other writers.
CONSTANTS
  t1 = t1
  t2 = t2
  t3 = t3
  e1 = e1
  e2 = e2
  s1 = s1
  s2 = s2
  a = a
  b = b
  f1 = f1
  f2 = f2
  v1 = v1
  v2 = v2
  w1 = w1
  x = x
  y = y
  z = z
  g = g
  Proc = {}
  Text = {t1, t2, t3}
  Entity = {e1, e2}
  MaxWrites = 1
  Everyone = Everyone
  NoText = NoText
  NoCall = NoCall
  Session = {s1, s2}
  Source = {f1, f2}
  Version = {v1, v2, w1}
  Entry = {x, y, z, g}
  SourceOf <- MCSourceOf
  Items <- MCItems
  TextOf <- MCTextOf
  Kinds <- MCKinds
  MaxBatches = 2
  GivenGlobal = {t3}
  GivenLinks <- MCGivenLinks
  Unset = Unset
  Said = Said
  NoJob = NoJob
SYMMETRY Symmetry
CONSTRAINT Bound
SPECIFICATION ImportSpec
INVARIANT ImportTypeOK
PROPERTIES ImportTakesEffect RollbackRestores RollbackSparesOthers ImportStaysInScope
\* Nothing has to happen once the bounded work is done.
CHECK_DEADLOCK FALSE
