\* Two refreshes beside three changes of two files and their imports.
CONSTANTS
  h1 = h1
  h2 = h2
  f1 = f1
  f2 = f2
  v1 = v1
  v2 = v2
  w1 = w1
  a = a
  b = b
  c = c
  d = d
  r = r
  t = t
  Hook = {h1, h2}
  Watched = {h1}
  Source = {f1, f2}
  Version = {v1, v2, w1}
  SourceOf <- MCSourceOf
  Fragment = {a, b, c, d}
  Fragments <- TwiceThenOnce
  Target = {r, t}
  TargetOf <- MCTargetOf
  MaxTracked = 1
  MaxChanges = 3
  Removable = {f1}
  Missing = Missing
  Idle = Idle
SPECIFICATION FromFirst
INVARIANT FreshTypeOK
PROPERTIES VerdictIsFair CacheSettles
