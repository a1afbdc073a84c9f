\* Two processes inside put_knowledge, three texts, two entities.
CONSTANTS
  p1 = p1
  p2 = p2
  t1 = t1
  t2 = t2
  t3 = t3
  e1 = e1
  e2 = e2
  Proc = {p1, p2}
  Text = {t1, t2, t3}
  Entity = {e1, e2}
  MaxWrites = 4
  Everyone = Everyone
  NoText = NoText
  NoCall = NoCall
SYMMETRY Symmetry
SPECIFICATION Spec
INVARIANTS OneReplacement SupersededIsReplaced GlobalIsUnlinked
PROPERTY ScopeIsolation
\* Nothing has to happen once the bounded calls are done.
CHECK_DEADLOCK FALSE
