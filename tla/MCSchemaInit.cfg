\* Two processes open stores of five ages; one death anywhere.
CONSTANTS
  p1 = p1
  p2 = p2
  old = old
  kept = kept
  branch = branch
  mirror = mirror
  error = error
  legacyRow = legacyRow
  newRow = newRow
  Proc = {p1, p2}
  Fact = {old, kept, branch}
  Linked = {kept, branch}
  Rank <- MCRank
  Row = {legacyRow, newRow}
  Column = {mirror, error}
  Stores <- MCStores
  MaxDeaths = 1
  NoProc = NoProc
  NoDraft = NoDraft
SPECIFICATION FairSpec
INVARIANTS PointersMigrateOnce ReceiptsKept ReadyIsCurrent ScopedUnlessTorn
PROPERTY StartupSucceeds
\* Nothing has to happen once every process is through.
CHECK_DEADLOCK FALSE
