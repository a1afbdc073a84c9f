CONSTANTS
  Caller = {c1, c2}
  MaxSearches = 3
  MaxNoise = 1
  NoCaller = NoCaller
SPECIFICATION FairSpec
INVARIANTS OwnAnswer OneServer
PROPERTY EverySearchEnds
CHECK_DEADLOCK FALSE
