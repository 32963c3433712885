SPECIFICATION FairSpec
CONSTANTS
  Null = Null
  Overrides <- AllOverrides
  OwnLoads <- SomeLoads
  MaxTime = 60
CHECK_DEADLOCK FALSE
INVARIANTS TypeOK NotCutShort RequestWins
PROPERTY EveryRunEnds
