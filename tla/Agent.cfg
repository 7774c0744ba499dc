SPECIFICATION FairSpec
CONSTANTS
  Second = 2
  Interval = 2
  Retention = 4
  MaxTime = 8
  MaxBatches = 3
INVARIANTS
  TypeOK
  Accounted
  ReplayDrains
  ReplayOrder
PROPERTY ReplaySettles
CHECK_DEADLOCK FALSE
