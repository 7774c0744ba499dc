SPECIFICATION Spec
CONSTANTS
  Second = 1
  Interval = 2
  Retention = 9
  Window = 1
  Timeout = 1
  Key = Key
  MaxTime = 4
  MaxBatches = 2
  MaxRows = 3
  MaxReplays = 1
ACTION_CONSTRAINTS
  FilesReadable
  LivePushesLost
INVARIANT AckedIsStored
CHECK_DEADLOCK FALSE
