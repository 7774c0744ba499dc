SPECIFICATION Spec
CONSTANTS
  Second = 1
  Interval = 2
  Retention = 9
  Window = 1
  Timeout = 1
  Key = Key
  MaxTime = 4
  MaxBatches = 2
  MaxRows = 2
  MaxReplays = 1
ACTION_CONSTRAINT
  FilesReadable
INVARIANTS
  TypeOK
  NothingVanishes
  LiveIsStored
  TwiceOnlyAfterError
CHECK_DEADLOCK FALSE
