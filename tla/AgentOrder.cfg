SPECIFICATION Spec
CONSTANTS
  Second = 2
  Interval = 2
  Retention = 4
  MaxTime = 8
  MaxBatches = 3
INVARIANT BufferedBeforeLive
CHECK_DEADLOCK FALSE
