SPECIFICATION Spec
CONSTANTS
  Garbage = Garbage
  NoConfig = NoConfig
  Modulus = 16
  MaxJiffies = 3
  Pid = {p1, p2}
  NoPid = NoPid
  MaxTime = 3
  MaxStarts = 3
SYMMETRY Symmetry
INVARIANTS
  TypeOK
  OneSource
  UsageExact
  OneNamedProcess
  CpuWithinElapsed
CHECK_DEADLOCK FALSE
