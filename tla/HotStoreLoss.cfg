SPECIFICATION Spec
CONSTANTS
  MaxEntries = 2
  MaxRows = 4
  r1 = r1
  Row <- MCRow
INVARIANT NothingLost
CHECK_DEADLOCK FALSE
