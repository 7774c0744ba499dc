SPECIFICATION FairSpec
CONSTANTS
  MaxEntries = 2
  MaxRows = 4
  r1 = r1
  Row <- MCRow
INVARIANTS
  TypeOK
  LossOnlyInRace
  ClearedArchiveDisjoint
  NewestArchiverBounds
PROPERTY FullTableIsCleared
CHECK_DEADLOCK FALSE
