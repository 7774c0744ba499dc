SPECIFICATION Spec
CONSTANTS
  Agent = {a1, a2}
  Batch = {b1}
  Handler = {h1, h2}
  Window = 2
  MaxEntries = 2
  MaxTime = 4
  MaxRows = 2
SYMMETRY Symmetry
INVARIANTS
  TypeOK
  DedupSpacing
  AnswerMatchesTable
PROPERTIES
  ImplementsHotStore
  ImplementsEndpoint
CHECK_DEADLOCK FALSE
