SPECIFICATION Spec
CONSTANTS
  Agent = {a1}
  Batch = {b1, b2}
  Handler = {h1, h2}
  Window = 2
  MaxEntries = 2
  MaxTime = 2
  MaxRows = 2
INVARIANT BatchesHaveAgents
CHECK_DEADLOCK FALSE
