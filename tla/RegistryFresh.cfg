SPECIFICATION Spec
CONSTANTS
  Handler = {h1, h2, h3}
  Processes = {p1}
  Embedded = {"amd64"}
  NoFile = NoFile
  NoRow = NoRow
ACTION_CONSTRAINT UpdatesAfterCreate
INVARIANT UpdatedBinaryIsFresh
CHECK_DEADLOCK FALSE
