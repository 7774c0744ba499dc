SPECIFICATION Spec
CONSTANTS
  Handler = {h1, h2, h3}
  Processes = {p1}
  Embedded = {"amd64", "arm64"}
  NoFile = NoFile
  NoRow = NoRow
SYMMETRY Symmetry
INVARIANTS
  TypeOK
  FreshWhenSequential
  BinaryNeverAhead
  TrackOSAsAsked
  MixedOnlyWhenRewritten
CHECK_DEADLOCK FALSE
