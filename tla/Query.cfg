SPECIFICATION Spec
CONSTANTS
  a1 = a1
  a2 = a2
  Agent = {a1, a2}
  Time <- MCTime
  Row <- MCRow
  Span <- MCSpan
  MaxPage = 2
  PageLimit = 1
  MaxPageLimit = 2
  RangeLimit = 2
  MaxInt = 3
  MaxEntries = 2
  MaxRows = 3
INVARIANTS
  TypeOK
  ShortPageCompletes
  TotalCompletes
  NoRepeats
  SurveyCompletes
PROPERTY LatestNeverOlder
CHECK_DEADLOCK FALSE
