SPECIFICATION RetrySpec
CONSTANTS
  Partsets = {p1, p2}
  NumPages = 2
  Orientations = {portrait, landscape}
  Inferred = landscape
  NoImage = none
  Own = own
  MaxEvents = 1
CHECK_DEADLOCK FALSE
INVARIANTS OneAnalysis CompleteRows
PROPERTY AllImported
