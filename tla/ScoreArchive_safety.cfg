SPECIFICATION RetrySpec
CONSTANTS
  p1 = p1
  p2 = p2
  s1 = s1
  s2 = s2
  s3 = s3
  good = good
  corrupt = corrupt
  damaged = damaged
  repaired = repaired
  Partsets = {p1, p2}
  Operator = Operator
  Scores = {s1, s2, s3}
  Files = {good, corrupt, damaged, repaired}
  None = None
  Normal <- MCNormal
  Editions = {repaired, damaged}
  Legacy = {corrupt, good}
  MaxEvents = 1
CHECK_DEADLOCK FALSE
INVARIANTS ArchivedPdf ImagesFitRow
PROPERTY Imported
