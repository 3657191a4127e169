SPECIFICATION PollSpec
CONSTANTS
  r1 = r1
  j1 = j1
  j2 = j2
  Reqs = {r1}
  Jobs = {j1, j2}
  NumPages = 1
  None = None
  MaxReorients = 1
  MaxFaults = 1
INVARIANTS NoForeignPage SegmentsFitPages LockHasOwner
PROPERTY NeverWaitsForEver
