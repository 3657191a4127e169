SPECIFICATION Spec
CONSTANTS
  Partsets = {p1}
  Generated = {p1}
  Workers = {w1, w2}
  Requests = {r1}
  MaxJobs = 2
  Timeout = 1
  Grace = 1
  LockSlack = 2
  MaxFaults = 1
SYMMETRY Symmetry
INVARIANTS OnePlace ExclusiveUntilFault
PROPERTY KeepsLedger
