SPECIFICATION Spec
CONSTANTS
  Partsets = {p1}
  Generated = {}
  Workers = {w1, w2}
  Requests = {r1, r2}
  MaxJobs = 3
  Timeout = 1
  Grace = 1
  LockSlack = 12
  MaxFaults = 0
SYMMETRY Symmetry
INVARIANT NoConcurrentImports
