SPECIFICATION FairSpec
CONSTANTS
  Partsets = {p1}
  Generated = {}
  Workers = {w1, w2}
  Requests = {r1}
  MaxJobs = 2
  Timeout = 1
  Grace = 1
  LockSlack = 2
  MaxFaults = 1
PROPERTY EveryJobCloses NeverStuck
