SPECIFICATION PollSpec
CONSTANTS
  Polls = {r1}
  NumPages = 2
  LockTTL = 2
  MaxJobs = 2
  MaxFaults = 1
  MaxSweeps = 1
CHECK_DEADLOCK FALSE
INVARIANTS PartialIsPassing ExclusiveUnlessFreed
PROPERTY Warmed
