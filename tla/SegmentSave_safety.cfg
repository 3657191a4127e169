SPECIFICATION MCSpec
CONSTANTS
  s1 = s1
  s2 = s2
  s3 = s3
  violin = violin
  oboe = oboe
  untagged = untagged
  None = None
  Sessions = {s1, s2, s3}
  Pages = {1, 2}
  Tags <- MCAllTags
  PartTags <- Both
  Requests <- MCRequests
  Documents <- MCDocuments
  MaxDeadlockRetries = 2
  MaxTimeouts = 1
CHECK_DEADLOCK FALSE
INVARIANTS TypeOK PartsMatchTags
PROPERTY RetriesSuffice SavesAreAtomic Answered
