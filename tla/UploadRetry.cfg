SPECIFICATION FairSpec
CONSTANTS
  u1 = u1
  u2 = u2
  Uploads = {u1, u2}
  MaxAttempts = 2
  MaxCrashes = 1
  MaxDiskFaults = 1
  None = None
CHECK_DEADLOCK FALSE
INVARIANTS
  PromisesSurvive
  RetryFilesAreAccounted
PROPERTIES
  RetriesEnd
