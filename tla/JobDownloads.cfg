SPECIFICATION Spec
CONSTANTS
  NTracks = 3
  TrackSize <- ThreeSizes
  SplitSize = 3
  Concurrency = 2
  MaxProxyRetries = 2
  Size <- SizeOfKey
  Threshold = 1
  MaxTries = 2
  MaxUploads = 3
  None = None
CHECK_DEADLOCK FALSE
INVARIANTS
  CompletedJobsDeliver
  PartsHoldTheFiles
  UploadsAreClosed
