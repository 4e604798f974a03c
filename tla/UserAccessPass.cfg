SPECIFICATION FairSpec
CONSTANTS
  alice = alice
  bob = bob
  Users = {alice, bob}
  Sessions = {s1, s2}
  Null = Null
  Founders = {bob}
  MaxRequests = 3
  MaxJobs = 1
  MaxFaults = 1
INVARIANTS
  DiskIsCurrent
  BlockReachesWorker
PROPERTIES
  OverdueJobsRefused
  BlockTakesEffect
CHECK_DEADLOCK FALSE
