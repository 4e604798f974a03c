SPECIFICATION FairSpec
CONSTANTS
  Jobs = {j1, j2}
  Deliveries = {d1, d2}
  Runs = {r1, r2}
  Null = Null
PROPERTIES
  UncancelledRunsReport
  StoppedWorkerExits
  AcceptedJobsAreSettled
CHECK_DEADLOCK FALSE
