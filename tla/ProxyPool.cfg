SPECIFICATION FairSpec
CONSTANTS
  h1 = h1
  h2 = h2
  backup = backup
  Hosts = {h1, h2}
  Sources = {"scraped", "raw"}
  Offers <- TwoLists
  Jobs = {"j1"}
  Backup = backup
  SocksSupport = TRUE
  MaxFailures = 2
  MinHealthy = 2
  MaxCandidates = 2
  WriteEvery = 2
  MaxAttempts = 2
  MaxRestarts = 1
  None = None
INVARIANTS
  PoolMatchesRecords
PROPERTIES
  PoolNeverEmpties

  ScansReturn
