SPECIFICATION ServicesSpec
CONSTANTS
  d1 = d1
  d2 = d2
  u1 = u1
  u2 = u2
  t1 = t1
  t2 = t2
  t3 = t3
  s1 = s1
  s2 = s2
  p1 = p1
  p2 = p2
  h1 = h1
  h2 = h2
  a = a
  Downloads = {d1, d2}
  Ids = {"isrc", "qobuz"}
  Qualities = {"flac_cd"}
  Threshold = 2
  FailWindow = 1
  OpenFor = 1
  Users = {u1, u2}
  SeedCount = 2
  PollCount = 2
  MaxVideos = 2
  MaxRotations = 2
  Threads = {t1, t2}
  TidalThreads = {t1, t2, t3}
  MaxRestarts = 1
  Searches = {s1, s2}
  Pings = {p1, p2}
  Handlers = {h1, h2}
  Items = {a}
  MaxFaults = 1
  Keys = {"k1", "k2", "k3"}
  DedupSize = 2
  MaxBackoff = 2
  MaxTasks = 2
  Streams = {"e1", "e2"}
  MaxEvents = 3
  Settings = {"jobs", "slots"}
  Updates = {"first", "second"}
  None = None
INVARIANTS
  AnnouncedOnce
  NewVideosReachSubscribers
  HealthyRequestsSucceed
  OneRefreshAtATime
  TablesAreExact
  NamedPicturesExist
  ListenersMissNothing
  AcknowledgedSettingsSurvive
PROPERTIES
  OpensOnEvidence
  HandledOnce
CHECK_DEADLOCK FALSE
