SPECIFICATION MCSpec
CONSTANTS
  j1 = j1
  j2 = j2
  j3 = j3
  alice = alice
  bob = bob
  root = root
  Users = {alice, bob, root}
  Owner <- MixedOwners
  Admins = {root}
  Sessions = {s1, s2}
  Jobs = {j1, j2, j3}
  Requests = {"create", "cancel", "force", "accepted", "progress", "completed", "failed"}
  Limit = 1
  MaxFaults = 1
  Null = Null
SYMMETRY SlotSymmetry
INVARIANTS
  CreatesOnlyByFault
  StatusMatchesDispatch
  StrandedOnlyWhenStale
PROPERTIES
  PromotionFollowsDispatch
  RevivedByReports
  SilentCancelsAreOvertaken
  PromotedInOrder
CHECK_DEADLOCK FALSE
