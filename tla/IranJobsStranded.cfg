SPECIFICATION MCSpec
CONSTANTS
  j1 = j1
  j2 = j2
  j3 = j3
  alice = alice
  bob = bob
  root = root
  Users = {alice, bob, root}
  Owner <- MixedOwners
  Admins = {}
  Sessions = {s1, s2}
  Jobs = {j1, j2}
  Requests = {"create", "cancel", "completed", "failed"}
  Limit = 1
  MaxFaults = 0
  Null = Null
INVARIANTS
  NoStrandedQueue
CHECK_DEADLOCK FALSE
