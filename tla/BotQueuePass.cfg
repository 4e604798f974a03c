SPECIFICATION FairSpec
CONSTANTS
  r1 = r1
  r2 = r2
  r3 = r3
  r4 = r4
  alice = alice
  bob = bob
  Requests = {r1, r2, r3, r4}
  Chats = {alice, bob}
  Chat <- TwoChats
  MaxRestarts = 2
  None = None
INVARIANTS
  OneRunner
  DispatchedOnce
PROPERTIES
  ImplementsLine
  LineMoves
