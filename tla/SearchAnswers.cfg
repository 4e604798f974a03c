SPECIFICATION Spec
CONSTANTS
  s1 = s1
  s2 = s2
  h1 = h1
  h2 = h2
  a = a
  Searches = {s1, s2}
  Pings = {}
  Handlers = {h1, h2}
  Items = {a}
  MaxFaults = 1
  None = None
INVARIANTS
  EverySearchIsAnswered
CHECK_DEADLOCK FALSE
