SPECIFICATION Spec
CONSTANTS
  Jobs = {j1, j2}
  Deliveries = {d1, d2, d3}
  Runs = {r1, r2}
  Null = Null
SYMMETRY Symmetry
INVARIANTS
  RegistryAccurate
  OneRunPerJob
  AcceptedBeforeOutcome
CHECK_DEADLOCK FALSE
