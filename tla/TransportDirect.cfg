SPECIFICATION Spec
CONSTANTS
  Reqs = {r1, r2, r3}
  Kinds <- DirectKinds
  NoGen = NoGen
  STALL_THRESHOLD = 2
  MaxSwitches = 0
SYMMETRY Symmetry
INVARIANTS TypeOK LoadCountsInFlight
PROPERTIES ResetsKeepToTheirGeneration DeferredResetIsTimely
