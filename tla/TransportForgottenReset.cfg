SPECIFICATION FairSpec
CONSTANTS
  Reqs = {r1, r2, r3}
  Kinds <- WriteKinds
  NoGen = NoGen
  STALL_THRESHOLD = 2
  MaxSwitches = 0
PROPERTIES DueResetHappens
