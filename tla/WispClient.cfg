SPECIFICATION FairSpec
CONSTANTS
  Reqs = {r1, r2}
  Sockets = {s1, s2}
  Endpoints = {e1, e2}
  BuildEndpoint = e1
  MaxCalls = 3
  MaxSwitches = 1
CHECK_DEADLOCK FALSE
INVARIANTS ClientIsSound
PROPERTIES AwaitEnds
