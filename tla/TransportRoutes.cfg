SPECIFICATION FairSpec
CONSTANTS
  Reqs = {r1, r2}
  Kinds <- RouteKinds
  NoGen = NoGen
  STALL_THRESHOLD = 2
  MaxSwitches = 1
INVARIANTS AtMostOnce
PROPERTIES NoDispatchAfterAbort KeepsDeliveryPromise EveryRequestSettles
