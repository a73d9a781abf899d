SPECIFICATION Spec
CONSTANTS
  Requests = {r1, r2}
  PoolSize = 2
  MaxStored = 3
  SpkMaxAge = 1
  OpkTTL = 2
  MaxTime = 5
  MaxOpks = 5
  MaxCrashes = 1
  MaxReplays = 1
SYMMETRY RequestSymmetry
INVARIANT ServedSpkRetained
CHECK_DEADLOCK FALSE
