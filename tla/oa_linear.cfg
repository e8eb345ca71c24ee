CONSTANTS
  k1 = k1  k2 = k2  k3 = k3  k4 = k4  k5 = k5  k6 = k6  k7 = k7
  v1 = v1  NULL = NULL  bad = bad
  Keys = {k1, k2, k3, k4}
  BadKeys = {bad}
  Values = {v1, NULL}
  Hash <- CollidingHash
  SecondHash = NULL
  ProbeStrategy = "LINEAR"
  SizeMod = 2048
  MaxBuckets = 8
  Requests = {0, 1, 2, 3}
SPECIFICATION Spec
INVARIANTS TypeOK CountsExact LoadBounded KeysUnique ProbePathsIntact
  SingleFaultsDetected StatsExact
PROPERTIES ImplementsMap
