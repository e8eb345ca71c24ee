CONSTANTS
  k1 = k1  k2 = k2  k3 = k3  k4 = k4  k5 = k5  k6 = k6  k7 = k7
  v1 = v1  NULL = NULL  bad = bad
  Keys = {k1, k2, k3, k4, k5}
  BadKeys = {}
  Values = {v1}
  Hash <- QuadraticHash
  SecondHash = NULL
  ProbeStrategy = "QUADRATIC"
  SizeMod = 2048
  MaxBuckets = 16
  Requests = {8}
SPECIFICATION Spec
INVARIANTS ResizeConsistent KeysOwned
PROPERTIES ImplementsLaxMap
