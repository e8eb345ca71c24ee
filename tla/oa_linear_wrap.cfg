CONSTANTS
  k1 = k1  k2 = k2  k3 = k3  k4 = k4  k5 = k5  k6 = k6  k7 = k7
  v1 = v1  NULL = NULL  bad = bad
  Keys = {k1, k2, k3, k4, k5, k6, k7}
  BadKeys = {bad}
  Values = {v1}
  Hash <- WrappingHash
  SecondHash = NULL
  ProbeStrategy = "LINEAR"
  SizeMod = 16384
  MaxBuckets = 22
  Requests = {11}
SPECIFICATION Spec
INVARIANTS InsertFailsOnlyForCause
