CONSTANTS
  k1 = k1  k2 = k2  k3 = k3  k4 = k4
  v1 = v1  NULL = NULL  bad = bad
  Keys = {k1, k2, k3, k4}
  BadKeys = {bad}
  Values = {v1}
  Hash <- DoubleHash
  SecondHash = NULL
  ProbeStrategy = "DOUBLE_HASHING"
  SizeMod = 2048
  MaxBuckets = 12
  Requests = {0, 3, 6}
SPECIFICATION DoubleSpec
INVARIANTS EveryProbePathIntact ValidateAccepts
PROPERTIES ImplementsLaxMap PrimeNeverRefuses
