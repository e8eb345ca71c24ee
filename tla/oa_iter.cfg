CONSTANTS
  k1 = k1  k2 = k2  k3 = k3  v1 = v1  NULL = NULL  bad = bad
  Keys = {k1, k2, k3}
  BadKeys = {}
  Values = {v1}
  Hash <- IteratedHash
  SecondHash = NULL
  ProbeStrategy = "LINEAR"
  SizeMod = 2048
  MaxBuckets = 8
  Requests = {2, 6}
  Callbacks = {"careful", "free"}
SPECIFICATION IterSpec
INVARIANTS IterTypeOK EachEntryOnce
PROPERTIES ForeachReturns ImplementsIteration
