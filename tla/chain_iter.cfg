CONSTANTS
  k1 = k1  k2 = k2  k3 = k3  k4 = k4  v1 = v1  NULL = NULL  bad = bad
  Keys = {k1, k2, k3, k4}
  EmptyKeys = {}
  BadKeys = {}
  Values = {v1}
  Hash <- IteratedHash
  SizeMod = 64
  MaxBuckets = 8
  Requests = {1, 4}
  Callbacks = {"careful", "inserting"}
SPECIFICATION IterSpec
INVARIANTS IterTypeOK EachEntryOnce CurrentLinked
PROPERTIES ForeachReturns ImplementsIteration
