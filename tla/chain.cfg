CONSTANTS
  k1 = k1  k2 = k2  k3 = k3  k4 = k4  v1 = v1  NULL = NULL  bad = bad
  Keys = {k1, k2, k3, k4}
  EmptyKeys = {}
  BadKeys = {bad}
  Values = {v1, NULL}
  Hash <- CollidingHash
  SizeMod = 64
  MaxBuckets = 8
  Requests = {0, 1, 3}
SPECIFICATION Spec
INVARIANTS TypeOK SizeExact KeysOwned NodesWellPlaced KeysUnique LoadBounded
PROPERTIES RehashReturns ImplementsMap
