CONSTANTS
  k1 = k1  k2 = k2  k3 = k3  NULL = NULL
  Keys = {k1, k2, k3}
  Arguments = {0, 1, 2}
  Pointer = 2
  Plain <- KeyHash
  Xxh64 <- SeededHash
  Requests <- ChainByStrategy
  MaxBuckets = 4
SPECIFICATION Spec
INVARIANT FindsWhatIsPresent
