CONSTANTS
  n1 = n1  n2 = n2  n3 = n3  NULL = NULL
  Nodes = {n1, n2, n3}
  BucketCount = 2
  Hash <- NodeHash
  Sizes = {0, 1, 2, 3, 4}
  Flaws = {"none", "no_key", "wrong_hash"}
  MaxFlawed = 2
SPECIFICATION Spec
INVARIANTS AcceptsExactlySoundTables FirstErrorReported StatsExact
PROPERTIES CallsReturn
CHECK_DEADLOCK FALSE
