SPECIFICATION MCFairSpec
CONSTANTS
  p1 = p1
  p2 = p2
  n1 = n1
  n2 = n2
  n3 = n3
  n4 = n4
  v1 = v1
  v2 = v2
  Procs = {p1, p2}
  NBUF = 3
  Blocks = {n1, n2, n3, n4}
  Values = {v1, v2}
  MaxPinned = 1
INVARIANTS OneBufferPerBlock CleanIsDisk
PROPERTIES StoreSpec RequestFinishes
