SPECIFICATION MCSpec
CONSTANTS
  Procs = {p1, p2}
  First = p1
  NPAGES = 16
  PGSIZE = 2
  NPTENTRIES = 3
  KERNBASE = 12
  Programs <- OneSegment
  Steps <- GrowAndShrink
  UINT = 32
  Sizes = {1, 9, 24}
  HEADER = 8
  NALLOC = 5
  Gaps = {1}
  Limit = 14
VIEW Shape
INVARIANTS EachPageOnce SortedAndJoined
PROPERTY PrivateMemory
