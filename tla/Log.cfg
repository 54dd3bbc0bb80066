CONSTANTS
  Procs = {p1, p2, p3}
  Blocks = {a, b, c}
  Values = {v1, v2}
  Blank = v1
  SpareProcs = {p3}
  SpareBlocks = {b, c}
  MAXOPBLOCKS = 2
  LOGSIZE = 4
  size = 4
  OpBlocks = 1
SPECIFICATION MCFairSpec
INVARIANTS NoLostWakeup QuietIsDurable NoPanic
PROPERTIES AtomicSpec SomeoneBegins
