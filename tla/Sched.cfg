SPECIFICATION MCFairSpec
CONSTANTS
  CPUs = {c0, c1}
  BootCPU = c0
  NPROC = 2
  c0 = c0
  c1 = c1
INVARIANTS NoPanic OneStackOneCPU InterruptsMatchPlace
PROPERTY EveryoneRuns
