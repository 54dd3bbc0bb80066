SPECIFICATION FairSpec
CONSTANTS
  Threads = {0, 1, 2}
  size = 3
  Programs <- Runs
  NULL = NULL
INVARIANTS MutualExclusion GrantGoesToWaiter
PROPERTIES FirstComeFirstServed PlaysTheGame GameEnds
