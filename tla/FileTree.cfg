SPECIFICATION MCSpec
CONSTANTS
  Procs = {p, q}
  NINODES = 3
  Names = {"a", "b"}
  Calls <- AnyCall
SYMMETRY ProcSymmetry
CHECK_DEADLOCK FALSE
INVARIANTS NlinkCounted InodesMatch NoDeadlockGrowing
