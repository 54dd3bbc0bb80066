SPECIFICATION FairSpec
CONSTANTS
  NPROC = 4
  NCPU = 2
  NDIR = 4
  KillPids = {2, 3}
  Workloads <- Programs
INVARIANTS NoMissedExit PageTablesMatch PageTableInUseIsLive
PROPERTIES KilledExits InitReaps
