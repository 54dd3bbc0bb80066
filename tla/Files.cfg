SPECIFICATION Spec
CONSTANTS
  NPROC = 2
  NOFILE = 2
  NFILE = 3
  Inodes = {root}
  Pipes = {q}
  Root = root
  NoObj = NoObj
INVARIANTS RefsCounted ObjectsCounted
