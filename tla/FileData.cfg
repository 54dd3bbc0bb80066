SPECIFICATION MCSpec
CONSTANTS
  Procs = {"p1", "p2"}
  Inodes = {"f", "g"}
  Opened <- Twice
  BSIZE = 2
  NDIRECT = 1
  NINDIRECT = 2
  NBLOCKS = 8
  MaxChunk = 2
  Data <- ThreeBytes
  Lengths <- OneOrThree
  UINT = 16
PROPERTY ByteSpec
