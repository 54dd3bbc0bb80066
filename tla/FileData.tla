------------------------------ MODULE FileData ------------------------------
(***************************************************************************)
(* The contents of files: block allocation, the direct and indirect        *)
(* addresses of an inode, readi and writei (fs.c), and the reads and       *)
(* writes of open files, which share their offset (file.c).                *)
(*                                                                         *)
(* readi and writei run with the inode locked and balloc with the bitmap's *)
(* buffer locked, and two inodes have no block in common, so each call of  *)
(* readi or writei is one action.  A large write is several.               *)
(***************************************************************************)
EXTENDS Integers, Sequences, FiniteSets, SequencesExt

CONSTANTS
  Procs, Inodes, Opened,   \* Opened: which inode each open file is of
  BSIZE, NDIRECT, NINDIRECT,
  NBLOCKS,
  MaxChunk,                \* what filewrite writes in one transaction
  Data, Lengths,           \* what processes write, how much they read
  UINT                     \* 2^32 in the code

MAXFILE == NDIRECT + NINDIRECT
Blocks == 1 .. NBLOCKS
Files == DOMAIN Opened
Bytes == UNION {Range(d) : d \in Data}

ASSUME FileDataAssumption ==
  /\ Lengths \subseteq 0 .. UINT - 1 /\ {BSIZE, MaxChunk, UINT} \subseteq Nat \ {0} /\ {NDIRECT, NINDIRECT, NBLOCKS} \subseteq Nat
  /\ NBLOCKS >= Cardinality(Inodes) * (MAXFILE + 1)   \* balloc panics on a full disk
  /\ NINDIRECT <= BSIZE /\ 2 * MAXFILE * BSIZE < UINT
  /\ \A o \in Files : Opened[o] \in Inodes

VARIABLES
  used,          \* the bitmap
  block,         \* the data of each block
  addrs, size,   \* struct inode
  off,           \* struct file
  todo, file,    \* per process: what filewrite has yet to write, and where
  got            \* what the last step has read

inodes == <<addrs, size>>
vars == <<used, block, inodes, off, todo, file, got>>

Zero == [k \in 0 .. BSIZE - 1 |-> 0]
Junk == [k \in 0 .. BSIZE - 1 |-> 1]      \* for whatever a free block holds
NoFile == 0

\* Empty files, just made, and a disk with nothing else in use
Init ==
  /\ used = {} /\ block = [b \in Blocks |-> Junk]
  /\ addrs = [i \in Inodes |-> [k \in 0 .. NDIRECT |-> 0]] /\ size = [i \in Inodes |-> 0]
  /\ off = [o \in Files |-> 0]
  /\ todo = [p \in Procs |-> <<>>] /\ file = [p \in Procs |-> NoFile] /\ got = <<>>

-----------------------------------------------------------------------------
\* fs.c.  The operators work on a file system fs with the fields used, block and
\* addrs, the last of one inode.

FsOf(i) == [used |-> used, block |-> block, addrs |-> addrs[i]]

balloc(fs) ==
  LET b == CHOOSE b \in Blocks \ fs.used : \A c \in Blocks \ fs.used : b <= c
  IN  [b |-> b, fs |-> [fs EXCEPT !.used = @ \cup {b}, !.block[b] = Zero]]

\* The k-th address of the inode, allocated if there is none
Direct(fs, k) ==
  IF fs.addrs[k] # 0 THEN [b |-> fs.addrs[k], fs |-> fs]
  ELSE LET a == balloc(fs) IN [a EXCEPT !.fs.addrs[k] = a.b]

\* A mutation of bmap: every index into the indirect block is 0.
MutBmapIndex(fs, bn) ==
  IF bn < NDIRECT THEN Direct(fs, bn)
  ELSE LET ind == Direct(fs, NDIRECT)
           e == ind.fs.block[ind.b][0]
           a == balloc(ind.fs)
       IN  IF e # 0 THEN [b |-> e, fs |-> ind.fs] ELSE [a EXCEPT !.fs.block[ind.b][0] = a.b]

bmap(fs, bn) ==
  IF bn < NDIRECT THEN Direct(fs, bn)
  ELSE LET ind == Direct(fs, NDIRECT)
           k == bn - NDIRECT
           e == ind.fs.block[ind.b][k]
           a == balloc(ind.fs)
       IN  IF e # 0 THEN [b |-> e, fs |-> ind.fs] ELSE [a EXCEPT !.fs.block[ind.b][k] = a.b]

\* The pieces, one per block, of n bytes at offset at: first byte and length
Pieces(at, n) ==
  LET first == at \div BSIZE
      last == (at + n - 1) \div BSIZE
      From(k) == IF k = first THEN at ELSE k * BSIZE
      To(k) == IF k = last THEN at + n ELSE (k + 1) * BSIZE
  IN  IF n = 0 THEN <<>>
      ELSE [j \in 1 .. last - first + 1 |->
              [at |-> From(first + j - 1), m |-> To(first + j - 1) - From(first + j - 1)]]

\* readi and writei refuse an offset beyond the end and one that overflows.
Bad(i, at, n) == at > size[i] \/ (at + n) % UINT < at

\* What readi copies; -1 stands for its failure
readi(i, at, n) ==
  LET m == IF at + n > size[i] THEN size[i] - at ELSE n
      Copy(s, piece) ==
        LET b == bmap(FsOf(i), piece.at \div BSIZE).b
        IN  s \o [k \in 1 .. piece.m |-> block[b][(piece.at % BSIZE) + k - 1]]
  IN  IF Bad(i, at, n) THEN <<-1>> ELSE FoldLeft(Copy, <<>>, Pieces(at, m))

\* writei of the bytes d: the file system after it
Written(i, at, d) ==
  LET Copy(fs, piece) ==
        LET a == bmap(fs, piece.at \div BSIZE)
            from == piece.at - at
        IN  [a.fs EXCEPT !.block[a.b] =
               [k \in 0 .. BSIZE - 1 |->
                  IF k \in (piece.at % BSIZE) .. (piece.at % BSIZE) + piece.m - 1
                  THEN d[from + k - (piece.at % BSIZE) + 1] ELSE @[k]]]
  IN  FoldLeft(Copy, FsOf(i), Pieces(at, Len(d)))

TooLong(at, n) == at + n > MAXFILE * BSIZE

writei(i, at, d) ==
  LET fs == Written(i, at, d)
  IN  /\ ~Bad(i, at, Len(d)) /\ ~TooLong(at, Len(d))
      /\ used' = fs.used /\ block' = fs.block /\ addrs' = [addrs EXCEPT ![i] = fs.addrs]
      /\ size' = [size EXCEPT ![i] = IF at + Len(d) > @ THEN at + Len(d) ELSE @]

\* The blocks an inode refers to.  bfree panics for one that is free; here each is
\* in use once, or it would be given out again and ByteSpec would not hold.
Indirect(i) == IF addrs[i][NDIRECT] = 0 THEN {} ELSE {block[addrs[i][NDIRECT]][k] : k \in 0 .. NINDIRECT - 1} \ {0}
Truncated(i) == {addrs[i][k] : k \in 0 .. NDIRECT} \cup Indirect(i)

\* itrunc when iput frees the inode; nobody has the file open, and opening a file
\* starts at offset 0.
itrunc(i) ==
  /\ \A p \in Procs : file[p] # NoFile => Opened[file[p]] # i
  /\ used' = used \ Truncated(i)
  /\ addrs' = [addrs EXCEPT ![i] = [k \in 0 .. NDIRECT |-> 0]] /\ size' = [size EXCEPT ![i] = 0]
  /\ off' = [o \in Files |-> IF Opened[o] = i THEN 0 ELSE off[o]]
  /\ block' = [b \in Blocks |-> IF b \in Truncated(i) THEN Junk ELSE block[b]]
  /\ got' = <<>> /\ UNCHANGED <<todo, file>>

-----------------------------------------------------------------------------
\* file.c

StartWrite(p, o, d) ==
  /\ file[p] = NoFile
  /\ file' = [file EXCEPT ![p] = o] /\ todo' = [todo EXCEPT ![p] = d]
  /\ got' = <<>> /\ UNCHANGED <<used, block, inodes, off>>

Chunk(p) == SubSeq(todo[p], 1, IF Len(todo[p]) > MaxChunk THEN MaxChunk ELSE Len(todo[p]))

\* One transaction of filewrite
filewrite(p) ==
  /\ file[p] # NoFile /\ todo[p] # <<>>
  /\ writei(Opened[file[p]], off[file[p]], Chunk(p))
  /\ off' = [off EXCEPT ![file[p]] = @ + Len(Chunk(p))]
  /\ todo' = [todo EXCEPT ![p] = SubSeq(@, Len(Chunk(p)) + 1, Len(@))]
  /\ got' = <<>> /\ UNCHANGED file

\* It is done, or writei has failed and the rest is not written.
WriteReturns(p) ==
  /\ file[p] # NoFile
  /\ \/ todo[p] = <<>>
     \/ Bad(Opened[file[p]], off[file[p]], Len(Chunk(p))) \/ TooLong(off[file[p]], Len(Chunk(p)))
  /\ file' = [file EXCEPT ![p] = NoFile] /\ todo' = [todo EXCEPT ![p] = <<>>]
  /\ got' = <<>> /\ UNCHANGED <<used, block, inodes, off>>

fileread(p, o, n) ==
  /\ file[p] = NoFile /\ ~Bad(Opened[o], off[o], n)
  /\ got' = readi(Opened[o], off[o], n) /\ off' = [off EXCEPT ![o] = @ + Len(got')]
  /\ UNCHANGED <<used, block, inodes, todo, file>>

\* sys_open: a new struct file
Open(p, o) ==
  /\ \A q \in Procs : file[q] # o
  /\ off' = [off EXCEPT ![o] = 0] /\ got' = <<>>
  /\ UNCHANGED <<used, block, inodes, todo, file>>

Next ==
  \/ \E p \in Procs :
       \/ filewrite(p) \/ WriteReturns(p)
       \/ \E o \in Files :
            (\E d \in Data : StartWrite(p, o, d)) \/ (\E n \in Lengths : fileread(p, o, n)) \/ Open(p, o)
  \/ \E i \in Inodes : itrunc(i)

Spec == Init /\ [][Next]_vars

-----------------------------------------------------------------------------
\* Properties

\* The bytes of a file, each from the block that bmap gives
Contents(i) ==
  [k \in 1 .. size[i] |-> block[bmap(FsOf(i), (k - 1) \div BSIZE).b][(k - 1) % BSIZE]]

\* What is written is cut at the multiples of MaxChunk.
Chunks(d) ==
  {SubSeq(d, k * MaxChunk + 1, IF Len(d) < (k + 1) * MaxChunk THEN Len(d) ELSE (k + 1) * MaxChunk) :
     k \in 0 .. (Len(d) - 1) \div MaxChunk}

ByteFiles == INSTANCE ByteFile WITH
  contents <- [i \in Inodes |-> Contents(i)], MaxSize <- MAXFILE * BSIZE,
  Data <- UNION {Chunks(d) : d \in Data}

\* Blocks and addresses do not show: the files are sequences of bytes, a read (readi)
\* gets those at the offset, as many as were asked for or as there are, and the
\* chunks of the processes that share an open file are written (writei) one after
\* the other, at the offset they share.
ByteSpec == ByteFiles!Spec
=============================================================================
