----------------------------- MODULE FilesProofs -----------------------------
(***************************************************************************)
(* Proofs about Files, for any number of processes, descriptors, files,    *)
(* inodes and pipes: the references of files, inodes and pipe ends are     *)
(* what their counts say.  References are counted with one operator,       *)
(* Count: how often a function takes a value.  An action changes each of   *)
(* the functions that are counted at one or two places, and lemmas         *)
(* CountMove and CountTwo say by how much the counts change then.  What    *)
(* the proofs use of finite sets is the formula Counting, which the end of *)
(* the module derives from the library's theorems.                         *)
(***************************************************************************)
EXTENDS Files, Integers, TLAPS

Count(h, v) == Cardinality({x \in DOMAIN h : h[x] = v})
One(b) == IF b THEN 1 ELSE 0

-----------------------------------------------------------------------------
\* The inductive invariant

\* The references of descriptors, of system calls that close files, and of
\* working directories, as functions
FdMap == [d \in Slots \X Fds |-> IF isthread[d[1]] THEN NoFile ELSE ofile[d[1]][d[2]]]
TodoMap ==
  [d \in Slots \X (1 .. 2) |->
     IF d[2] \in DOMAIN todo[d[1]] /\ pc[d[1]] # "install" THEN todo[d[1]][d[2]] ELSE NoFile]
DirMap == [s \in Slots |-> IF isthread[s] THEN NoObj ELSE cwd[s]]

Refs == \A f \in FileIds : ref[f] = Count(FdMap, f) + Count(TodoMap, f)

Balanced ==
  \A o \in Objs : opens[o] = Count(obj, o) + Count(gone, o) + Count(hold, o) + Count(DirMap, o)

Places == {"user", "filealloc", "install", "close", "release", "pipe", "exit"}

TypeOK ==
  /\ ref \in [FileIds -> Nat]
  /\ obj \in [FileIds -> Objs \cup {NoObj}]
  /\ opens \in [Objs -> Int]
  /\ state \in [Slots -> {"unused", "run", "zombie"}]
  /\ isthread \in [Slots -> BOOLEAN]
  /\ ofile \in [Slots -> [Fds -> FileIds \cup {NoFile}]]
  /\ cwd \in [Slots -> Inodes \cup {NoObj}]
  /\ pc \in [Slots -> Places]
  /\ todo \in [Slots -> Seq(FileIds)]
  /\ gone \in [Slots -> Objs \cup {NoObj}]
  /\ hold \in [Slots -> Inodes \cup {NoObj}]

\* What a process has in hand, by its place in a system call
HandOf(s) ==
  /\ Len(todo[s]) <= 2
  /\ pc[s] \in {"user", "exit", "filealloc"} => todo[s] = <<>>
  /\ pc[s] \in {"install", "pipe"} => Len(todo[s]) = 1
  /\ pc[s] # "release" => gone[s] = NoObj
  /\ pc[s] \in {"user", "exit", "pipe"} => hold[s] = NoObj
  /\ pc[s] \in {"filealloc", "install"} => hold[s] \in Inodes
InHand == \A s \in Slots : HandOf(s)

\* A slot that is not in use has nothing, and threads have nothing of their own.
Slotwise ==
  \A s \in Slots :
    /\ state[s] # "run" => pc[s] = "user" /\ cwd[s] = NoObj
    /\ state[s] # "run" /\ ~isthread[s] => \A fd \in Fds : ofile[s][fd] = NoFile
    /\ state[s] = "run" /\ ~isthread[s] => cwd[s] \in Inodes
    /\ isthread[s] => threads /\ pc[s] \in {"user", "exit"}

\* A free file refers to nothing, and neither does a file that sys_open or
\* pipealloc has taken and not yet filled in; nobody else has that one.
FreshOf(s) ==
  /\ pc[s] \in {"install", "pipe"} => ref[todo[s][1]] = 1 /\ obj[todo[s][1]] = NoObj
  /\ pc[s] = "install" => \E fd \in Fds : ofile[s][fd] = todo[s][1]
Fresh ==
  /\ \A f \in FileIds : ref[f] = 0 => obj[f] = NoObj
  /\ \A s \in Slots : FreshOf(s)

IInv == TypeOK /\ InHand /\ Slotwise /\ Fresh /\ Refs /\ Balanced

-----------------------------------------------------------------------------
\* Counting

CountsAreNumbers ==
  \A h, v : IsFiniteSet(DOMAIN h) => IsFiniteSet({x \in DOMAIN h : h[x] = v}) /\ Count(h, v) \in Nat
\* A value is counted wherever the function takes it.
CountsWhatIsThere ==
  \A h, v : IsFiniteSet(DOMAIN h) => \A x \in DOMAIN h : h[x] = v =>
    /\ Count(h, v) \in Nat \ {0}
    /\ \A y \in DOMAIN h : y # x /\ h[y] = v => Count(h, v) >= 2
\* One place of the function changes.
CountsOneChange ==
  \A g, h, v : IsFiniteSet(DOMAIN g) /\ DOMAIN h = DOMAIN g => \A x \in DOMAIN g :
    (\A y \in DOMAIN g : y # x => h[y] = g[y])
      => Count(h, v) = Count(g, v) - One(g[x] = v) + One(h[x] = v)
\* A value that is taken nowhere counts 0.
CountsNothing == \A h, v : (\A x \in DOMAIN h : h[x] # v) => Count(h, v) = 0

TablesAreFinite ==
  /\ IsFiniteSet(Slots) /\ IsFiniteSet(FileIds) /\ IsFiniteSet(Fds)
  /\ IsFiniteSet(Slots \X Fds) /\ IsFiniteSet(Slots \X (1 .. 2))
\* Sets of descriptors: how many there are, also in one row of a table.
FdsAreCounted ==
  \A F \in SUBSET Fds :
    /\ Cardinality(F) \in Nat /\ (F = {} => Cardinality(F) = 0)
    /\ Cardinality(F) >= 2 => F # {} /\ \A x : F # {x}
    /\ \A c, G : IsFiniteSet(G) /\ G \cap ({c} \X F) = {} =>
         Cardinality(G \cup ({c} \X F)) = Cardinality(G) + Cardinality(F)
\* Min finds the smallest element of a set of naturals.
MinIsThere == \A S \in SUBSET Nat : S # {} => Min(S) \in S

Counting ==
  /\ CountsAreNumbers /\ CountsWhatIsThere /\ CountsOneChange /\ CountsNothing
  /\ TablesAreFinite /\ FdsAreCounted /\ MinIsThere

LEMMA CountType ==
  ASSUME Counting, NEW h, IsFiniteSet(DOMAIN h), NEW v
  PROVE  IsFiniteSet({x \in DOMAIN h : h[x] = v}) /\ Count(h, v) \in Nat
  BY Zenon DEF Counting, CountsAreNumbers

LEMMA CountAt ==
  ASSUME Counting, NEW h, IsFiniteSet(DOMAIN h), NEW v, NEW x \in DOMAIN h, h[x] = v
  PROVE  /\ Count(h, v) \in Nat \ {0}
         /\ \A y \in DOMAIN h : y # x /\ h[y] = v => Count(h, v) >= 2
  BY Zenon DEF Counting, CountsWhatIsThere

LEMMA CountMove ==
  ASSUME Counting, NEW g, NEW h, IsFiniteSet(DOMAIN g), DOMAIN h = DOMAIN g,
         NEW x \in DOMAIN g, \A y \in DOMAIN g : y # x => h[y] = g[y], NEW v
  PROVE  Count(h, v) = Count(g, v) - One(g[x] = v) + One(h[x] = v)
  BY DEF Counting, CountsOneChange

LEMMA CountNone ==
  ASSUME Counting, NEW h, NEW v, \A x \in DOMAIN h : h[x] # v
  PROVE  Count(h, v) = 0
  BY Zenon DEF Counting, CountsNothing

LEMMA MinIn ==
  ASSUME Counting, NEW S \in SUBSET Nat, S # {}
  PROVE  Min(S) \in S
  BY Zenon DEF Counting, MinIsThere

LEMMA Finite ==
  ASSUME Counting
  PROVE  /\ IsFiniteSet(Slots) /\ IsFiniteSet(FileIds) /\ IsFiniteSet(Fds)
         /\ IsFiniteSet(Slots \X Fds) /\ IsFiniteSet(Slots \X (1 .. 2))
  BY Zenon DEF Counting, TablesAreFinite

-----------------------------------------------------------------------------
\* The constants
LEMMA Basics ==
  /\ \A f \in FileIds : f \in Nat /\ f # NoFile
  /\ \A fd \in Fds : fd \in Nat
  /\ Root \in Inodes /\ NoObj \notin Objs /\ Inodes \cap Ends = {}
  /\ Inodes \subseteq Objs /\ Ends \subseteq Objs
  /\ initproc \in Slots
  BY FilesAssumption DEF FileIds, NoFile, Fds, Objs, initproc, Slots

\* filealloc takes a free file, fdalloc a free descriptor.
LEMMA FreeFile ==
  ASSUME Counting, TypeOK, FreeFiles # {}
  PROVE  Min(FreeFiles) \in FileIds /\ ref[Min(FreeFiles)] = 0
<1>1. FreeFiles \in SUBSET Nat
  BY Basics, Zenon DEF FreeFiles
<1> QED
  BY <1>1, MinIn, Zenon DEF FreeFiles

LEMMA FreeFd ==
  ASSUME Counting, NEW s \in Slots, NEW F \in SUBSET FreeFds(s), F # {}
  PROVE  Min(F) \in F /\ Min(F) \in Fds /\ ofile[s][Min(F)] = NoFile
<1>1. F \in SUBSET Nat
  BY Basics, Zenon DEF FreeFds
<1> QED
  BY <1>1, MinIn, Zenon DEF FreeFds

LEMMA OpenFd ==
  ASSUME Counting, NEW s \in Slots, Fds \ FreeFds(s) # {}
  PROVE  Min(Fds \ FreeFds(s)) \in Fds /\ ofile[s][Min(Fds \ FreeFds(s))] # NoFile
<1>1. Fds \ FreeFds(s) \in SUBSET Nat
  BY Basics, Zenon
<1> QED
  BY <1>1, MinIn, Zenon DEF FreeFds

\* The second of two free descriptors
LEMMA SecondFd ==
  ASSUME Counting, NEW s \in Slots, Cardinality(FreeFds(s)) >= 2
  PROVE  /\ FreeFds(s) # {}
         /\ FreeFds(s) \ {Min(FreeFds(s))} # {}
<1>1. FreeFds(s) \in SUBSET Fds
  BY Zenon DEF FreeFds
<1>2. FreeFds(s) # {} /\ \A x : FreeFds(s) # {x}
  BY <1>1, Zenon DEF Counting, FdsAreCounted
<1> QED
  BY <1>2, Zenon

-----------------------------------------------------------------------------
\* What the actions that take or close files do

Took(f) == ref[f] = 0 /\ ref' = [ref EXCEPT ![f] = 1]

OpenNoFile(s) == pc' = [pc EXCEPT ![s] = "close"] /\ UNCHANGED <<ref, ofile, todo>>
OpenNoFd(s, f) ==
  Took(f) /\ todo' = [todo EXCEPT ![s] = <<f>>] /\ pc' = [pc EXCEPT ![s] = "close"] /\ UNCHANGED ofile
OpenTakes(s, f, fd) ==
  /\ Took(f) /\ todo' = [todo EXCEPT ![s] = <<f>>] /\ pc' = [pc EXCEPT ![s] = "install"]
  /\ ofile[s][fd] = NoFile /\ ofile' = [ofile EXCEPT ![s][fd] = f]

LEMMA OpenAllocDoes ==
  ASSUME Counting, TypeOK, NEW s \in Slots, OpenAlloc(s)
  PROVE  /\ state[s] = "run" /\ pc[s] = "filealloc"
         /\ UNCHANGED <<obj, opens, procs, gone, hold>>
         /\ \/ OpenNoFile(s)
            \/ \E f \in FileIds : OpenNoFd(s, f)
            \/ \E f \in FileIds, fd \in Fds : OpenTakes(s, f, fd)
<1>1. FreeFds(s) # {} => Min(FreeFds(s)) \in Fds /\ ofile[s][Min(FreeFds(s))] = NoFile
  BY FreeFd, Zenon
<1> QED
  BY <1>1, FreeFile, Zenon DEF OpenAlloc, Goes, OpenNoFile, OpenNoFd, OpenTakes, Took

Dups(s, f, new) ==
  /\ ref[f] >= 1 /\ ref' = [ref EXCEPT ![f] = @ + 1]
  /\ ofile[s][new] = NoFile /\ ofile' = [ofile EXCEPT ![s][new] = f]

LEMMA DupDoes ==
  ASSUME Counting, TypeOK, NEW s \in Slots, NEW fd \in Fds, sys_dup(s, fd)
  PROVE  /\ MayCall(s) /\ UNCHANGED <<obj, opens, procs, pc, todo, gone, hold>>
         /\ ofile[s][fd] \in FileIds
         /\ \E new \in Fds : Dups(s, ofile[s][fd], new)
<1>1. Min(FreeFds(s)) \in Fds /\ ofile[s][Min(FreeFds(s))] = NoFile
  BY FreeFd, Zenon DEF sys_dup
<1>2. ofile[s][fd] \in FileIds
  BY DEF sys_dup, TypeOK
<1> QED
  BY <1>1, <1>2, Zenon DEF sys_dup, Dups

\* fileclose: not the last reference, or the last one
Drops(s, f) == ref[f] > 1 /\ UNCHANGED <<obj, gone, pc>>
DropsLast(s, f) ==
  /\ ref[f] = 1 /\ pc' = [pc EXCEPT ![s] = "release"]
  /\ gone' = [gone EXCEPT ![s] = obj[f]] /\ obj' = [obj EXCEPT ![f] = NoObj]

LEMMA CloseDoes ==
  ASSUME TypeOK, NEW s \in Slots, fileclose(s)
  PROVE  /\ state[s] = "run" /\ pc[s] = "close" /\ todo[s] # <<>> /\ todo[s][1] \in FileIds
         /\ UNCHANGED <<opens, procs, ofile, hold>>
         /\ todo' = [todo EXCEPT ![s] = Tail(todo[s])] /\ Tail(todo[s]) \in Seq(FileIds)
         /\ ref[todo[s][1]] >= 1 /\ ref' = [ref EXCEPT ![todo[s][1]] = @ - 1]
         /\ Drops(s, todo[s][1]) \/ DropsLast(s, todo[s][1])
<1>1. todo[s] \in Seq(FileIds) /\ todo[s] # <<>>
  BY Zenon DEF fileclose, TypeOK
<1>2. Head(todo[s]) = todo[s][1] /\ todo[s][1] \in FileIds /\ Tail(todo[s]) \in Seq(FileIds)
  BY <1>1
<1> QED
  BY <1>1, <1>2, Zenon DEF fileclose, Goes, Drops, DropsLast

\* The second file of pipealloc joins the first.
Joins(s, f) ==
  \E rest \in Seq(FileIds) :
    Len(rest) = 2 /\ rest[1] = todo[s][1] /\ rest[2] = f /\ todo' = [todo EXCEPT ![s] = rest]

LEMMA PipeBadDoes ==
  ASSUME Counting, TypeOK, InHand, NEW s \in Slots, PipeBad(s)
  PROVE  /\ state[s] = "run" /\ pc[s] = "pipe" /\ pc' = [pc EXCEPT ![s] = "close"]
         /\ UNCHANGED <<obj, opens, procs, ofile, gone, hold>>
         /\ \/ UNCHANGED <<ref, todo>>
            \/ \E f \in FileIds : Took(f) /\ Joins(s, f)
<1>1. todo[s] \in Seq(FileIds) /\ Len(todo[s]) = 1
  BY Zenon DEF PipeBad, Goes, TypeOK, InHand, HandOf
<1>2. CASE FreeFiles = {}
  BY <1>2, Zenon DEF PipeBad, Goes
<1>3. CASE FreeFiles # {}
  <2>1. PICK f \in FileIds : f = Min(FreeFiles) /\ ref[f] = 0
    BY <1>3, FreeFile, Zenon
  <2>2. PICK rest \in Seq(FileIds) : rest = Append(todo[s], f)
    <3>1. ASSUME NEW t \in Seq(FileIds) PROVE Append(t, f) \in Seq(FileIds)
      OBVIOUS
    <3> QED
      BY <1>1, <3>1, Zenon
  <2>3. Len(rest) = 2 /\ rest[1] = todo[s][1] /\ rest[2] = f
    BY <1>1, <2>2
  <2>4. todo' = [todo EXCEPT ![s] = rest] /\ ref' = [ref EXCEPT ![f] = 1]
    BY <1>3, <2>1, <2>2, Zenon DEF PipeBad
  <2> QED
    BY <2>1, <2>3, <2>4, Zenon DEF PipeBad, Goes, Took, Joins
<1> QED
  BY <1>2, <1>3, Zenon

PipeMade(s, q, wf) ==
  /\ Took(wf)
  /\ obj' = [obj EXCEPT ![todo[s][1]] = <<q, "r">>, ![wf] = <<q, "w">>]
  /\ opens' = [opens EXCEPT ![<<q, "r">>] = 1, ![<<q, "w">>] = 1]
PipeCloses(s, wf) == pc' = [pc EXCEPT ![s] = "close"] /\ UNCHANGED ofile /\ Joins(s, wf)
PipeOpens(s, wf, fd0, fd1) ==
  /\ fd0 # fd1 /\ ofile[s][fd0] = NoFile /\ ofile[s][fd1] = NoFile
  /\ ofile' = [ofile EXCEPT ![s] = [@ EXCEPT ![fd0] = todo[s][1], ![fd1] = wf]]
  /\ todo' = [todo EXCEPT ![s] = <<>>] /\ pc' = [pc EXCEPT ![s] = "user"]

LEMMA PipeSecondDoes ==
  ASSUME Counting, TypeOK, InHand, NEW s \in Slots, PipeSecond(s)
  PROVE  /\ state[s] = "run" /\ pc[s] = "pipe" /\ todo[s][1] \in FileIds
         /\ UNCHANGED <<procs, gone, hold>>
         /\ \E q \in FreePipes, wf \in FileIds :
              /\ PipeMade(s, q, wf)
              /\ PipeCloses(s, wf) \/ \E fd0, fd1 \in Fds : PipeOpens(s, wf, fd0, fd1)
<1>1. pc[s] = "pipe" /\ state[s] = "run" /\ UNCHANGED <<procs, gone, hold>>
  BY Zenon DEF PipeSecond, PipeFull, PipeDone, Goes
<1>2. todo[s] \in Seq(FileIds) /\ Len(todo[s]) = 1
  BY <1>1, Zenon DEF TypeOK, InHand, HandOf
<1>3. todo[s][1] \in FileIds
  BY <1>2
<1>4. PICK wf \in FileIds : wf = Min(FreeFiles) /\ ref[wf] = 0
  BY FreeFile, Zenon DEF PipeSecond
<1>5. PICK q \in FreePipes :
        PipeMade(s, q, wf) /\ (PipeFull(s, todo[s][1], wf) \/ PipeDone(s, todo[s][1], wf))
  BY <1>4, Zenon DEF PipeSecond, PipeMade, Took
<1>6. CASE PipeFull(s, todo[s][1], wf)
  <2>1. PICK rest \in Seq(FileIds) : rest = <<todo[s][1], wf>>
    <3>1. ASSUME NEW f \in FileIds PROVE <<f, wf>> \in Seq(FileIds)
      OBVIOUS
    <3> QED
      BY <1>3, <3>1, Zenon
  <2>2. Len(rest) = 2 /\ rest[1] = todo[s][1] /\ rest[2] = wf
    BY <2>1, Zenon
  <2>3. PipeCloses(s, wf)
    BY <1>6, <2>1, <2>2, Zenon DEF PipeFull, Goes, PipeCloses, Joins
  <2> QED
    BY <1>1, <1>3, <1>5, <2>3, Zenon
<1>7. CASE PipeDone(s, todo[s][1], wf)
  <2>1. FreeFds(s) # {} /\ FreeFds(s) \ {Min(FreeFds(s))} # {}
    BY <1>7, SecondFd, Zenon DEF PipeDone
  <2>2. PICK fd0 \in Fds : fd0 = Min(FreeFds(s)) /\ ofile[s][fd0] = NoFile
    BY <2>1, FreeFd, Zenon
  <2>3. PICK fd1 \in Fds : fd1 = Min(FreeFds(s) \ {fd0}) /\ fd1 # fd0 /\ ofile[s][fd1] = NoFile
    <3> DEFINE F == FreeFds(s) \ {fd0}
    <3>1. F \in SUBSET FreeFds(s) /\ F # {}
      BY <2>1, <2>2, Zenon
    <3> HIDE DEF F
    <3>2. Min(F) \in F /\ Min(F) \in Fds /\ ofile[s][Min(F)] = NoFile
      BY <3>1, FreeFd, Zenon
    <3> QED
      BY <3>2, Zenon DEF F
  <2>4. PipeOpens(s, wf, fd0, fd1)
    BY <1>7, <2>2, <2>3, Zenon DEF PipeDone, Goes, PipeOpens
  <2> QED
    BY <1>1, <1>3, <1>5, <2>4, Zenon
<1> QED
  BY <1>5, <1>6, <1>7, Zenon

\* fork takes a reference for every descriptor it copies.
LEMMA ForkDoes ==
  ASSUME Counting, TypeOK, Slotwise, NEW s \in Slots, NEW c \in Slots, ~threads, fork(s, c)
  PROVE  /\ MayCall(s) /\ state[c] = "unused" /\ c # s /\ ~isthread[c] /\ ~threads
         /\ cwd[c] = NoObj /\ cwd[s] \in Inodes
         /\ UNCHANGED <<obj, exiting, threads, pc, todo, gone, hold>>
         /\ state' = [state EXCEPT ![c] = "run"] /\ isthread' = [isthread EXCEPT ![c] = FALSE]
         /\ ofile' = [ofile EXCEPT ![c] = ofile[s]]
         /\ cwd' = [cwd EXCEPT ![c] = cwd[s]]
         /\ opens' = [opens EXCEPT ![cwd[s]] = @ + 1]
         /\ ref' \in [FileIds -> Nat]
         /\ \A f \in FileIds : ref'[f] = ref[f] + Cardinality({fd \in Fds : ofile[s][fd] = f})
<1>1. MayCall(s) /\ state[c] = "unused" /\ c # s /\ ~isthread[c] /\ ~threads /\ cwd[c] = NoObj /\ cwd[s] \in Inodes
  BY Zenon DEF fork, MayCall, Slotwise, TypeOK
<1>2. \A fd \in Fds : ofile[c][fd] = NoFile
  BY <1>1, Zenon DEF Slotwise
<1>3. [fd \in Fds |-> IF ofile[s][fd] # NoFile THEN ofile[s][fd] ELSE ofile[c][fd]] = ofile[s]
  BY <1>2, Zenon DEF TypeOK
<1>4. ofile' = [ofile EXCEPT ![c] = ofile[s]]
  BY <1>3, Zenon DEF fork, TypeOK
<1> DEFINE copies(f) == Cardinality({fd \in Fds : ofile[s][fd] = f})
<1>5. ASSUME NEW f \in FileIds PROVE copies(f) \in Nat
  BY Zenon DEF Counting, FdsAreCounted
<1>6. ref' = [f \in FileIds |-> ref[f] + copies(f)]
  BY Zenon DEF fork
<1>7. ref' \in [FileIds -> Nat] /\ \A f \in FileIds : ref'[f] = ref[f] + copies(f)
  <2> HIDE DEF copies
  <2> QED
    BY <1>5, <1>6 DEF TypeOK
<1> QED
  BY <1>1, <1>4, <1>7, Zenon DEF fork, Get

Closes(s, fd) ==
  /\ ofile[s][fd] \in FileIds /\ todo' = [todo EXCEPT ![s] = <<ofile[s][fd]>>]
  /\ ofile' = [ofile EXCEPT ![s][fd] = NoFile] /\ pc' = [pc EXCEPT ![s] = "close"]

LEMMA ExitCloseDoes ==
  ASSUME Counting, TypeOK, NEW s \in Slots, ExitClose(s)
  PROVE  /\ state[s] = "run" /\ pc[s] = "exit" /\ ~isthread[s]
         /\ UNCHANGED <<files, opens, procs, gone, hold>>
         /\ \E fd \in Fds : Closes(s, fd)
<1>1. PICK fd \in Fds : fd = Min(Fds \ FreeFds(s)) /\ ofile[s][fd] # NoFile
  BY OpenFd, Zenon DEF ExitClose
<1>2. ofile[s][fd] \in FileIds
  BY <1>1 DEF TypeOK
<1> QED
  BY <1>1, <1>2, Zenon DEF ExitClose, Goes, Closes


LEMMA CloseFdDoes ==
  ASSUME TypeOK, NEW s \in Slots, NEW fd \in Fds, sys_close(s, fd)
  PROVE  MayCall(s) /\ UNCHANGED <<files, opens, procs, gone, hold>> /\ Closes(s, fd)
<1>1. ofile[s][fd] \in FileIds
  BY DEF sys_close, TypeOK
<1> QED
  BY <1>1, Zenon DEF sys_close, Goes, Closes

LEMMA PipeFirstDoes ==
  ASSUME Counting, TypeOK, NEW s \in Slots, PipeFirst(s)
  PROVE  /\ MayCall(s) /\ UNCHANGED <<obj, opens, procs, ofile, gone, hold>>
         /\ pc' = [pc EXCEPT ![s] = "pipe"]
         /\ \E f \in FileIds : Took(f) /\ todo' = [todo EXCEPT ![s] = <<f>>]
<1>1. PICK f \in FileIds : f = Min(FreeFiles) /\ ref[f] = 0
  BY FreeFile, Zenon DEF PipeFirst
<1> QED
  BY <1>1, Zenon DEF PipeFirst, Goes, Took

-----------------------------------------------------------------------------
\* Every action keeps the variables in their types.
LEMMA TypeStep ==
  ASSUME Counting, TypeOK, InHand, Slotwise, [Next]_vars
  PROVE  TypeOK'
<1>1. CASE UNCHANGED vars
  BY <1>1, Zenon DEF TypeOK, vars, files, procs
<1>2. ASSUME NEW s \in Slots, NEW ip \in Inodes, sys_open(s, ip) \/ sys_chdir(s, ip) PROVE TypeOK'
  <2>1. CASE sys_open(s, ip)
    BY <2>1, Basics DEF sys_open, TypeOK, Places, Goes, Get, files, procs
  <2>2. CASE sys_chdir(s, ip)
    <3>1. cwd[s] \in Objs /\ ip \in Objs
      BY <2>2, Basics, Zenon DEF sys_chdir, MayCall, Slotwise
    <3> QED
      BY <2>2, <3>1, Basics DEF sys_chdir, TypeOK, files
  <2> QED
    BY <1>2, <2>1, <2>2, Zenon
<1>3. ASSUME NEW s \in Slots, NEW fd \in Fds, sys_close(s, fd) PROVE TypeOK'
  <2>1. UNCHANGED <<files, opens, procs, gone, hold>> /\ Closes(s, fd)
    BY <1>3, CloseFdDoes, Zenon
  <2> QED
    BY <2>1 DEF TypeOK, Places, Closes, files, procs
<1>4. ASSUME NEW s \in Slots, NEW fd \in Fds, sys_dup(s, fd) PROVE TypeOK'
  <2>1. UNCHANGED <<obj, opens, procs, pc, todo, gone, hold>> /\ ofile[s][fd] \in FileIds
    BY <1>4, DupDoes, Zenon
  <2>2. PICK new \in Fds : Dups(s, ofile[s][fd], new)
    BY <1>4, DupDoes, Zenon
  <2> QED
    BY <2>1, <2>2 DEF TypeOK, Dups, procs
<1>5. ASSUME NEW s \in Slots, OpenAlloc(s) PROVE TypeOK'
  <2>1. UNCHANGED <<obj, opens, procs, gone, hold>>
    BY <1>5, OpenAllocDoes, Zenon
  <2>2. CASE OpenNoFile(s)
    BY <2>1, <2>2, Zenon DEF TypeOK, Places, OpenNoFile, procs
  <2>3. ASSUME NEW f \in FileIds, OpenNoFd(s, f) PROVE TypeOK'
    BY <2>1, <2>3 DEF TypeOK, Places, OpenNoFd, Took, procs
  <2>4. ASSUME NEW f \in FileIds, NEW fd \in Fds, OpenTakes(s, f, fd) PROVE TypeOK'
    BY <2>1, <2>4 DEF TypeOK, Places, OpenTakes, Took, procs
  <2> QED
    BY <1>5, <2>2, <2>3, <2>4, OpenAllocDoes, Zenon
<1>6. ASSUME NEW s \in Slots, Install(s) PROVE TypeOK'
  <2>1. todo[s][1] \in FileIds
    BY <1>6 DEF Install, Goes, TypeOK, InHand, HandOf
  <2> QED
    <3>1. hold[s] \in Objs /\ NoObj \in Inodes \cup {NoObj} /\ <<>> \in Seq(FileIds) /\ "user" \in Places
      BY <1>6, Basics DEF Install, InHand, HandOf, Goes, Places
    <3>2. /\ obj' \in [FileIds -> Objs \cup {NoObj}] /\ pc' \in [Slots -> Places]
          /\ todo' \in [Slots -> Seq(FileIds)] /\ hold' \in [Slots -> Inodes \cup {NoObj}]
      BY <1>6, <2>1, <3>1, Zenon DEF Install, TypeOK, Goes
    <3> QED
      BY <1>6, <3>2, Zenon DEF Install, TypeOK, procs
<1>7. ASSUME NEW s \in Slots, fileclose(s) PROVE TypeOK'
  <2> DEFINE f == todo[s][1]
  <2>1. /\ f \in FileIds /\ ref[f] >= 1 /\ ref' = [ref EXCEPT ![f] = @ - 1]
        /\ UNCHANGED <<opens, procs, ofile, hold>>
        /\ todo' = [todo EXCEPT ![s] = Tail(todo[s])] /\ Tail(todo[s]) \in Seq(FileIds)
        /\ Drops(s, f) \/ DropsLast(s, f)
    BY <1>7, CloseDoes, Zenon
  <2> HIDE DEF f
  <2>2. ref' \in [FileIds -> Nat] /\ todo' \in [Slots -> Seq(FileIds)]
    BY <2>1 DEF TypeOK
  <2>3. CASE Drops(s, f)
    BY <2>1, <2>2, <2>3, Zenon DEF TypeOK, Drops, procs
  <2>4. CASE DropsLast(s, f)
    BY <2>1, <2>2, <2>4, Zenon DEF TypeOK, Places, DropsLast, procs
  <2> QED
    BY <2>1, <2>3, <2>4, Zenon
<1>8. ASSUME NEW s \in Slots, Release(s) \/ Closed(s) PROVE TypeOK'
  <2>1. ASSUME NEW o \in Objs \cup {NoObj}, Put(o) PROVE opens' \in [Objs -> Int]
    BY <2>1 DEF Put, TypeOK
  <2>2. opens' \in [Objs -> Int]
    BY <1>8, <2>1, Basics, Zenon DEF Release, Closed, TypeOK
  <2> QED
    BY <1>8, <2>2, Zenon DEF Release, Closed, TypeOK, Places, Goes, files, procs
<1>9. ASSUME NEW s \in Slots, PipeFirst(s) PROVE TypeOK'
  <2>1. UNCHANGED <<obj, opens, procs, ofile, gone, hold>> /\ pc' = [pc EXCEPT ![s] = "pipe"]
    BY <1>9, PipeFirstDoes, Zenon
  <2>2. PICK f \in FileIds : Took(f) /\ todo' = [todo EXCEPT ![s] = <<f>>]
    BY <1>9, PipeFirstDoes, Zenon
  <2> QED
    BY <2>1, <2>2 DEF TypeOK, Places, Took, procs
<1>10. ASSUME NEW s \in Slots, PipeBad(s) PROVE TypeOK'
  <2>1. UNCHANGED <<obj, opens, procs, ofile, gone, hold>> /\ pc' = [pc EXCEPT ![s] = "close"]
    BY <1>10, PipeBadDoes, Zenon
  <2>2. CASE UNCHANGED <<ref, todo>>
    BY <2>1, <2>2, Zenon DEF TypeOK, Places, procs
  <2>3. ASSUME NEW f \in FileIds, Took(f), Joins(s, f) PROVE TypeOK'
    BY <2>1, <2>3 DEF TypeOK, Places, Took, Joins, procs
  <2> QED
    BY <1>10, <2>2, <2>3, PipeBadDoes, Zenon
<1>11. ASSUME NEW s \in Slots, PipeSecond(s) PROVE TypeOK'
  <2>1. todo[s][1] \in FileIds /\ UNCHANGED <<procs, gone, hold>>
    BY <1>11, PipeSecondDoes, Zenon
  <2>2. PICK q \in FreePipes, wf \in FileIds :
          /\ PipeMade(s, q, wf)
          /\ PipeCloses(s, wf) \/ \E fd0, fd1 \in Fds : PipeOpens(s, wf, fd0, fd1)
    BY <1>11, PipeSecondDoes, Zenon
  <2>3. <<q, "r">> \in Objs /\ <<q, "w">> \in Objs
    BY Zenon DEF FreePipes, Objs, Ends
  <2>4. ref' \in [FileIds -> Nat] /\ obj' \in [FileIds -> Objs \cup {NoObj}] /\ opens' \in [Objs -> Int]
    <3>1. PICK rf \in FileIds : rf = todo[s][1]
      BY <2>1, Zenon
    <3>2. obj' = [obj EXCEPT ![rf] = <<q, "r">>, ![wf] = <<q, "w">>]
      BY <2>2, <3>1, Zenon DEF PipeMade
    <3>3. PICK er \in Objs, ew \in Objs : er = <<q, "r">> /\ ew = <<q, "w">>
      BY <2>3, Zenon
    <3>4. obj' = [obj EXCEPT ![rf] = er, ![wf] = ew] /\ opens' = [opens EXCEPT ![er] = 1, ![ew] = 1]
      BY <2>2, <3>2, <3>3, Zenon DEF PipeMade
    <3>5. ref' \in [FileIds -> Nat]
      BY <2>2, Zenon DEF TypeOK, PipeMade, Took
    <3>6. obj' \in [FileIds -> Objs \cup {NoObj}]
      BY <3>4, Zenon DEF TypeOK
    <3>7. opens' \in [Objs -> Int]
      BY <3>4 DEF TypeOK
    <3> QED
      BY <3>5, <3>6, <3>7, Zenon
  <2>5. CASE PipeCloses(s, wf)
    BY <2>1, <2>4, <2>5 DEF TypeOK, Places, PipeCloses, Joins, procs
  <2>6. ASSUME NEW fd0 \in Fds, NEW fd1 \in Fds, PipeOpens(s, wf, fd0, fd1) PROVE TypeOK'
    <3>1. PICK new \in [Fds -> FileIds \cup {NoFile}] : new = [ofile[s] EXCEPT ![fd0] = todo[s][1], ![fd1] = wf]
      BY <2>1, Zenon DEF TypeOK
    <3>2. ofile' = [ofile EXCEPT ![s] = new]
      BY <2>6, <3>1, Zenon DEF PipeOpens
    <3>3. todo' = [todo EXCEPT ![s] = <<>>] /\ pc' = [pc EXCEPT ![s] = "user"]
      BY <2>6, Zenon DEF PipeOpens
    <3> QED
      BY <2>1, <2>4, <3>2, <3>3 DEF TypeOK, Places, procs
  <2> QED
    BY <2>2, <2>5, <2>6, Zenon
<1>12. ASSUME NEW s \in Slots, NEW c \in Slots, ~threads, fork(s, c) PROVE TypeOK'
  <2>1. /\ ofile' = [ofile EXCEPT ![c] = ofile[s]] /\ ref' \in [FileIds -> Nat] /\ cwd[s] \in Inodes
        /\ UNCHANGED <<obj, exiting, threads, pc, todo, gone, hold>>
        /\ state' = [state EXCEPT ![c] = "run"] /\ isthread' = [isthread EXCEPT ![c] = FALSE]
        /\ cwd' = [cwd EXCEPT ![c] = cwd[s]] /\ opens' = [opens EXCEPT ![cwd[s]] = @ + 1]
    BY <1>12, ForkDoes, Zenon
  <2> QED
    BY <2>1, Basics DEF TypeOK
<1>13. ASSUME NEW s \in Slots, NEW c \in Slots, threads, clone(s, c) PROVE TypeOK'
  BY <1>13, Zenon DEF clone, TypeOK, files
<1>14. ASSUME NEW s \in Slots, exit(s) PROVE TypeOK'
  BY <1>14, Zenon DEF exit, Goes, TypeOK, Places, files
<1>15. ASSUME NEW s \in Slots, ExitClose(s) PROVE TypeOK'
  <2>1. UNCHANGED <<files, opens, procs, gone, hold>>
    BY <1>15, ExitCloseDoes, Zenon
  <2>2. PICK fd \in Fds : Closes(s, fd)
    BY <1>15, ExitCloseDoes, Zenon
  <2> QED
    BY <2>1, <2>2 DEF TypeOK, Places, Closes, files, procs
<1>16. ASSUME NEW s \in Slots, ExitDone(s) PROVE TypeOK'
  BY <1>16, Basics DEF ExitDone, Put, Goes, TypeOK, Places, files
<1>17. ASSUME NEW s \in Slots, wait(s) PROVE TypeOK'
  BY <1>17, Zenon DEF wait, TypeOK, files
<1> QED
  BY <1>1, <1>2, <1>3, <1>4, <1>5, <1>6, <1>7, <1>8, <1>9, <1>10, <1>11, <1>12, <1>13, <1>14,
     <1>15, <1>16, <1>17 DEF Next

\* What a process has in hand fits its place.
LEMMA InHandStep ==
  ASSUME Counting, TypeOK, InHand, Slotwise, [Next]_vars
  PROVE  InHand'
<1>1. CASE UNCHANGED vars
  BY <1>1, Zenon DEF InHand, HandOf, vars
<1>2. ASSUME NEW s \in Slots, NEW ip \in Inodes, sys_open(s, ip) \/ sys_chdir(s, ip) PROVE InHand'
  <2>1. ASSUME sys_open(s, ip), NEW u \in Slots PROVE HandOf(u)'
    <3>1. /\ pc' = [pc EXCEPT ![s] = "filealloc"] /\ hold' = [hold EXCEPT ![s] = ip]
          /\ pc[s] = "user" /\ todo' = todo /\ gone' = gone
      BY <2>1, Zenon DEF sys_open, Goes
    <3>2. HandOf(u) /\ HandOf(s)
      BY Zenon DEF InHand
    <3> QED
      BY <3>1, <3>2 DEF TypeOK, HandOf
  <2>2. ASSUME sys_chdir(s, ip) PROVE InHand'
    BY <2>2, Zenon DEF sys_chdir, InHand, HandOf
  <2> QED
    BY <1>2, <2>1, <2>2, Zenon DEF InHand
<1>3. ASSUME NEW s \in Slots, NEW fd \in Fds, sys_close(s, fd) PROVE InHand'
  <2>1. UNCHANGED <<files, opens, procs, gone, hold>> /\ Closes(s, fd) /\ pc[s] = "user"
    BY <1>3, CloseFdDoes, Zenon DEF MayCall
  <2> QED
    BY <2>1 DEF TypeOK, Closes, InHand, HandOf
<1>4. ASSUME NEW s \in Slots, NEW fd \in Fds, sys_dup(s, fd) PROVE InHand'
  BY <1>4, Zenon DEF sys_dup, InHand, HandOf
<1>5. ASSUME NEW s \in Slots, OpenAlloc(s) PROVE InHand'
  <2>1. UNCHANGED <<obj, opens, procs, gone, hold>> /\ pc[s] = "filealloc"
    BY <1>5, OpenAllocDoes, Zenon
  <2>2. CASE OpenNoFile(s)
    BY <2>1, <2>2, Zenon DEF TypeOK, OpenNoFile, InHand, HandOf
  <2>3. ASSUME NEW f \in FileIds, OpenNoFd(s, f) PROVE InHand'
    BY <2>1, <2>3 DEF TypeOK, OpenNoFd, InHand, HandOf
  <2>4. ASSUME NEW f \in FileIds, NEW fd \in Fds, OpenTakes(s, f, fd) PROVE InHand'
    BY <2>1, <2>4 DEF TypeOK, OpenTakes, InHand, HandOf
  <2> QED
    BY <1>5, <2>2, <2>3, <2>4, OpenAllocDoes, Zenon
<1>6. ASSUME NEW s \in Slots, Install(s) PROVE InHand'
  BY <1>6 DEF Install, TypeOK, InHand, HandOf, Goes
<1>7. ASSUME NEW s \in Slots, fileclose(s) PROVE InHand'
  <2>1. /\ pc[s] = "close" /\ UNCHANGED <<opens, procs, ofile, hold>>
        /\ todo' = [todo EXCEPT ![s] = Tail(todo[s])] /\ Tail(todo[s]) \in Seq(FileIds) /\ todo[s] # <<>>
        /\ Drops(s, todo[s][1]) \/ DropsLast(s, todo[s][1])
    BY <1>7, CloseDoes, Zenon
  <2>2. Len(Tail(todo[s])) <= 2
    BY <2>1 DEF InHand, HandOf, TypeOK
  <2> QED
    BY <2>1, <2>2, SMTT(30) DEF TypeOK, Drops, DropsLast, InHand, HandOf
<1>8. ASSUME NEW s \in Slots, Release(s) \/ Closed(s) PROVE InHand'
  BY <1>8 DEF Release, Closed, TypeOK, Goes, InHand, HandOf
<1>9. ASSUME NEW s \in Slots, PipeFirst(s) PROVE InHand'
  <2>1. UNCHANGED <<obj, opens, procs, ofile, gone, hold>> /\ pc' = [pc EXCEPT ![s] = "pipe"] /\ pc[s] = "user"
    BY <1>9, PipeFirstDoes, Zenon DEF MayCall
  <2>2. PICK f \in FileIds : todo' = [todo EXCEPT ![s] = <<f>>]
    BY <1>9, PipeFirstDoes, Zenon
  <2> QED
    BY <2>1, <2>2 DEF TypeOK, InHand, HandOf
<1>10. ASSUME NEW s \in Slots, PipeBad(s) PROVE InHand'
  <2>1. UNCHANGED <<obj, opens, procs, ofile, gone, hold>> /\ pc' = [pc EXCEPT ![s] = "close"] /\ pc[s] = "pipe"
    BY <1>10, PipeBadDoes, Zenon
  <2>2. CASE UNCHANGED <<ref, todo>>
    BY <2>1, <2>2, Zenon DEF TypeOK, InHand, HandOf
  <2>3. ASSUME NEW f \in FileIds, Took(f), Joins(s, f) PROVE InHand'
    <3>1. PICK rest \in Seq(FileIds) : Len(rest) = 2 /\ todo' = [todo EXCEPT ![s] = rest]
      BY <2>3, Zenon DEF Joins
    <3>2. \A t \in Slots : t # s => todo'[t] = todo[t] /\ pc'[t] = pc[t]
      BY <2>1, <3>1, Zenon DEF TypeOK
    <3>3. todo'[s] = rest /\ pc'[s] = "close"
      BY <2>1, <3>1, Zenon DEF TypeOK
    <3>4. \A t \in Slots : t # s => HandOf(t)'
      BY <2>1, <3>2, Zenon DEF InHand, HandOf
    <3>5. HandOf(s)'
      <4>1. Len(todo'[s]) <= 2
        <5>1. Len(rest) = 2 /\ 2 <= 2
          BY <3>1
        <5> QED
          BY <5>1, <3>3, Zenon
      <4>2. gone'[s] = NoObj
        BY <2>1, Zenon DEF InHand, HandOf
      <4> QED
        BY <4>1, <4>2, <3>3, Zenon DEF HandOf
    <3> QED
      BY <3>4, <3>5, Zenon DEF InHand
  <2> QED
    BY <1>10, <2>2, <2>3, PipeBadDoes, Zenon
<1>11. ASSUME NEW s \in Slots, PipeSecond(s) PROVE InHand'
  <2>1. pc[s] = "pipe" /\ UNCHANGED <<procs, gone, hold>>
    BY <1>11, PipeSecondDoes, Zenon
  <2>2. PICK wf \in FileIds : PipeCloses(s, wf) \/ \E fd0, fd1 \in Fds : PipeOpens(s, wf, fd0, fd1)
    BY <1>11, PipeSecondDoes, Zenon
  <2>3. CASE PipeCloses(s, wf)
    <3>1. PICK rest \in Seq(FileIds) : Len(rest) = 2 /\ todo' = [todo EXCEPT ![s] = rest]
      BY <2>3, Zenon DEF PipeCloses, Joins
    <3>2. pc' = [pc EXCEPT ![s] = "close"]
      BY <2>3, Zenon DEF PipeCloses
    <3>3. \A t \in Slots : t # s => todo'[t] = todo[t] /\ pc'[t] = pc[t]
      BY <3>1, <3>2, Zenon DEF TypeOK
    <3>4. todo'[s] = rest /\ pc'[s] = "close"
      BY <3>1, <3>2, Zenon DEF TypeOK
    <3>5. \A t \in Slots : t # s => HandOf(t)'
      BY <2>1, <3>3, Zenon DEF InHand, HandOf
    <3>6. HandOf(s)'
      <4>1. Len(todo'[s]) <= 2
        <5>1. Len(rest) = 2 /\ 2 <= 2
          BY <3>1
        <5> QED
          BY <5>1, <3>4, Zenon
      <4>2. gone'[s] = NoObj
        BY <2>1, Zenon DEF InHand, HandOf
      <4> QED
        BY <4>1, <4>2, <3>4, Zenon DEF HandOf
    <3> QED
      BY <3>5, <3>6, Zenon DEF InHand
  <2>4. ASSUME NEW fd0 \in Fds, NEW fd1 \in Fds, PipeOpens(s, wf, fd0, fd1) PROVE InHand'
    <3>1. todo' = [todo EXCEPT ![s] = <<>>] /\ pc' = [pc EXCEPT ![s] = "user"]
      BY <2>4, Zenon DEF PipeOpens
    <3> QED
      BY <2>1, <3>1 DEF TypeOK, InHand, HandOf
  <2> QED
    BY <2>2, <2>3, <2>4, Zenon
<1>12. ASSUME NEW s \in Slots, NEW c \in Slots, fork(s, c) \/ clone(s, c) PROVE InHand'
  BY <1>12, Zenon DEF fork, clone, InHand, HandOf
<1>13. ASSUME NEW s \in Slots, exit(s) PROVE InHand'
  BY <1>13, Zenon DEF exit, Goes, TypeOK, InHand, HandOf
<1>14. ASSUME NEW s \in Slots, ExitClose(s) PROVE InHand'
  <2>1. UNCHANGED <<files, opens, procs, gone, hold>> /\ pc[s] = "exit"
    BY <1>14, ExitCloseDoes, Zenon
  <2>2. PICK fd \in Fds : Closes(s, fd)
    BY <1>14, ExitCloseDoes, Zenon
  <2> QED
    BY <2>1, <2>2 DEF TypeOK, Closes, InHand, HandOf
<1>15. ASSUME NEW s \in Slots, ExitDone(s) \/ wait(s) PROVE InHand'
  BY <1>15 DEF ExitDone, wait, Goes, TypeOK, InHand, HandOf
<1> QED
  BY <1>1, <1>2, <1>3, <1>4, <1>5, <1>6, <1>7, <1>8, <1>9, <1>10, <1>11, <1>12, <1>13, <1>14, <1>15
 , Zenon DEF Next

\* A slot that is not in use has nothing.
LEMMA SlotwiseStep ==
  ASSUME Counting, TypeOK, InHand, Slotwise, [Next]_vars
  PROVE  Slotwise'
<1>1. CASE UNCHANGED vars
  BY <1>1, Zenon DEF Slotwise, vars, procs
<1>2. ASSUME NEW s \in Slots, NEW ip \in Inodes, sys_open(s, ip) \/ sys_chdir(s, ip) PROVE Slotwise'
  BY <1>2 DEF sys_open, sys_chdir, MayCall, TypeOK, Goes, Slotwise, procs
<1>3. ASSUME NEW s \in Slots, NEW fd \in Fds, sys_close(s, fd) PROVE Slotwise'
  <2>1. UNCHANGED <<files, opens, procs, gone, hold>> /\ Closes(s, fd) /\ MayCall(s)
    BY <1>3, CloseFdDoes, Zenon
  <2> QED
    BY <2>1, Zenon DEF TypeOK, Closes, MayCall, Slotwise, procs
<1>4. ASSUME NEW s \in Slots, NEW fd \in Fds, sys_dup(s, fd) PROVE Slotwise'
  <2>1. UNCHANGED <<obj, opens, procs, pc, todo, gone, hold>> /\ MayCall(s) /\ ofile[s][fd] \in FileIds
    BY <1>4, DupDoes, Zenon
  <2>2. PICK new \in Fds : Dups(s, ofile[s][fd], new)
    BY <1>4, DupDoes, Zenon
  <2> QED
    BY <2>1, <2>2, Zenon DEF TypeOK, Dups, MayCall, Slotwise, procs
<1>5. ASSUME NEW s \in Slots, OpenAlloc(s) PROVE Slotwise'
  <2>1. UNCHANGED <<obj, opens, procs, gone, hold>> /\ pc[s] = "filealloc" /\ state[s] = "run"
    BY <1>5, OpenAllocDoes, Zenon
  <2>2. CASE OpenNoFile(s)
    BY <2>1, <2>2, Zenon DEF TypeOK, OpenNoFile, Slotwise, procs
  <2>3. ASSUME NEW f \in FileIds, OpenNoFd(s, f) PROVE Slotwise'
    BY <2>1, <2>3, Zenon DEF TypeOK, OpenNoFd, Slotwise, procs
  <2>4. ASSUME NEW f \in FileIds, NEW fd \in Fds, OpenTakes(s, f, fd) PROVE Slotwise'
    BY <2>1, <2>4, Zenon DEF TypeOK, OpenTakes, Slotwise, procs
  <2> QED
    BY <1>5, <2>2, <2>3, <2>4, OpenAllocDoes, Zenon
<1>6. ASSUME NEW s \in Slots, Install(s) PROVE Slotwise'
  BY <1>6, Zenon DEF Install, TypeOK, Slotwise, Goes, procs
<1>7. ASSUME NEW s \in Slots, fileclose(s) PROVE Slotwise'
  <2>1. /\ pc[s] = "close" /\ state[s] = "run" /\ UNCHANGED <<opens, procs, ofile, hold>>
        /\ Drops(s, todo[s][1]) \/ DropsLast(s, todo[s][1])
    BY <1>7, CloseDoes, Zenon
  <2> QED
    BY <2>1 DEF TypeOK, Drops, DropsLast, Slotwise, procs
<1>8. ASSUME NEW s \in Slots, Release(s) \/ Closed(s) PROVE Slotwise'
  BY <1>8 DEF Release, Closed, TypeOK, Goes, Slotwise, procs
<1>9. ASSUME NEW s \in Slots, PipeFirst(s) \/ PipeBad(s) PROVE Slotwise'
  BY <1>9 DEF PipeFirst, PipeBad, MayCall, Goes, TypeOK, Slotwise, procs
<1>10. ASSUME NEW s \in Slots, PipeSecond(s) PROVE Slotwise'
  <2>1. pc[s] = "pipe" /\ state[s] = "run" /\ UNCHANGED <<procs, gone, hold>>
    BY <1>10, PipeSecondDoes, Zenon
  <2>2. PICK wf \in FileIds : PipeCloses(s, wf) \/ \E fd0, fd1 \in Fds : PipeOpens(s, wf, fd0, fd1)
    BY <1>10, PipeSecondDoes, Zenon
  <2>3. CASE PipeCloses(s, wf)
    BY <2>1, <2>3, Zenon DEF TypeOK, PipeCloses, Slotwise, procs
  <2>4. ASSUME NEW fd0 \in Fds, NEW fd1 \in Fds, PipeOpens(s, wf, fd0, fd1) PROVE Slotwise'
    <3>1. pc' = [pc EXCEPT ![s] = "user"] /\ \A t \in Slots \ {s} : ofile'[t] = ofile[t]
      BY <2>4, Zenon DEF PipeOpens, TypeOK
    <3> QED
      BY <2>1, <3>1 DEF TypeOK, Slotwise, procs
  <2> QED
    BY <2>2, <2>3, <2>4, Zenon
<1>11. ASSUME NEW s \in Slots, NEW c \in Slots, ~threads, fork(s, c) PROVE Slotwise'
  <2>1. /\ MayCall(s) /\ state[c] = "unused" /\ c # s /\ ~threads /\ cwd[s] \in Inodes
        /\ UNCHANGED <<obj, exiting, threads, pc, todo, gone, hold>>
        /\ state' = [state EXCEPT ![c] = "run"] /\ isthread' = [isthread EXCEPT ![c] = FALSE]
        /\ ofile' = [ofile EXCEPT ![c] = ofile[s]] /\ cwd' = [cwd EXCEPT ![c] = cwd[s]]
    BY <1>11, ForkDoes, Zenon
  <2> QED
    BY <2>1, Zenon DEF TypeOK, Slotwise, MayCall
<1>12. ASSUME NEW s \in Slots, NEW c \in Slots, threads, clone(s, c) PROVE Slotwise'
  BY <1>12, Zenon DEF clone, MayCall, TypeOK, Slotwise
<1>13. ASSUME NEW s \in Slots, exit(s) PROVE Slotwise'
  BY <1>13, Zenon DEF exit, Goes, TypeOK, Slotwise
<1>14. ASSUME NEW s \in Slots, ExitClose(s) PROVE Slotwise'
  <2>1. UNCHANGED <<files, opens, procs, gone, hold>> /\ pc[s] = "exit" /\ state[s] = "run" /\ ~isthread[s]
    BY <1>14, ExitCloseDoes, Zenon
  <2>2. PICK fd \in Fds : Closes(s, fd)
    BY <1>14, ExitCloseDoes, Zenon
  <2> QED
    BY <2>1, <2>2, Zenon DEF TypeOK, Closes, Slotwise, procs
<1>15. ASSUME NEW s \in Slots, ExitDone(s) PROVE Slotwise'
  BY <1>15 DEF ExitDone, FreeFds, Goes, TypeOK, Slotwise
<1>16. ASSUME NEW s \in Slots, wait(s) PROVE Slotwise'
  BY <1>16, Zenon DEF wait, TypeOK, Slotwise
<1> QED
  BY SMTT(30), <1>1, <1>2, <1>3, <1>4, <1>5, <1>6, <1>7, <1>8, <1>9, <1>10, <1>11, <1>12, <1>13, <1>14, <1>15,
     <1>16 DEF Next

-----------------------------------------------------------------------------
\* What the counts say of a file: 0 that nobody has it, 1 that one does.

HasFd(t, fd, f) == ~isthread[t] /\ ofile[t][fd] = f
HasTodo(t, i, f) == i \in DOMAIN todo[t] /\ pc[t] # "install" /\ todo[t][i] = f

LEMMA MapsAt ==
  ASSUME Counting
  PROVE
  /\ DOMAIN FdMap = Slots \X Fds /\ IsFiniteSet(DOMAIN FdMap)
  /\ DOMAIN TodoMap = Slots \X (1 .. 2) /\ IsFiniteSet(DOMAIN TodoMap)
  /\ \A f \in FileIds, t \in Slots, fd \in Fds : FdMap[<<t, fd>>] = f <=> HasFd(t, fd, f)
  /\ \A f \in FileIds, t \in Slots, i \in 1 .. 2 : TodoMap[<<t, i>>] = f <=> HasTodo(t, i, f)
<1>1. /\ DOMAIN FdMap = Slots \X Fds
      /\ \A t \in Slots, fd \in Fds : FdMap[<<t, fd>>] = IF isthread[t] THEN NoFile ELSE ofile[t][fd]
  BY Zenon DEF FdMap
<1>2. /\ DOMAIN TodoMap = Slots \X (1 .. 2)
      /\ \A t \in Slots, i \in 1 .. 2 :
           TodoMap[<<t, i>>] = IF i \in DOMAIN todo[t] /\ pc[t] # "install" THEN todo[t][i] ELSE NoFile
  BY Zenon DEF TodoMap
<1>3. /\ \A f \in FileIds, t \in Slots, fd \in Fds : FdMap[<<t, fd>>] = f <=> HasFd(t, fd, f)
      /\ \A f \in FileIds, t \in Slots, i \in 1 .. 2 : TodoMap[<<t, i>>] = f <=> HasTodo(t, i, f)
  BY <1>1, <1>2, Basics DEF HasFd, HasTodo
<1> QED
  BY <1>1, <1>2, <1>3, Finite, Zenon

\* The same of the next state
LEMMA MapsAtNext ==
  /\ DOMAIN FdMap' = Slots \X Fds
  /\ DOMAIN TodoMap' = Slots \X (1 .. 2)
  /\ \A f \in FileIds, t \in Slots, fd \in Fds : FdMap'[<<t, fd>>] = f <=> HasFd(t, fd, f)'
  /\ \A f \in FileIds, t \in Slots, i \in 1 .. 2 : TodoMap'[<<t, i>>] = f <=> HasTodo(t, i, f)'
<1>1. /\ DOMAIN FdMap' = Slots \X Fds
      /\ \A t \in Slots, fd \in Fds : FdMap'[<<t, fd>>] = IF isthread'[t] THEN NoFile ELSE ofile'[t][fd]
  BY Zenon DEF FdMap
<1>2. /\ DOMAIN TodoMap' = Slots \X (1 .. 2)
      /\ \A t \in Slots, i \in 1 .. 2 :
           TodoMap'[<<t, i>>] = IF i \in DOMAIN todo'[t] /\ pc'[t] # "install" THEN todo'[t][i] ELSE NoFile
  BY Zenon DEF TodoMap
<1> QED
  BY <1>1, <1>2, Basics DEF HasFd, HasTodo

LEMMA RefsNat ==
  ASSUME Counting, NEW f \in FileIds
  PROVE  Count(FdMap, f) \in Nat /\ Count(TodoMap, f) \in Nat
  BY MapsAt, CountType, Zenon

LEMMA Referred ==
  ASSUME Counting, Refs, NEW f \in FileIds
  PROVE  /\ \A t \in Slots, fd \in Fds : HasFd(t, fd, f) => ref[f] >= 1
         /\ \A t \in Slots, i \in 1 .. 2 : HasTodo(t, i, f) => ref[f] >= 1
<1>1. ref[f] = Count(FdMap, f) + Count(TodoMap, f)
  BY Zenon DEF Refs
<1>2. ASSUME NEW t \in Slots, NEW fd \in Fds, HasFd(t, fd, f) PROVE Count(FdMap, f) >= 1
  <2>1. <<t, fd>> \in DOMAIN FdMap /\ FdMap[<<t, fd>>] = f
    BY <1>2, MapsAt, Zenon
  <2>2. Count(FdMap, f) \in Nat \ {0}
    BY <2>1, MapsAt, CountAt, Zenon
  <2> QED
    BY <2>2
<1>3. ASSUME NEW t \in Slots, NEW i \in 1 .. 2, HasTodo(t, i, f) PROVE Count(TodoMap, f) >= 1
  <2>1. <<t, i>> \in DOMAIN TodoMap /\ TodoMap[<<t, i>>] = f
    BY <1>3, MapsAt, Zenon
  <2>2. Count(TodoMap, f) \in Nat \ {0}
    BY <2>1, MapsAt, CountAt, Zenon
  <2> QED
    BY <2>2
<1> QED
  BY <1>1, <1>2, <1>3, RefsNat

LEMMA OnlyOne ==
  ASSUME Counting, Refs, NEW f \in FileIds, ref[f] = 1, NEW t \in Slots, NEW u \in Slots
  PROVE  /\ \A fd, gd \in Fds : HasFd(t, fd, f) /\ HasFd(u, gd, f) => t = u
         /\ \A i, k \in 1 .. 2 : HasTodo(t, i, f) /\ HasTodo(u, k, f) => t = u
         /\ \A fd \in Fds, k \in 1 .. 2 : ~(HasFd(t, fd, f) /\ HasTodo(u, k, f))
<1>1. 1 = Count(FdMap, f) + Count(TodoMap, f)
  BY Zenon DEF Refs
<1>2. ASSUME NEW fd \in Fds, NEW gd \in Fds, HasFd(t, fd, f), HasFd(u, gd, f), t # u PROVE FALSE
  <2>1. FdMap[<<t, fd>>] = f /\ FdMap[<<u, gd>>] = f /\ <<t, fd>> # <<u, gd>>
    BY <1>2, MapsAt
  <2>2. Count(FdMap, f) >= 2
    BY <2>1, MapsAt, CountAt, Zenon
  <2> QED
    BY <1>1, <2>2, RefsNat
<1>3. ASSUME NEW i \in 1 .. 2, NEW k \in 1 .. 2, HasTodo(t, i, f), HasTodo(u, k, f), t # u PROVE FALSE
  <2>1. TodoMap[<<t, i>>] = f /\ TodoMap[<<u, k>>] = f /\ <<t, i>> # <<u, k>>
    BY <1>3, MapsAt, Zenon
  <2>2. Count(TodoMap, f) >= 2
    BY <2>1, MapsAt, CountAt, Zenon
  <2> QED
    BY <1>1, <2>2, RefsNat
<1>4. ASSUME NEW fd \in Fds, NEW k \in 1 .. 2, HasFd(t, fd, f), HasTodo(u, k, f) PROVE FALSE
  <2>1. /\ <<t, fd>> \in DOMAIN FdMap /\ FdMap[<<t, fd>>] = f
        /\ <<u, k>> \in DOMAIN TodoMap /\ TodoMap[<<u, k>>] = f
    <3>1. <<t, fd>> \in DOMAIN FdMap /\ <<u, k>> \in DOMAIN TodoMap
      BY MapsAt, Zenon
    <3>2. FdMap[<<t, fd>>] = f /\ TodoMap[<<u, k>>] = f
      BY <1>4, MapsAt, Zenon
    <3> QED
      BY <3>1, <3>2, Zenon
  <2>2. Count(FdMap, f) \in Nat \ {0}
    BY <2>1, MapsAt, CountAt, Zenon
  <2>3. Count(TodoMap, f) \in Nat \ {0}
    BY <2>1, MapsAt, CountAt, Zenon
  <2> QED
    BY <1>1, <2>2, <2>3
<1> QED
  BY <1>2, <1>3, <1>4, Zenon

\* A file that sys_open or pipealloc of u has just taken is not one that
\* another process has.
LEMMA Private ==
  ASSUME Counting, TypeOK, InHand, Slotwise, Fresh, Refs, NEW u \in Slots, pc[u] \in {"install", "pipe"},
         NEW t \in Slots, t # u
  PROVE  /\ todo[u][1] \in FileIds
         /\ \A fd \in Fds : ~isthread[t] => ofile[t][fd] # todo[u][1]
         /\ \A i \in 1 .. 2 : ~HasTodo(t, i, todo[u][1])
         /\ pc[t] = "install" => todo[t][1] # todo[u][1]
<1>1. PICK f \in FileIds : f = todo[u][1]
  BY DEF TypeOK, InHand, HandOf
<1>2. ref[f] = 1
  BY <1>1, Zenon DEF Fresh, FreshOf
<1>3. 1 \in DOMAIN todo[u] /\ ~isthread[u]
  BY DEF TypeOK, InHand, HandOf, Slotwise
<1>4. (\E fd \in Fds : HasFd(u, fd, f)) \/ HasTodo(u, 1, f)
  BY <1>1, <1>3, Zenon DEF Fresh, FreshOf, HasFd, HasTodo
<1>5. /\ \A fd \in Fds : ~HasFd(t, fd, f)
      /\ \A i \in 1 .. 2 : ~HasTodo(t, i, f)
  BY <1>2, <1>4, OnlyOne
<1>6. pc[t] = "install" => \E fd \in Fds : HasFd(t, fd, todo[t][1])
  BY Zenon DEF Fresh, FreshOf, HasFd, Slotwise
<1> QED
  BY <1>1, <1>5, <1>6, Zenon DEF HasFd

-----------------------------------------------------------------------------
\* Nobody touches the file that another process has just taken.

LEMMA FreshKept ==
  ASSUME NEW u \in Slots, FreshOf(u), pc'[u] = pc[u], todo'[u] = todo[u], ofile'[u] = ofile[u],
         pc[u] \in {"install", "pipe"} =>
           ref'[todo[u][1]] = ref[todo[u][1]] /\ obj'[todo[u][1]] = obj[todo[u][1]]
  PROVE  FreshOf(u)'
  BY Zenon DEF FreshOf

\* Took(f) leaves the files that are in use alone.
LEMMA TookKeeps ==
  ASSUME TypeOK, InHand, Fresh, NEW f \in FileIds, Took(f), UNCHANGED obj, NEW s \in Slots,
         \A u \in Slots : u # s => pc'[u] = pc[u] /\ todo'[u] = todo[u] /\ ofile'[u] = ofile[u],
         FreshOf(s)'
  PROVE  Fresh'
<1>1. \A g \in FileIds : ref'[g] = IF g = f THEN 1 ELSE ref[g]
  BY Zenon DEF Took, TypeOK
<1>2. ASSUME NEW u \in Slots, u # s PROVE FreshOf(u)'
  <2>1. ASSUME pc[u] \in {"install", "pipe"} PROVE todo[u][1] \in FileIds /\ ref[todo[u][1]] = 1
    BY <2>1 DEF TypeOK, InHand, HandOf, Fresh, FreshOf
  <2>2. ASSUME pc[u] \in {"install", "pipe"} PROVE ref'[todo[u][1]] = ref[todo[u][1]]
    BY <1>1, <2>1, <2>2, Zenon
  <2>3. FreshOf(u) /\ pc'[u] = pc[u] /\ todo'[u] = todo[u] /\ ofile'[u] = ofile[u] /\ obj' = obj
    BY <1>2, Zenon DEF Fresh
  <2> QED
    BY <2>2, <2>3, FreshKept, Zenon
<1>3. \A g \in FileIds : ref'[g] = 0 => obj'[g] = NoObj
  BY <1>1 DEF Fresh
<1> QED
  BY <1>2, <1>3, Zenon DEF Fresh

\* The actions that change one file g of s.
LEMMA OwnKeeps ==
  ASSUME Counting, TypeOK, InHand, Slotwise, Fresh, Refs, NEW s \in Slots, NEW g \in FileIds,
         \/ \E fd \in Fds : HasFd(s, fd, g)
         \/ \E i \in 1 .. 2 : HasTodo(s, i, g)
         \/ pc[s] = "install" /\ g = todo[s][1],
         \A h \in FileIds : h # g => ref'[h] = ref[h] /\ obj'[h] = obj[h],
         ref'[g] = 0 => obj'[g] = NoObj,
         \A u \in Slots : u # s => pc'[u] = pc[u] /\ todo'[u] = todo[u] /\ ofile'[u] = ofile[u],
         FreshOf(s)'
  PROVE  Fresh'
<1>1. ASSUME NEW u \in Slots, u # s PROVE FreshOf(u)'
  <2>1. ASSUME pc[u] \in {"install", "pipe"} PROVE todo[u][1] \in FileIds /\ todo[u][1] # g
    BY <1>1, <2>1, Private DEF HasFd
  <2>2. FreshOf(u) /\ pc'[u] = pc[u] /\ todo'[u] = todo[u] /\ ofile'[u] = ofile[u]
    BY <1>1, Zenon DEF Fresh
  <2> QED
    BY <2>1, <2>2, FreshKept, Zenon
<1>2. \A h \in FileIds : ref'[h] = 0 => obj'[h] = NoObj
  BY Zenon DEF Fresh
<1> QED
  BY <1>1, <1>2, Zenon DEF Fresh

LEMMA FreshStep ==
  ASSUME Counting, TypeOK, InHand, Slotwise, Fresh, Refs, [Next]_vars
  PROVE  Fresh'
<1>1. CASE UNCHANGED vars
  BY <1>1, Zenon DEF Fresh, FreshOf, vars, files
<1>2. ASSUME NEW s \in Slots, UNCHANGED files,
             \A u \in Slots : u # s => pc'[u] = pc[u] /\ todo'[u] = todo[u] /\ ofile'[u] = ofile[u],
             pc'[s] \notin {"install", "pipe"}
      PROVE  Fresh'
  <2>1. \A u \in Slots : u # s => FreshOf(u)'
    BY <1>2 DEF Fresh, FreshOf, files
  <2>2. FreshOf(s)'
    BY <1>2, Zenon DEF FreshOf
  <2> QED
    BY <1>2, <2>1, <2>2, Zenon DEF Fresh, files
<1>3. ASSUME NEW s \in Slots, NEW ip \in Inodes, sys_open(s, ip) \/ sys_chdir(s, ip) PROVE Fresh'
  <2>1. UNCHANGED <<files, todo, ofile>> /\ pc[s] = "user"
    BY <1>3, Zenon DEF sys_open, sys_chdir, MayCall
  <2>2. pc' = [pc EXCEPT ![s] = "filealloc"] \/ pc' = pc
    BY <1>3, Zenon DEF sys_open, sys_chdir, Goes
  <2> QED
    BY <1>2, <2>1, <2>2, Zenon DEF TypeOK
<1>4. ASSUME NEW s \in Slots, NEW fd \in Fds, Closes(s, fd), UNCHANGED files PROVE Fresh'
  <2>1. /\ \A u \in Slots : u # s => pc'[u] = pc[u] /\ todo'[u] = todo[u] /\ ofile'[u] = ofile[u]
        /\ pc'[s] = "close"
    BY <1>4, Zenon DEF Closes, TypeOK
  <2> QED
    BY <1>2, <1>4, <2>1, Zenon
<1>5. ASSUME NEW s \in Slots, NEW fd \in Fds, sys_close(s, fd) PROVE Fresh'
  BY <1>4, <1>5, CloseFdDoes, Zenon
<1>6. ASSUME NEW s \in Slots, ExitClose(s) PROVE Fresh'
  BY <1>4, <1>6, ExitCloseDoes, Zenon
<1>7. ASSUME NEW s \in Slots, Release(s) \/ Closed(s) \/ exit(s) \/ ExitDone(s) PROVE Fresh'
  <2>1. UNCHANGED <<files, todo, ofile>>
    BY <1>7, Zenon DEF Release, Closed, exit, ExitDone
  <2>2. pc' \in {[pc EXCEPT ![s] = "close"], [pc EXCEPT ![s] = "exit"], [pc EXCEPT ![s] = "user"]}
    BY <1>7, Zenon DEF Release, Closed, exit, ExitDone, Goes
  <2> QED
    BY <1>2, <2>1, <2>2, Zenon DEF TypeOK
<1>8. ASSUME NEW s \in Slots, wait(s) PROVE Fresh'
  BY <1>8, Zenon DEF wait, Fresh, FreshOf, files
<1>9. ASSUME NEW s \in Slots, NEW c \in Slots, threads, clone(s, c) PROVE Fresh'
  <2>1. UNCHANGED <<files, pc, todo>> /\ ofile' = [ofile EXCEPT ![c] = ofile[s]] /\ pc[c] = "user"
    BY <1>9, Zenon DEF clone, Slotwise
  <2> QED
    BY <1>2, <2>1, Zenon DEF TypeOK
<1>10. ASSUME NEW s \in Slots, NEW fd \in Fds, sys_dup(s, fd) PROVE Fresh'
  <2>1. UNCHANGED <<obj, procs, pc, todo>> /\ MayCall(s)
    BY <1>10, DupDoes, Zenon
  <2>2. PICK g \in FileIds, new \in Fds : g = ofile[s][fd] /\ Dups(s, g, new)
    BY <1>10, DupDoes, Zenon
  <2>3. HasFd(s, fd, g)
    BY <2>1, <2>2, Zenon DEF HasFd, MayCall
  <2>4. /\ \A h \in FileIds : h # g => ref'[h] = ref[h]
        /\ ref'[g] # 0
        /\ \A u \in Slots : u # s => ofile'[u] = ofile[u]
    BY <2>2 DEF Dups, TypeOK
  <2>5. FreshOf(s)'
    BY <2>1, Zenon DEF FreshOf, MayCall
  <2> QED
    BY <2>1, <2>3, <2>4, <2>5, OwnKeeps, Zenon
<1>11. ASSUME NEW s \in Slots, OpenAlloc(s) PROVE Fresh'
  <2>1. UNCHANGED <<obj, procs>>
    BY <1>11, OpenAllocDoes, Zenon
  <2>2. CASE OpenNoFile(s)
    BY <1>2, <2>1, <2>2, Zenon DEF OpenNoFile, files, TypeOK
  <2>3. ASSUME NEW f \in FileIds, OpenNoFd(s, f) PROVE Fresh'
    <3>1. \A u \in Slots : u # s => pc'[u] = pc[u] /\ todo'[u] = todo[u] /\ ofile'[u] = ofile[u]
      BY <2>3, Zenon DEF OpenNoFd, TypeOK
    <3>2. FreshOf(s)'
      BY <2>3, Zenon DEF OpenNoFd, TypeOK, FreshOf
    <3> QED
      BY <2>1, <2>3, <3>1, <3>2, TookKeeps, Zenon DEF OpenNoFd
  <2>4. ASSUME NEW f \in FileIds, NEW fd \in Fds, OpenTakes(s, f, fd) PROVE Fresh'
    <3>1. \A u \in Slots : u # s => pc'[u] = pc[u] /\ todo'[u] = todo[u] /\ ofile'[u] = ofile[u]
      BY <2>4, Zenon DEF OpenTakes, TypeOK
    <3>2. todo'[s] = <<f>> /\ ofile'[s][fd] = f /\ ref'[f] = 1 /\ obj[f] = NoObj
      BY <2>4, Zenon DEF OpenTakes, Took, TypeOK, Fresh
    <3>3. FreshOf(s)'
      BY <2>1, <3>2 DEF FreshOf
    <3> QED
      BY <2>1, <2>4, <3>1, <3>3, TookKeeps, Zenon DEF OpenTakes
  <2> QED
    BY <1>11, <2>2, <2>3, <2>4, OpenAllocDoes, Zenon
<1>12. ASSUME NEW s \in Slots, Install(s) PROVE Fresh'
  <2>1. PICK g \in FileIds : g = todo[s][1] /\ ref[g] = 1
    BY <1>12 DEF Install, Goes, TypeOK, InHand, HandOf, Fresh, FreshOf
  <2>2. pc[s] = "install" /\ pc'[s] = "user" /\ UNCHANGED <<ref, ofile>>
    BY <1>12, Zenon DEF Install, Goes, TypeOK
  <2>3. \A u \in Slots : u # s => pc'[u] = pc[u] /\ todo'[u] = todo[u]
    BY <1>12, Zenon DEF Install, Goes, TypeOK
  <2>4. \A h \in FileIds : h # g => obj'[h] = obj[h]
    BY <1>12, <2>1, Zenon DEF Install, TypeOK
  <2>5. FreshOf(s)'
    BY <2>2, Zenon DEF FreshOf
  <2> QED
    BY <2>1, <2>2, <2>3, <2>4, <2>5, OwnKeeps, SMTT(30)
<1>13. ASSUME NEW s \in Slots, fileclose(s) PROVE Fresh'
  <2>1. PICK g \in FileIds : g = todo[s][1]
    BY <1>13, CloseDoes, Zenon
  <2>2. /\ pc[s] = "close" /\ todo[s] # <<>> /\ UNCHANGED ofile
        /\ todo' = [todo EXCEPT ![s] = Tail(todo[s])]
        /\ ref' = [ref EXCEPT ![g] = @ - 1]
        /\ Drops(s, g) \/ DropsLast(s, g)
    BY <1>13, <2>1, CloseDoes, Zenon
  <2>3. HasTodo(s, 1, g)
    BY <2>1, <2>2 DEF HasTodo, TypeOK
  <2>4. /\ \A h \in FileIds : h # g => ref'[h] = ref[h] /\ obj'[h] = obj[h]
        /\ ref'[g] = 0 => obj'[g] = NoObj
    BY <2>2 DEF Drops, DropsLast, TypeOK
  <2>5. \A u \in Slots : u # s => pc'[u] = pc[u] /\ todo'[u] = todo[u]
    BY <2>2, Zenon DEF Drops, DropsLast, TypeOK
  <2>6. FreshOf(s)'
    BY <2>2, Zenon DEF Drops, DropsLast, TypeOK, FreshOf
  <2> QED
    BY <2>2, <2>3, <2>4, <2>5, <2>6, OwnKeeps
<1>14. ASSUME NEW s \in Slots, PipeFirst(s) PROVE Fresh'
  <2>1. UNCHANGED <<obj, ofile>> /\ pc' = [pc EXCEPT ![s] = "pipe"]
    BY <1>14, PipeFirstDoes, Zenon
  <2>2. PICK f \in FileIds : Took(f) /\ todo' = [todo EXCEPT ![s] = <<f>>]
    BY <1>14, PipeFirstDoes, Zenon
  <2>3. todo'[s] = <<f>> /\ pc'[s] = "pipe" /\ ref'[f] = 1 /\ obj[f] = NoObj
    BY <2>1, <2>2, Zenon DEF Took, TypeOK, Fresh
  <2>4. FreshOf(s)'
    BY <2>1, <2>3 DEF FreshOf
  <2>5. \A u \in Slots : u # s => pc'[u] = pc[u] /\ todo'[u] = todo[u]
    BY <2>1, <2>2, Zenon DEF TypeOK
  <2> QED
    BY <2>1, <2>2, <2>4, <2>5, TookKeeps, Zenon
<1>15. ASSUME NEW s \in Slots, PipeBad(s) PROVE Fresh'
  <2>1. UNCHANGED <<obj, ofile>> /\ pc' = [pc EXCEPT ![s] = "close"]
    BY <1>15, PipeBadDoes, Zenon
  <2>2. CASE UNCHANGED <<ref, todo>>
    BY <1>2, <2>1, <2>2, Zenon DEF TypeOK, files
  <2>3. ASSUME NEW f \in FileIds, Took(f), Joins(s, f) PROVE Fresh'
    <3>1. PICK rest : todo' = [todo EXCEPT ![s] = rest]
      BY <2>3, Zenon DEF Joins
    <3>2. FreshOf(s)'
      BY <2>1, Zenon DEF FreshOf, TypeOK
    <3>3. \A u \in Slots : u # s => pc'[u] = pc[u] /\ todo'[u] = todo[u]
      BY <2>1, <3>1, Zenon DEF TypeOK
    <3> QED
      BY <2>1, <2>3, <3>2, <3>3, TookKeeps, Zenon
  <2> QED
    BY <1>15, <2>2, <2>3, PipeBadDoes, Zenon
<1>16. ASSUME NEW s \in Slots, PipeSecond(s) PROVE Fresh'
  <2>1. pc[s] = "pipe" /\ state[s] = "run"
    BY <1>16, PipeSecondDoes, Zenon
  <2>2. PICK rf \in FileIds : rf = todo[s][1] /\ ref[rf] = 1
    BY <1>16, <2>1, PipeSecondDoes, Zenon DEF Fresh, FreshOf
  <2>3. PICK q \in FreePipes, wf \in FileIds :
          /\ PipeMade(s, q, wf)
          /\ PipeCloses(s, wf) \/ \E fd0, fd1 \in Fds : PipeOpens(s, wf, fd0, fd1)
    BY <1>16, PipeSecondDoes, Zenon
  <2>4. HasTodo(s, 1, rf)
    BY <2>1, <2>2 DEF HasTodo, TypeOK, InHand, HandOf
  <2>5. /\ \A h \in FileIds : h # wf => ref'[h] = ref[h]
        /\ \A h \in FileIds : h # rf /\ h # wf => obj'[h] = obj[h]
        /\ ref[wf] = 0 /\ ref'[wf] = 1
    BY <2>2, <2>3, Zenon DEF PipeMade, Took, TypeOK
  <2>6. pc'[s] \notin {"install", "pipe"} /\ \A u \in Slots : u # s => pc'[u] = pc[u]
    BY <2>3, Zenon DEF PipeCloses, PipeOpens, TypeOK
  <2>7. \A u \in Slots : u # s => ofile'[u] = ofile[u] /\ todo'[u] = todo[u]
    <3>1. CASE PipeCloses(s, wf)
      <4>1. PICK rest : todo' = [todo EXCEPT ![s] = rest]
        BY <3>1, Zenon DEF PipeCloses, Joins
      <4> QED
        BY <3>1, <4>1, Zenon DEF PipeCloses, TypeOK
    <3>2. ASSUME NEW fd0 \in Fds, NEW fd1 \in Fds, PipeOpens(s, wf, fd0, fd1)
          PROVE  \A u \in Slots : u # s => ofile'[u] = ofile[u] /\ todo'[u] = todo[u]
      BY <3>2, Zenon DEF PipeOpens, TypeOK
    <3> QED
      BY <2>3, <3>1, <3>2, Zenon
  <2>8. ASSUME NEW u \in Slots, u # s PROVE FreshOf(u)'
    <3>1. ASSUME pc[u] \in {"install", "pipe"}
          PROVE  todo[u][1] \in FileIds /\ ref[todo[u][1]] = 1 /\ todo[u][1] # rf
      BY <2>4, <2>8, <3>1, Private DEF Fresh, FreshOf
    <3>2. FreshOf(u)
      BY Zenon DEF Fresh
    <3>3. ASSUME pc[u] \in {"install", "pipe"}
          PROVE  ref'[todo[u][1]] = ref[todo[u][1]] /\ obj'[todo[u][1]] = obj[todo[u][1]]
      BY <2>5, <3>1, <3>3
    <3> QED
      BY <2>6, <2>7, <2>8, <3>2, <3>3, FreshKept, Zenon
  <2>9. FreshOf(s)'
    BY <2>6, Zenon DEF FreshOf
  <2>10. \A h \in FileIds : ref'[h] = 0 => obj'[h] = NoObj
    BY <2>2, <2>5 DEF Fresh
  <2> QED
    BY <2>8, <2>9, <2>10, Zenon DEF Fresh
<1>17. ASSUME NEW s \in Slots, NEW c \in Slots, ~threads, fork(s, c) PROVE Fresh'
  <2>1. /\ MayCall(s) /\ state[c] = "unused" /\ UNCHANGED <<obj, pc, todo>>
        /\ ofile' = [ofile EXCEPT ![c] = ofile[s]]
    BY <1>17, ForkDoes, Zenon
  <2>2. \A f \in FileIds : ref'[f] = ref[f] + Cardinality({fd \in Fds : ofile[s][fd] = f})
    BY <1>17, ForkDoes, Zenon
  <2>3. pc[c] = "user" /\ pc[s] = "user" /\ ~isthread[s]
    BY <2>1, Zenon DEF Slotwise, MayCall
  <2>4. ASSUME NEW u \in Slots, pc[u] \in {"install", "pipe"}
        PROVE  todo[u][1] \in FileIds /\ ref'[todo[u][1]] = ref[todo[u][1]]
    <3>1. u # s /\ todo[u][1] \in FileIds /\ \A fd \in Fds : ofile[s][fd] # todo[u][1]
      BY <2>3, <2>4, Private, Zenon
    <3>2. PICK g \in FileIds : g = todo[u][1]
      BY <3>1, Zenon
    <3>3. {fd \in Fds : ofile[s][fd] = g} = {}
      BY <3>1, <3>2, Zenon
    <3>4. PICK n \in Nat : n = Cardinality({fd \in Fds : ofile[s][fd] = g}) /\ n = 0
      BY <3>3, Zenon DEF Counting, FdsAreCounted
    <3>5. ref'[g] = ref[g] + n /\ ref[g] \in Nat
      BY <2>2, <3>4, Zenon DEF TypeOK
    <3>6. ref'[g] = ref[g]
      BY <3>4, <3>5
    <3> QED
      BY <3>2, <3>6, Zenon
  <2>5. ASSUME NEW u \in Slots, u # c PROVE FreshOf(u)'
    <3>1. FreshOf(u) /\ pc'[u] = pc[u] /\ todo'[u] = todo[u] /\ ofile'[u] = ofile[u]
      BY <2>1, <2>5, Zenon DEF Fresh, TypeOK
    <3> QED
      BY <2>1, <2>4, <3>1, FreshKept, Zenon
  <2>6. FreshOf(c)'
    BY <2>1, <2>3, Zenon DEF FreshOf
  <2>7. ASSUME NEW f \in FileIds, ref'[f] = 0 PROVE obj'[f] = NoObj
    <3>1. Cardinality({fd \in Fds : ofile[s][fd] = f}) \in Nat
      BY Zenon DEF Counting, FdsAreCounted
    <3>2. ref[f] = 0
      <4>1. PICK n \in Nat : n = Cardinality({fd \in Fds : ofile[s][fd] = f})
        BY <3>1, Zenon
      <4>2. ref'[f] = ref[f] + n /\ ref[f] \in Nat
        BY <2>2, <4>1, Zenon DEF TypeOK
      <4> QED
        BY <2>7, <4>2
    <3> QED
      BY <2>1, <3>2, Zenon DEF Fresh
  <2> QED
    BY <2>5, <2>6, <2>7, Zenon DEF Fresh
<1> QED
  BY <1>1, <1>3, <1>5, <1>6, <1>7, <1>8, <1>9, <1>10, <1>11, <1>12, <1>13, <1>14, <1>15, <1>16, <1>17
 , Zenon DEF Next



-----------------------------------------------------------------------------
\* How the references change

LEMMA CountSame ==
  ASSUME NEW g, NEW h, DOMAIN h = DOMAIN g, NEW v, \A x \in DOMAIN g : g[x] = v <=> h[x] = v
  PROVE  Count(h, v) = Count(g, v)
<1>1. {x \in DOMAIN g : g[x] = v} = {x \in DOMAIN h : h[x] = v}
  BY Zenon
<1> QED
  BY <1>1, Zenon DEF Count

\* Two places of the function change.
LEMMA CountTwo ==
  ASSUME Counting, NEW g, NEW h, IsFiniteSet(DOMAIN g), DOMAIN h = DOMAIN g,
         NEW x \in DOMAIN g, NEW y \in DOMAIN g, x # y,
         \A z \in DOMAIN g : z # x /\ z # y => h[z] = g[z], NEW v
  PROVE  Count(h, v) = Count(g, v) - One(g[x] = v) - One(g[y] = v) + One(h[x] = v) + One(h[y] = v)
<1>1. PICK m : m = [z \in DOMAIN g |-> IF z = x THEN h[x] ELSE g[z]]
  BY Zenon
<1>2. /\ DOMAIN m = DOMAIN g /\ m[x] = h[x] /\ m[y] = g[y]
      /\ \A z \in DOMAIN g : z # x => m[z] = g[z]
      /\ \A z \in DOMAIN m : z # y => h[z] = m[z]
  BY <1>1, Zenon
<1>3. Count(m, v) = Count(g, v) - One(g[x] = v) + One(m[x] = v)
  BY <1>2, CountMove
<1>4. Count(h, v) = Count(m, v) - One(m[y] = v) + One(h[y] = v)
  BY <1>2, CountMove
<1>5. Count(g, v) \in Nat
  BY CountType, Zenon
<1> QED
  BY <1>2, <1>3, <1>4, <1>5 DEF One

LEMMA FdSame ==
  ASSUME Counting, NEW f \in FileIds, \A t \in Slots, fd \in Fds : HasFd(t, fd, f)' <=> HasFd(t, fd, f)
  PROVE  Count(FdMap, f)' = Count(FdMap, f)
<1>1. PICK g, h : g = FdMap /\ h = FdMap'
  BY Zenon
<1>2. /\ DOMAIN g = Slots \X Fds /\ DOMAIN h = Slots \X Fds
      /\ \A t \in Slots, fd \in Fds : g[<<t, fd>>] = f <=> HasFd(t, fd, f)
      /\ \A t \in Slots, fd \in Fds : h[<<t, fd>>] = f <=> HasFd(t, fd, f)'
  BY <1>1, MapsAt, MapsAtNext
<1>3. \A x \in DOMAIN g : g[x] = f <=> h[x] = f
  BY <1>2
<1>4. Count(h, f) = Count(g, f)
  BY <1>2, <1>3, CountSame
<1> QED
  BY <1>1, <1>4, Zenon DEF Count

LEMMA TodoSame ==
  ASSUME Counting, NEW f \in FileIds, \A t \in Slots, i \in 1 .. 2 : HasTodo(t, i, f)' <=> HasTodo(t, i, f)
  PROVE  Count(TodoMap, f)' = Count(TodoMap, f)
<1>1. PICK g, h : g = TodoMap /\ h = TodoMap'
  BY Zenon
<1>2. /\ DOMAIN g = Slots \X (1 .. 2) /\ DOMAIN h = Slots \X (1 .. 2)
      /\ \A t \in Slots, i \in 1 .. 2 : g[<<t, i>>] = f <=> HasTodo(t, i, f)
      /\ \A t \in Slots, i \in 1 .. 2 : h[<<t, i>>] = f <=> HasTodo(t, i, f)'
  BY <1>1, MapsAt, MapsAtNext
<1>3. ASSUME NEW x \in DOMAIN g PROVE g[x] = f <=> h[x] = f
  <2>1. PICK t \in Slots, i \in 1 .. 2 : x = <<t, i>>
    BY <1>2
  <2> QED
    BY <1>2, <2>1, Zenon
<1>4. Count(h, f) = Count(g, f)
  BY <1>2, <1>3, CountSame
<1> QED
  BY <1>1, <1>4, Zenon DEF Count

\* One process changes what it still has to close.
LEMMA TodoChange ==
  ASSUME Counting, NEW s \in Slots, \A u \in Slots : u # s => pc'[u] = pc[u] /\ todo'[u] = todo[u],
         NEW f \in FileIds
  PROVE  Count(TodoMap, f)' = Count(TodoMap, f) - One(HasTodo(s, 1, f)) - One(HasTodo(s, 2, f))
                                + One(HasTodo(s, 1, f)') + One(HasTodo(s, 2, f)')
<1>1. PICK g, h : g = TodoMap /\ h = TodoMap'
  BY Zenon
<1>2. /\ DOMAIN g = Slots \X (1 .. 2) /\ DOMAIN h = Slots \X (1 .. 2) /\ IsFiniteSet(DOMAIN g)
      /\ \A t \in Slots, i \in 1 .. 2 : g[<<t, i>>] = f <=> HasTodo(t, i, f)
      /\ \A t \in Slots, i \in 1 .. 2 : h[<<t, i>>] = f <=> HasTodo(t, i, f)'
  BY <1>1, MapsAt, MapsAtNext
<1>3. \A t \in Slots, i \in 1 .. 2 : t # s => h[<<t, i>>] = g[<<t, i>>]
  BY <1>1, Zenon DEF TodoMap
<1>4. PICK x, y : x = <<s, 1>> /\ y = <<s, 2>>
  BY Zenon
<1>5. x \in DOMAIN g /\ y \in DOMAIN g /\ x # y
  BY <1>2, <1>4, SMTT(30)
<1>6. Count(h, f) = Count(g, f) - One(g[x] = f) - One(g[y] = f) + One(h[x] = f) + One(h[y] = f)
  <2>1. ASSUME NEW z \in DOMAIN g, z # x, z # y PROVE h[z] = g[z]
    <3>1. PICK t \in Slots, i \in 1 .. 2 : z = <<t, i>>
      BY <1>2
    <3>2. i = 1 \/ i = 2
      OBVIOUS
    <3> QED
      BY <1>3, <1>4, <2>1, <3>1, <3>2, Zenon
  <2> QED
    BY <1>2, <1>5, <2>1, CountTwo
<1>7. /\ g[x] = f <=> HasTodo(s, 1, f)
      /\ g[y] = f <=> HasTodo(s, 2, f)
      /\ h[x] = f <=> HasTodo(s, 1, f)'
      /\ h[y] = f <=> HasTodo(s, 2, f)'
  BY <1>2, <1>4
<1>8. Count(TodoMap, f)' = Count(h, f) /\ Count(TodoMap, f) = Count(g, f)
  BY <1>1, Zenon DEF Count
<1> QED
  BY <1>6, <1>7, <1>8, Zenon DEF One

\* One descriptor, or two of one process, change.
LEMMA FdChange ==
  ASSUME Counting, NEW s \in Slots, NEW fd \in Fds, UNCHANGED isthread,
         \A t \in Slots, gd \in Fds : <<t, gd>> # <<s, fd>> => ofile'[t][gd] = ofile[t][gd],
         NEW f \in FileIds
  PROVE  Count(FdMap, f)' = Count(FdMap, f) - One(HasFd(s, fd, f)) + One(HasFd(s, fd, f)')
<1>1. PICK g, h : g = FdMap /\ h = FdMap'
  BY Zenon
<1>2. /\ DOMAIN g = Slots \X Fds /\ DOMAIN h = Slots \X Fds /\ IsFiniteSet(DOMAIN g)
      /\ \A t \in Slots, gd \in Fds : g[<<t, gd>>] = f <=> HasFd(t, gd, f)
      /\ \A t \in Slots, gd \in Fds : h[<<t, gd>>] = f <=> HasFd(t, gd, f)'
  BY <1>1, MapsAt, MapsAtNext
<1>3. \A t \in Slots, gd \in Fds : <<t, gd>> # <<s, fd>> => h[<<t, gd>>] = g[<<t, gd>>]
  BY <1>1, Zenon DEF FdMap
<1>4. PICK x : x = <<s, fd>>
  BY Zenon
<1>5. x \in DOMAIN g /\ \A z \in DOMAIN g : z # x => h[z] = g[z]
  BY <1>2, <1>3, <1>4, SMTT(30)
<1>6. Count(h, f) = Count(g, f) - One(g[x] = f) + One(h[x] = f)
  BY <1>2, <1>5, CountMove
<1>7. (g[x] = f <=> HasFd(s, fd, f)) /\ (h[x] = f <=> HasFd(s, fd, f)')
  BY <1>2, <1>4, Zenon
<1>8. Count(FdMap, f)' = Count(h, f) /\ Count(FdMap, f) = Count(g, f)
  BY <1>1, Zenon DEF Count
<1> QED
  BY <1>6, <1>7, <1>8, Zenon DEF One

LEMMA FdChangeTwo ==
  ASSUME Counting, NEW s \in Slots, NEW fd0 \in Fds, NEW fd1 \in Fds, fd0 # fd1, UNCHANGED isthread,
         \A t \in Slots, gd \in Fds :
           <<t, gd>> # <<s, fd0>> /\ <<t, gd>> # <<s, fd1>> => ofile'[t][gd] = ofile[t][gd],
         NEW f \in FileIds
  PROVE  Count(FdMap, f)' = Count(FdMap, f) - One(HasFd(s, fd0, f)) - One(HasFd(s, fd1, f))
                              + One(HasFd(s, fd0, f)') + One(HasFd(s, fd1, f)')
<1>1. PICK g, h : g = FdMap /\ h = FdMap'
  BY Zenon
<1>2. /\ DOMAIN g = Slots \X Fds /\ DOMAIN h = Slots \X Fds /\ IsFiniteSet(DOMAIN g)
      /\ \A t \in Slots, gd \in Fds : g[<<t, gd>>] = f <=> HasFd(t, gd, f)
      /\ \A t \in Slots, gd \in Fds : h[<<t, gd>>] = f <=> HasFd(t, gd, f)'
  BY <1>1, MapsAt, MapsAtNext
<1>3. \A t \in Slots, gd \in Fds :
        <<t, gd>> # <<s, fd0>> /\ <<t, gd>> # <<s, fd1>> => h[<<t, gd>>] = g[<<t, gd>>]
  BY <1>1, Zenon DEF FdMap
<1>4. PICK x, y : x = <<s, fd0>> /\ y = <<s, fd1>>
  BY Zenon
<1>5. x \in DOMAIN g /\ y \in DOMAIN g /\ x # y /\ \A z \in DOMAIN g : z # x /\ z # y => h[z] = g[z]
  BY <1>2, <1>3, <1>4, SMTT(30)
<1>6. Count(h, f) = Count(g, f) - One(g[x] = f) - One(g[y] = f) + One(h[x] = f) + One(h[y] = f)
  BY <1>2, <1>5, CountTwo
<1>7. /\ g[x] = f <=> HasFd(s, fd0, f)
      /\ g[y] = f <=> HasFd(s, fd1, f)
      /\ h[x] = f <=> HasFd(s, fd0, f)'
      /\ h[y] = f <=> HasFd(s, fd1, f)'
  BY <1>2, <1>4, Zenon
<1>8. Count(FdMap, f)' = Count(h, f) /\ Count(FdMap, f) = Count(g, f)
  BY <1>1, Zenon DEF Count
<1> QED
  BY <1>6, <1>7, <1>8, Zenon DEF One

LEMMA NoTodo ==
  ASSUME NEW s \in Slots, NEW f
  PROVE  /\ todo[s] = <<>> => ~HasTodo(s, 1, f) /\ ~HasTodo(s, 2, f)
         /\ todo'[s] = <<>> => ~HasTodo(s, 1, f)' /\ ~HasTodo(s, 2, f)'
  BY DEF HasTodo

LEMMA OneTodo ==
  ASSUME NEW s \in Slots, NEW g, todo'[s] = <<g>>, NEW f
  PROVE  (HasTodo(s, 1, f)' <=> pc'[s] # "install" /\ g = f) /\ ~HasTodo(s, 2, f)'
  BY DEF HasTodo

LEMMA TookAdds ==
  ASSUME TypeOK, NEW g \in FileIds, Took(g), NEW f \in FileIds
  PROVE  ref'[f] = ref[f] + One(g = f) /\ ref[f] \in Nat
  BY DEF TypeOK, Took, One

LEMMA RefsQuiet ==
  ASSUME Counting, TypeOK, Refs, UNCHANGED ref,
         \A f \in FileIds, t \in Slots, fd \in Fds : HasFd(t, fd, f)' <=> HasFd(t, fd, f),
         \A f \in FileIds, t \in Slots, i \in 1 .. 2 : HasTodo(t, i, f)' <=> HasTodo(t, i, f)
  PROVE  Refs'
<1>1. ASSUME NEW f \in FileIds
      PROVE  Count(FdMap, f)' = Count(FdMap, f) /\ Count(TodoMap, f)' = Count(TodoMap, f)
  BY FdSame, TodoSame, Zenon
<1> QED
  BY <1>1, Zenon DEF Refs

\* fork: the child's descriptors are new references.
LEMMA ForkAdds ==
  ASSUME Counting, TypeOK, NEW s \in Slots, NEW c \in Slots, c # s, ~isthread[s], ~isthread[c],
         \A fd \in Fds : ofile[c][fd] = NoFile,
         isthread' = [isthread EXCEPT ![c] = FALSE], ofile' = [ofile EXCEPT ![c] = ofile[s]],
         NEW f \in FileIds
  PROVE  Count(FdMap, f)' = Count(FdMap, f) + Cardinality({fd \in Fds : ofile[s][fd] = f})
<1>1. PICK A : A = {fd \in Fds : ofile[s][fd] = f}
  BY Zenon
<1>2. PICK g, h : g = FdMap /\ h = FdMap'
  BY Zenon
<1>3. /\ DOMAIN g = Slots \X Fds /\ DOMAIN h = Slots \X Fds /\ IsFiniteSet(DOMAIN g)
      /\ \A t \in Slots, fd \in Fds : g[<<t, fd>>] = f <=> HasFd(t, fd, f)
      /\ \A t \in Slots, fd \in Fds : h[<<t, fd>>] = f <=> HasFd(t, fd, f)'
  BY <1>2, MapsAt, MapsAtNext
<1>4. PICK G, H : G = {x \in DOMAIN g : g[x] = f} /\ H = {x \in DOMAIN h : h[x] = f}
  BY Zenon
<1>5. \A t \in Slots, fd \in Fds : HasFd(t, fd, f)' <=> IF t = c THEN fd \in A ELSE HasFd(t, fd, f)
  BY <1>1, Zenon DEF HasFd, TypeOK
<1>6. \A fd \in Fds : ~HasFd(c, fd, f)
  BY Basics, Zenon DEF HasFd
<1>7. \A t \in Slots, fd \in Fds : <<t, fd>> \in H <=> <<t, fd>> \in G \/ (t = c /\ fd \in A)
  BY <1>3, <1>4, <1>5, <1>6, Zenon
<1>8. G \subseteq Slots \X Fds /\ H \subseteq Slots \X Fds /\ A \subseteq Fds
  BY <1>1, <1>3, <1>4, Zenon
<1>9. H = G \cup ({c} \X A)
  BY <1>7, <1>8
<1>10. G \cap ({c} \X A) = {}
  BY <1>3, <1>4, <1>6, <1>8
<1>11. IsFiniteSet(G)
  <2>1. IsFiniteSet(DOMAIN g)
    BY <1>3, Zenon
  <2>2. IsFiniteSet({x \in DOMAIN g : g[x] = f})
    BY <2>1, CountType, Zenon
  <2> QED
    BY <1>4, <2>2, Zenon
<1>12. Cardinality(G \cup ({c} \X A)) = Cardinality(G) + Cardinality(A)
  <2>1. A \in SUBSET Fds
    BY <1>8, Zenon
  <2>2. FdsAreCounted
    BY Zenon DEF Counting
  <2>3. \A e, K : IsFiniteSet(K) /\ K \cap ({e} \X A) = {}
                => Cardinality(K \cup ({e} \X A)) = Cardinality(K) + Cardinality(A)
    BY <2>1, <2>2, Zenon DEF FdsAreCounted
  <2> QED
    BY <1>10, <1>11, <2>3, Zenon
<1>13. Count(FdMap, f)' = Cardinality(H) /\ Count(FdMap, f) = Cardinality(G)
  BY <1>2, <1>4, Zenon DEF Count
<1> QED
  BY <1>1, <1>9, <1>12, <1>13, Zenon

LEMMA RefsStep ==
  ASSUME Counting, TypeOK, InHand, Slotwise, Fresh, Refs, [Next]_vars
  PROVE  Refs'
<1>1. CASE UNCHANGED vars
  BY <1>1, RefsQuiet, Zenon DEF HasFd, HasTodo, vars, files, procs
<1>2. ASSUME NEW s \in Slots, NEW ip \in Inodes, sys_open(s, ip) \/ sys_chdir(s, ip) PROVE Refs'
  <2>1. UNCHANGED <<ref, isthread, ofile, todo>> /\ todo[s] = <<>>
    BY <1>2, Zenon DEF sys_open, sys_chdir, MayCall, InHand, HandOf, files, procs
  <2>2. \A u \in Slots : u # s => pc'[u] = pc[u]
    BY <1>2, Zenon DEF sys_open, sys_chdir, Goes, TypeOK
  <2> QED
    BY <2>1, <2>2, RefsQuiet DEF HasFd, HasTodo
<1>3. ASSUME NEW s \in Slots, NEW fd \in Fds, Closes(s, fd), UNCHANGED <<ref, isthread>>, ~isthread[s],
             todo[s] = <<>>
      PROVE  Refs'
  <2>1. PICK g \in FileIds : g = ofile[s][fd]
    BY <1>3, Zenon DEF Closes
  <2>2. /\ todo'[s] = <<g>> /\ pc'[s] = "close" /\ ofile'[s][fd] = NoFile
        /\ \A u \in Slots : u # s => pc'[u] = pc[u] /\ todo'[u] = todo[u]
        /\ \A t \in Slots, gd \in Fds : <<t, gd>> # <<s, fd>> => ofile'[t][gd] = ofile[t][gd]
    BY <1>3, <2>1, Zenon DEF Closes, TypeOK
  <2>3. ASSUME NEW f \in FileIds
        PROVE  /\ Count(FdMap, f)' = Count(FdMap, f) - One(g = f)
               /\ Count(TodoMap, f)' = Count(TodoMap, f) + One(g = f)
    <3>1. Count(FdMap, f)' = Count(FdMap, f) - One(HasFd(s, fd, f)) + One(HasFd(s, fd, f)')
      BY <1>3, <2>2, FdChange, Zenon
    <3>2. (HasFd(s, fd, f) <=> g = f) /\ ~HasFd(s, fd, f)'
      BY <1>3, <2>1, <2>2, Basics, Zenon DEF HasFd
    <3>3. Count(TodoMap, f)' = Count(TodoMap, f) - One(HasTodo(s, 1, f)) - One(HasTodo(s, 2, f))
                                + One(HasTodo(s, 1, f)') + One(HasTodo(s, 2, f)')
      BY <2>2, TodoChange, Zenon
    <3>4. ~HasTodo(s, 1, f) /\ ~HasTodo(s, 2, f) /\ (HasTodo(s, 1, f)' <=> g = f) /\ ~HasTodo(s, 2, f)'
      BY <1>3, <2>2, NoTodo, OneTodo, SMTT(30)
    <3> QED
      BY <3>1, <3>2, <3>3, <3>4, RefsNat DEF One
  <2>4. ASSUME NEW f \in FileIds PROVE ref'[f] = ref[f] - One(g = f) + One(g = f) /\ One(g = f) \in Int
    BY <1>3 DEF TypeOK, One
  <2> QED
    BY <2>3, <2>4, RefsNat DEF Refs, One
<1>4. ASSUME NEW s \in Slots, NEW fd \in Fds, sys_close(s, fd) PROVE Refs'
  <2>1. UNCHANGED <<files, procs>> /\ Closes(s, fd) /\ MayCall(s)
    BY <1>4, CloseFdDoes, Zenon
  <2> QED
    BY <1>3, <2>1, Zenon DEF MayCall, InHand, HandOf, files, procs
<1>5. ASSUME NEW s \in Slots, ExitClose(s) PROVE Refs'
  <2>1. UNCHANGED <<files, procs>> /\ ~isthread[s] /\ pc[s] = "exit" /\ \E fd \in Fds : Closes(s, fd)
    BY <1>5, ExitCloseDoes, Zenon
  <2> QED
    BY <1>3, <2>1, Zenon DEF InHand, HandOf, files, procs
<1>6. ASSUME NEW s \in Slots, NEW fd \in Fds, sys_dup(s, fd) PROVE Refs'
  <2>1. UNCHANGED <<procs, pc, todo>> /\ MayCall(s)
    BY <1>6, DupDoes, Zenon
  <2>2. PICK g \in FileIds, new \in Fds : Dups(s, g, new)
    BY <1>6, DupDoes, Zenon
  <2>3. /\ ofile[s][new] = NoFile /\ ofile'[s][new] = g /\ UNCHANGED isthread /\ ~isthread[s]
        /\ \A t \in Slots, gd \in Fds : <<t, gd>> # <<s, new>> => ofile'[t][gd] = ofile[t][gd]
    BY <2>1, <2>2, Zenon DEF Dups, TypeOK, MayCall, procs
  <2>4. ASSUME NEW f \in FileIds
        PROVE  Count(FdMap, f)' = Count(FdMap, f) + One(g = f) /\ Count(TodoMap, f)' = Count(TodoMap, f)
    <3>1. Count(FdMap, f)' = Count(FdMap, f) - One(HasFd(s, new, f)) + One(HasFd(s, new, f)')
      BY <2>3, FdChange, Zenon
    <3>2. ~HasFd(s, new, f) /\ (HasFd(s, new, f)' <=> g = f)
      BY <2>3, Basics, Zenon DEF HasFd
    <3>3. Count(TodoMap, f)' = Count(TodoMap, f)
      BY <2>1, TodoSame, Zenon DEF HasTodo
    <3> QED
      BY <3>1, <3>2, <3>3, RefsNat DEF One
  <2>5. ASSUME NEW f \in FileIds PROVE ref'[f] = ref[f] + One(g = f)
    BY <2>2 DEF Dups, TypeOK, One
  <2> QED
    BY <2>4, <2>5, RefsNat DEF Refs, One
<1>7. ASSUME NEW s \in Slots, NEW g \in FileIds, Took(g), todo' = [todo EXCEPT ![s] = <<g>>],
             pc' \in {[pc EXCEPT ![s] = "close"], [pc EXCEPT ![s] = "pipe"]}, UNCHANGED <<isthread, ofile>>,
             todo[s] = <<>>
      PROVE  Refs'
  <2>1. /\ todo'[s] = <<g>> /\ pc'[s] # "install"
        /\ \A u \in Slots : u # s => pc'[u] = pc[u] /\ todo'[u] = todo[u]
    BY <1>7, Zenon DEF TypeOK
  <2>2. ASSUME NEW f \in FileIds
        PROVE  Count(FdMap, f)' = Count(FdMap, f) /\ Count(TodoMap, f)' = Count(TodoMap, f) + One(g = f)
    <3>1. Count(FdMap, f)' = Count(FdMap, f)
      BY <1>7, FdSame, Zenon DEF HasFd
    <3>2. Count(TodoMap, f)' = Count(TodoMap, f) - One(HasTodo(s, 1, f)) - One(HasTodo(s, 2, f))
                                + One(HasTodo(s, 1, f)') + One(HasTodo(s, 2, f)')
      BY <2>1, TodoChange, Zenon
    <3>3. ~HasTodo(s, 1, f) /\ ~HasTodo(s, 2, f) /\ (HasTodo(s, 1, f)' <=> g = f) /\ ~HasTodo(s, 2, f)'
      BY <1>7, <2>1, NoTodo, OneTodo, SMTT(30)
    <3> QED
      BY <3>1, <3>2, <3>3, RefsNat DEF One
  <2>3. ASSUME NEW f \in FileIds PROVE ref'[f] = ref[f] + One(g = f)
    BY <1>7, TookAdds
  <2> QED
    BY <2>2, <2>3, RefsNat DEF Refs, One
<1>8. ASSUME NEW s \in Slots, PipeFirst(s) PROVE Refs'
  <2>1. UNCHANGED <<procs, ofile>> /\ pc' = [pc EXCEPT ![s] = "pipe"] /\ MayCall(s)
    BY <1>8, PipeFirstDoes, Zenon
  <2>2. PICK f \in FileIds : Took(f) /\ todo' = [todo EXCEPT ![s] = <<f>>]
    BY <1>8, PipeFirstDoes, Zenon
  <2> QED
    BY <1>7, <2>1, <2>2, Zenon DEF MayCall, InHand, HandOf, procs
<1>9. ASSUME NEW s \in Slots, OpenAlloc(s) PROVE Refs'
  <2>1. UNCHANGED procs /\ pc[s] = "filealloc"
    BY <1>9, OpenAllocDoes, Zenon
  <2>2. todo[s] = <<>> /\ UNCHANGED isthread /\ ~isthread[s]
    BY <2>1, Zenon DEF InHand, HandOf, Slotwise, procs
  <2>3. CASE OpenNoFile(s)
    <3>1. UNCHANGED <<ref, ofile, todo>> /\ \A u \in Slots : u # s => pc'[u] = pc[u]
      BY <2>3, Zenon DEF OpenNoFile, TypeOK
    <3> QED
      BY <2>2, <3>1, RefsQuiet DEF HasFd, HasTodo
  <2>4. ASSUME NEW f \in FileIds, OpenNoFd(s, f) PROVE Refs'
    BY <1>7, <2>2, <2>4, Zenon DEF OpenNoFd
  <2>5. ASSUME NEW g \in FileIds, NEW fd \in Fds, OpenTakes(s, g, fd) PROVE Refs'
    <3>1. /\ ofile[s][fd] = NoFile /\ ofile'[s][fd] = g /\ pc'[s] = "install"
          /\ \A t \in Slots, gd \in Fds : <<t, gd>> # <<s, fd>> => ofile'[t][gd] = ofile[t][gd]
          /\ \A u \in Slots : u # s => pc'[u] = pc[u] /\ todo'[u] = todo[u]
      BY <2>5, Zenon DEF OpenTakes, TypeOK
    <3>2. ASSUME NEW f \in FileIds
          PROVE  Count(FdMap, f)' = Count(FdMap, f) + One(g = f) /\ Count(TodoMap, f)' = Count(TodoMap, f)
      <4>1. Count(FdMap, f)' = Count(FdMap, f) - One(HasFd(s, fd, f)) + One(HasFd(s, fd, f)')
        BY <2>2, <3>1, FdChange, Zenon
      <4>2. ~HasFd(s, fd, f) /\ (HasFd(s, fd, f)' <=> g = f)
        BY <2>2, <3>1, Basics, Zenon DEF HasFd
      <4>3. \A i \in 1 .. 2 : ~HasTodo(s, i, f) /\ ~HasTodo(s, i, f)'
        BY <2>2, <3>1 DEF HasTodo
      <4>4. Count(TodoMap, f)' = Count(TodoMap, f)
        <5>1. ASSUME NEW t \in Slots, NEW i \in 1 .. 2 PROVE HasTodo(t, i, f)' <=> HasTodo(t, i, f)
          BY <3>1, <4>3, Zenon DEF HasTodo
        <5> QED
          BY <5>1, TodoSame, Zenon
      <4> QED
        BY <4>1, <4>2, <4>4, RefsNat DEF One
    <3>3. ASSUME NEW f \in FileIds PROVE ref'[f] = ref[f] + One(g = f)
      BY <2>5, TookAdds DEF OpenTakes
    <3> QED
      BY <3>2, <3>3, RefsNat DEF Refs, One
  <2> QED
    BY <1>9, <2>3, <2>4, <2>5, OpenAllocDoes, Zenon
<1>10. ASSUME NEW s \in Slots, Install(s) PROVE Refs'
  <2>1. UNCHANGED <<ref, procs, ofile>> /\ pc[s] = "install"
    BY <1>10, Zenon DEF Install, Goes
  <2>2. todo'[s] = <<>> /\ \A u \in Slots : u # s => pc'[u] = pc[u] /\ todo'[u] = todo[u]
    BY <1>10, Zenon DEF Install, Goes, TypeOK
  <2>3. \A f \in FileIds, i \in 1 .. 2 : ~HasTodo(s, i, f) /\ ~HasTodo(s, i, f)'
    BY <2>1, <2>2 DEF HasTodo
  <2>4. ASSUME NEW f \in FileIds, NEW t \in Slots, NEW i \in 1 .. 2
        PROVE  HasTodo(t, i, f)' <=> HasTodo(t, i, f)
    BY <2>2, <2>3, Zenon DEF HasTodo
  <2>5. \A f \in FileIds, t \in Slots, fd \in Fds : HasFd(t, fd, f)' <=> HasFd(t, fd, f)
    BY <2>1, Zenon DEF HasFd, procs
  <2> QED
    BY <2>1, <2>4, <2>5, RefsQuiet, Zenon
<1>11. ASSUME NEW s \in Slots, fileclose(s) PROVE Refs'
  <2>1. PICK g \in FileIds : g = todo[s][1]
    BY <1>11, CloseDoes, Zenon
  <2>2. /\ pc[s] = "close" /\ todo[s] # <<>> /\ UNCHANGED <<ofile, procs>>
        /\ todo' = [todo EXCEPT ![s] = Tail(todo[s])] /\ Tail(todo[s]) \in Seq(FileIds)
        /\ ref' = [ref EXCEPT ![g] = @ - 1] /\ ref[g] >= 1
        /\ Drops(s, g) \/ DropsLast(s, g)
    BY <1>11, <2>1, CloseDoes, Zenon
  <2>3. pc'[s] # "install" /\ todo'[s] = Tail(todo[s])
    BY <2>2, Zenon DEF Drops, DropsLast, TypeOK
  <2>4. \A u \in Slots : u # s => pc'[u] = pc[u] /\ todo'[u] = todo[u]
    BY <2>2, Zenon DEF Drops, DropsLast, TypeOK
  <2>5. PICK t \in Seq(FileIds) : t = todo[s] /\ t # <<>> /\ Len(t) <= 2
    BY <2>2, Zenon DEF TypeOK, InHand, HandOf
  <2>6. ASSUME NEW f \in FileIds
        PROVE  /\ HasTodo(s, 1, f) <=> g = f
               /\ HasTodo(s, 1, f)' <=> HasTodo(s, 2, f)
               /\ ~HasTodo(s, 2, f)'
    <3>1. PICK r \in Seq(FileIds) : r = Tail(t)
      BY <2>2, <2>5, Zenon
    <3>2. Len(r) = Len(t) - 1 /\ Len(t) >= 1 /\ (Len(t) = 2 => r[1] = t[2])
      BY <2>5, <3>1
    <3>3. /\ 1 \in DOMAIN t /\ 2 \notin DOMAIN r
          /\ 1 \in DOMAIN r <=> 2 \in DOMAIN t
          /\ 2 \in DOMAIN t => r[1] = t[2]
      <4>1. DOMAIN t = 1 .. Len(t) /\ DOMAIN r = 1 .. Len(r) /\ Len(t) \in Nat
        OBVIOUS
      <4>2. CASE Len(t) = 1 /\ Len(r) = 0
        BY <4>1, <4>2
      <4>3. CASE Len(t) = 2 /\ Len(r) = 1
        BY <3>2, <4>1, <4>3
      <4>4. PICK n \in Nat : n = Len(t) /\ 1 <= n /\ n <= 2
        BY <2>5, <3>2, <4>1, Zenon
      <4>5. n = 1 \/ n = 2
        BY <4>4
      <4> QED
        BY <3>2, <4>2, <4>3, <4>4, <4>5
    <3> QED
      BY <2>1, <2>2, <2>3, <2>5, <3>1, <3>3, Zenon DEF HasTodo
  <2>7. ASSUME NEW f \in FileIds
        PROVE  Count(FdMap, f)' = Count(FdMap, f) /\ Count(TodoMap, f)' = Count(TodoMap, f) - One(g = f)
    <3>1. Count(FdMap, f)' = Count(FdMap, f)
      BY <2>2, FdSame, Zenon DEF HasFd, procs
    <3>2. Count(TodoMap, f)' = Count(TodoMap, f) - One(HasTodo(s, 1, f)) - One(HasTodo(s, 2, f))
                                + One(HasTodo(s, 1, f)') + One(HasTodo(s, 2, f)')
      BY <2>4, TodoChange, Zenon
    <3> QED
      BY <2>6, <3>1, <3>2, RefsNat DEF One
  <2>8. ASSUME NEW f \in FileIds PROVE ref'[f] = ref[f] - One(g = f) /\ One(g = f) \in Int
    BY <2>2 DEF TypeOK, One
  <2>9. ASSUME NEW f \in FileIds PROVE ref'[f] = Count(FdMap, f)' + Count(TodoMap, f)'
    <3>1. ref[f] = Count(FdMap, f) + Count(TodoMap, f)
      BY Zenon DEF Refs
    <3> QED
      BY <2>7, <2>8, <3>1, RefsNat
  <2> QED
    BY <2>9, Zenon DEF Refs
<1>12. ASSUME NEW s \in Slots, Release(s) \/ Closed(s) \/ exit(s) \/ ExitDone(s) PROVE Refs'
  <2>1. UNCHANGED <<ref, isthread, ofile, todo>>
    BY <1>12, Zenon DEF Release, Closed, exit, ExitDone, files, procs
  <2>2. pc[s] # "install" /\ pc'[s] # "install" /\ \A u \in Slots : u # s => pc'[u] = pc[u]
    BY <1>12, Zenon DEF Release, Closed, exit, ExitDone, Goes, TypeOK
  <2> QED
    BY <2>1, <2>2, RefsQuiet, Zenon DEF HasFd, HasTodo
<1>14. ASSUME NEW s \in Slots, NEW wf \in FileIds, pc[s] = "pipe", Joins(s, wf), Took(wf),
              pc' = [pc EXCEPT ![s] = "close"], UNCHANGED <<ofile, isthread>>
       PROVE  Refs'
  <2>1. ASSUME NEW f \in FileIds
        PROVE  /\ Count(FdMap, f)' = Count(FdMap, f)
               /\ Count(TodoMap, f)' = Count(TodoMap, f) + One(wf = f)
               /\ ref'[f] = ref[f] + One(wf = f)
    <3>1. Count(FdMap, f)' = Count(FdMap, f)
      BY <1>14, FdSame, Zenon DEF HasFd
    <3>2. Count(TodoMap, f)' = Count(TodoMap, f) + One(wf = f)
      <4>1. PICK rest \in Seq(FileIds) :
              Len(rest) = 2 /\ rest[1] = todo[s][1] /\ rest[2] = wf /\ todo' = [todo EXCEPT ![s] = rest]
        BY <1>14, Zenon DEF Joins
      <4>2. Len(todo[s]) = 1 /\ todo[s] \in Seq(FileIds)
        BY <1>14, Zenon DEF InHand, HandOf, TypeOK
      <4>3. /\ todo'[s] = rest /\ pc'[s] = "close"
            /\ \A u \in Slots : u # s => pc'[u] = pc[u] /\ todo'[u] = todo[u]
        BY <1>14, <4>1, Zenon DEF TypeOK
      <4>4. 1 \in DOMAIN rest /\ 2 \in DOMAIN rest /\ 1 \in DOMAIN todo[s] /\ 2 \notin DOMAIN todo[s]
        BY <4>1, <4>2
      <4>5. /\ HasTodo(s, 1, f)' <=> HasTodo(s, 1, f)
            /\ HasTodo(s, 2, f)' <=> wf = f
            /\ ~HasTodo(s, 2, f)
        BY <1>14, <4>1, <4>3, <4>4, Zenon DEF HasTodo
      <4>6. Count(TodoMap, f)' = Count(TodoMap, f) - One(HasTodo(s, 1, f)) - One(HasTodo(s, 2, f))
                                  + One(HasTodo(s, 1, f)') + One(HasTodo(s, 2, f)')
        BY <4>3, TodoChange, Zenon
      <4> QED
        BY <4>5, <4>6, RefsNat DEF One
    <3>3. ref'[f] = ref[f] + One(wf = f)
      BY <1>14, TookAdds
    <3> QED
      BY <3>1, <3>2, <3>3, Zenon
  <2> QED
    BY <2>1, RefsNat DEF Refs, One
<1>15. ASSUME NEW s \in Slots, PipeBad(s) PROVE Refs'
  <2>1. UNCHANGED <<procs, ofile>> /\ pc[s] = "pipe" /\ pc' = [pc EXCEPT ![s] = "close"]
    BY <1>15, PipeBadDoes, Zenon
  <2>2. CASE UNCHANGED <<ref, todo>>
    <3>1. pc'[s] = "close" /\ \A u \in Slots : u # s => pc'[u] = pc[u]
      BY <2>1, Zenon DEF TypeOK
    <3> QED
      BY <2>1, <2>2, <3>1, RefsQuiet, Zenon DEF HasFd, HasTodo, procs
  <2>3. ASSUME NEW f \in FileIds, Took(f), Joins(s, f) PROVE Refs'
    BY <1>14, <2>1, <2>3, Zenon DEF procs
  <2> QED
    BY <1>15, <2>2, <2>3, PipeBadDoes, Zenon
<1>16. ASSUME NEW s \in Slots, PipeSecond(s) PROVE Refs'
  <2>1. pc[s] = "pipe" /\ UNCHANGED procs
    BY <1>16, PipeSecondDoes, Zenon
  <2>2. PICK rf \in FileIds : rf = todo[s][1]
    BY <1>16, PipeSecondDoes, Zenon
  <2>3. PICK wf \in FileIds :
          Took(wf) /\ (PipeCloses(s, wf) \/ \E fd0, fd1 \in Fds : PipeOpens(s, wf, fd0, fd1))
    BY <1>16, PipeSecondDoes, Zenon DEF PipeMade
  <2>4. CASE PipeCloses(s, wf)
    BY <1>14, <2>1, <2>3, <2>4, Zenon DEF PipeCloses, procs
  <2>5. ASSUME NEW fd0 \in Fds, NEW fd1 \in Fds, PipeOpens(s, wf, fd0, fd1) PROVE Refs'
    <3>1. fd0 # fd1 /\ ofile[s][fd0] = NoFile /\ ofile[s][fd1] = NoFile /\ ~isthread[s] /\ UNCHANGED isthread
      BY <2>1, <2>5, Zenon DEF PipeOpens, Slotwise, procs
    <3>2. PICK new : new = [ofile[s] EXCEPT ![fd0] = rf, ![fd1] = wf]
      BY Zenon
    <3>3. ofile' = [ofile EXCEPT ![s] = new]
      BY <2>2, <2>5, <3>2, Zenon DEF PipeOpens, TypeOK
    <3>4. new[fd0] = rf /\ new[fd1] = wf /\ \A gd \in Fds : gd # fd0 /\ gd # fd1 => new[gd] = ofile[s][gd]
      BY <3>1, <3>2, Zenon DEF TypeOK
    <3>5. /\ ofile'[s][fd0] = rf /\ ofile'[s][fd1] = wf
          /\ \A t \in Slots, gd \in Fds :
               <<t, gd>> # <<s, fd0>> /\ <<t, gd>> # <<s, fd1>> => ofile'[t][gd] = ofile[t][gd]
      BY <3>3, <3>4, Zenon DEF TypeOK
    <3>6. todo'[s] = <<>> /\ \A u \in Slots : u # s => pc'[u] = pc[u] /\ todo'[u] = todo[u]
      BY <2>5, Zenon DEF PipeOpens, TypeOK
    <3>7. Len(todo[s]) = 1 /\ todo[s] \in Seq(FileIds)
      BY <2>1, Zenon DEF InHand, HandOf, TypeOK
    <3>8. ASSUME NEW f \in FileIds
          PROVE  Count(FdMap, f)' = Count(FdMap, f) + One(rf = f) + One(wf = f)
      <4>1. Count(FdMap, f)' = Count(FdMap, f) - One(HasFd(s, fd0, f)) - One(HasFd(s, fd1, f))
                                + One(HasFd(s, fd0, f)') + One(HasFd(s, fd1, f)')
        BY <3>1, <3>5, FdChangeTwo, Zenon
      <4>2. /\ ~HasFd(s, fd0, f) /\ ~HasFd(s, fd1, f)
            /\ HasFd(s, fd0, f)' <=> rf = f
            /\ HasFd(s, fd1, f)' <=> wf = f
        BY <3>1, <3>5, Basics, Zenon DEF HasFd
      <4> QED
        BY <4>1, <4>2, RefsNat DEF One
    <3>9. ASSUME NEW f \in FileIds
          PROVE  Count(TodoMap, f)' = Count(TodoMap, f) - One(rf = f)
      <4>1. Count(TodoMap, f)' = Count(TodoMap, f) - One(HasTodo(s, 1, f)) - One(HasTodo(s, 2, f))
                                  + One(HasTodo(s, 1, f)') + One(HasTodo(s, 2, f)')
        BY <3>6, TodoChange, Zenon
      <4>2. ~HasTodo(s, 1, f)' /\ ~HasTodo(s, 2, f)'
        BY <3>6, NoTodo, Zenon
      <4>3. (HasTodo(s, 1, f) <=> rf = f) /\ ~HasTodo(s, 2, f)
        BY <2>1, <2>2, <3>7, SMTT(30) DEF HasTodo
      <4> QED
        BY <4>1, <4>2, <4>3, RefsNat DEF One
    <3>10. ASSUME NEW f \in FileIds PROVE ref'[f] = ref[f] + One(wf = f)
      BY <2>3, TookAdds
    <3> QED
      BY <3>8, <3>9, <3>10, RefsNat DEF Refs, One
  <2> QED
    BY <2>3, <2>4, <2>5, Zenon
<1>17. ASSUME NEW s \in Slots, NEW c \in Slots, ~threads, fork(s, c) PROVE Refs'
  <2>1. /\ MayCall(s) /\ state[c] = "unused" /\ c # s /\ ~isthread[c] /\ UNCHANGED <<pc, todo>>
        /\ isthread' = [isthread EXCEPT ![c] = FALSE] /\ ofile' = [ofile EXCEPT ![c] = ofile[s]]
    BY <1>17, ForkDoes, Zenon
  <2>2. \A f \in FileIds : ref'[f] = ref[f] + Cardinality({fd \in Fds : ofile[s][fd] = f})
    BY <1>17, ForkDoes, Zenon
  <2>3. ~isthread[s] /\ \A fd \in Fds : ofile[c][fd] = NoFile
    BY <2>1, Zenon DEF MayCall, Slotwise
  <2>4. ASSUME NEW f \in FileIds PROVE ref'[f] = Count(FdMap, f)' + Count(TodoMap, f)'
    <3>1. PICK n : n = Cardinality({fd \in Fds : ofile[s][fd] = f})
      BY Zenon
    <3>2. n \in Nat
      BY <3>1, Zenon DEF Counting, FdsAreCounted
    <3>3. Count(FdMap, f)' = Count(FdMap, f) + n
      BY <2>1, <2>3, <3>1, ForkAdds, Zenon
    <3>4. Count(TodoMap, f)' = Count(TodoMap, f)
      BY <2>1, TodoSame, Zenon DEF HasTodo
    <3>5. ref'[f] = ref[f] + n /\ ref[f] = Count(FdMap, f) + Count(TodoMap, f)
      BY <2>2, <3>1, Zenon DEF Refs
    <3> QED
      BY <3>2, <3>3, <3>4, <3>5, RefsNat
  <2> QED
    BY <2>4, Zenon DEF Refs
<1>18. ASSUME NEW s \in Slots, NEW c \in Slots, threads, clone(s, c) PROVE Refs'
  <2>1. UNCHANGED <<ref, pc, todo>> /\ state[c] = "unused"
    BY <1>18, Zenon DEF clone, files
  <2>2. /\ \A fd \in Fds : ~isthread[c] => ofile[c][fd] = NoFile
        /\ isthread'[c] /\ \A u \in Slots : u # c => isthread'[u] = isthread[u] /\ ofile'[u] = ofile[u]
    BY <1>18, <2>1, Zenon DEF clone, TypeOK, Slotwise
  <2>3. ASSUME NEW f \in FileIds, NEW t \in Slots, NEW fd \in Fds PROVE HasFd(t, fd, f)' <=> HasFd(t, fd, f)
    BY <2>2, Basics, Zenon DEF HasFd
  <2>4. \A f \in FileIds, t \in Slots, i \in 1 .. 2 : HasTodo(t, i, f)' <=> HasTodo(t, i, f)
    BY <2>1, Zenon DEF HasTodo
  <2> QED
    BY <2>1, <2>3, <2>4, RefsQuiet, Zenon
<1>19. ASSUME NEW s \in Slots, wait(s) PROVE Refs'
  BY <1>19, RefsQuiet, Zenon DEF wait, HasFd, HasTodo, files
<1> QED
  BY <1>1, <1>2, <1>4, <1>5, <1>6, <1>8, <1>9, <1>10, <1>11, <1>12, <1>15, <1>16, <1>17, <1>18, <1>19, SMTT(30)
  DEF Next
-----------------------------------------------------------------------------
\* How the references to inodes and pipe ends change

LEMMA ObjectsNat ==
  ASSUME Counting, TypeOK, NEW o
  PROVE  /\ Count(obj, o) \in Nat /\ Count(gone, o) \in Nat
         /\ Count(hold, o) \in Nat /\ Count(DirMap, o) \in Nat
<1>1. DOMAIN obj = FileIds /\ DOMAIN gone = Slots /\ DOMAIN hold = Slots /\ DOMAIN DirMap = Slots
  BY Zenon DEF TypeOK, DirMap
<1> QED
  BY <1>1, Finite, CountType, Zenon

\* One slot, or one file, refers to something else.
Moved(S, g, h, s, v) ==
  DOMAIN g = S /\ DOMAIN h = S /\ s \in S /\ h[s] = v /\ \A x \in S : x # s => h[x] = g[x]
Same(a, b) == IF a = b THEN 1 ELSE 0

LEMMA Moves ==
  ASSUME Counting, NEW S, IsFiniteSet(S), NEW g, NEW h, NEW s, NEW v, Moved(S, g, h, s, v), NEW o
  PROVE  Count(h, o) = Count(g, o) - Same(g[s], o) + Same(v, o)
<1>1. IsFiniteSet(DOMAIN g) /\ DOMAIN h = DOMAIN g /\ h[s] = v /\ s \in DOMAIN g
  BY Zenon DEF Moved
<1>2. \A x \in DOMAIN g : x # s => h[x] = g[x]
  BY Zenon DEF Moved
<1>3. Count(h, o) = Count(g, o) - One(g[s] = o) + One(h[s] = o)
  BY <1>1, <1>2, CountMove
<1> QED
  BY <1>1, <1>3, Zenon DEF One, Same

LEMMA SlotMoves ==
  ASSUME Counting, NEW g, NEW h, NEW s, NEW v, Moved(Slots, g, h, s, v), NEW o
  PROVE  Count(h, o) = Count(g, o) - Same(g[s], o) + Same(v, o)
  BY Finite, Moves

LEMMA FileMoves ==
  ASSUME Counting, NEW f, NEW v, Moved(FileIds, obj, obj', f, v), NEW o
  PROVE  Count(obj', o) = Count(obj, o) - Same(obj[f], o) + Same(v, o)
  BY Finite, Moves

\* No object is NoObj.
LEMMA SameInt ==
  /\ \A a, b : Same(a, b) \in Int
  /\ \A o \in Objs : Same(NoObj, o) = 0
  BY Basics DEF Same

LEMMA GetDoes ==
  ASSUME TypeOK, NEW p \in Objs, opens' = [opens EXCEPT ![p] = @ + 1], NEW o \in Objs
  PROVE  opens'[o] = opens[o] + Same(p, o)
  BY DEF TypeOK, Same

LEMMA PutDoes ==
  ASSUME TypeOK, NEW p \in Objs \cup {NoObj}, Put(p), NEW o \in Objs
  PROVE  opens'[o] = opens[o] - Same(p, o)
<1>1. p = NoObj => p # o
  BY Basics, Zenon
<1> QED
  BY <1>1 DEF TypeOK, Same, Put

\* The balance at one object: each of the four counts changes, by as much in
\* sum as the references do.
BalanceAt(o) ==
  opens'[o] = Count(obj', o) + Count(gone', o) + Count(hold', o) + Count(DirMap', o)

LEMMA BalancedBy ==
  ASSUME Counting, TypeOK, Balanced, NEW o \in Objs, NEW a \in Int, NEW b \in Int, NEW c \in Int, NEW d \in Int,
         Count(obj', o) = Count(obj, o) + a, Count(gone', o) = Count(gone, o) + b,
         Count(hold', o) = Count(hold, o) + c, Count(DirMap', o) = Count(DirMap, o) + d,
         opens'[o] = opens[o] + a + b + c + d
  PROVE  BalanceAt(o)
<1>1. opens[o] = Count(obj, o) + Count(gone, o) + Count(hold, o) + Count(DirMap, o)
  BY Zenon DEF Balanced
<1> QED
  BY <1>1, ObjectsNat DEF BalanceAt

LEMMA BalancedNext ==
  ASSUME \A o \in Objs : BalanceAt(o)
  PROVE  Balanced'
  BY Zenon DEF Balanced, Count, BalanceAt

\* Nothing that counts as a reference changes.
LEMMA BalancedQuiet ==
  ASSUME Balanced, UNCHANGED <<opens, obj, gone, hold>>, DirMap' = DirMap
  PROVE  Balanced'
  BY BalancedNext, Zenon DEF Balanced, BalanceAt

LEMMA BalancedStep ==
  ASSUME Counting, TypeOK, InHand, Slotwise, Fresh, Balanced, [Next]_vars
  PROVE  Balanced'
<1>1. DOMAIN obj = FileIds /\ DOMAIN gone = Slots /\ DOMAIN hold = Slots
  BY Zenon DEF TypeOK
<1>2. ASSUME UNCHANGED <<isthread, cwd>> PROVE DirMap' = DirMap
  BY <1>2, Zenon DEF DirMap
<1>3. ASSUME UNCHANGED <<opens, obj, gone, hold, isthread, cwd>> PROVE Balanced'
  BY <1>2, <1>3, BalancedQuiet, Zenon
<1>4. CASE UNCHANGED vars
  BY <1>3, <1>4, Zenon DEF vars, files, procs
<1>5. ASSUME NEW s \in Slots, NEW ip \in Inodes, sys_open(s, ip) PROVE Balanced'
  <2>1. opens' = [opens EXCEPT ![ip] = @ + 1] /\ hold[s] = NoObj /\ UNCHANGED <<obj, gone>>
    BY <1>5, Zenon DEF sys_open, MayCall, Get, InHand, HandOf, files
  <2>2. Moved(Slots, hold, hold', s, ip) /\ DirMap' = DirMap
    BY <1>1, <1>2, <1>5, Zenon DEF Moved, sys_open, procs
  <2>3. ASSUME NEW o \in Objs PROVE BalanceAt(o)
    <3>1. PICK i \in Int : i = Same(ip, o)
      BY SameInt, Zenon
    <3>2. Count(hold', o) = Count(hold, o) - Same(hold[s], o) + Same(ip, o)
      BY <2>2, SlotMoves
    <3>3. Same(hold[s], o) = 0
      BY <2>1, SameInt, Zenon
    <3>4. Count(hold', o) = Count(hold, o) + i
      BY <3>1, <3>2, <3>3, ObjectsNat
    <3>5. opens'[o] = opens[o] + i
      BY <2>1, <3>1, Basics, GetDoes, Zenon
    <3>6. opens'[o] = opens[o] + 0 + 0 + i + 0
      BY <3>5, SMTT(30) DEF TypeOK
    <3>7. /\ Count(obj', o) = Count(obj, o) + 0 /\ Count(gone', o) = Count(gone, o) + 0
          /\ Count(DirMap', o) = Count(DirMap, o) + 0
      BY <2>1, <2>2, ObjectsNat
    <3> QED
      BY <3>4, <3>6, <3>7, BalancedBy
  <2> QED
    BY <2>3, BalancedNext, Zenon
<1>6. ASSUME NEW s \in Slots, NEW ip \in Inodes, sys_chdir(s, ip) PROVE Balanced'
  <2>1. PICK old \in Inodes : old = cwd[s] /\ ~isthread[s]
    BY <1>6, Zenon DEF sys_chdir, MayCall, Slotwise
  <2>2. /\ opens' = [[opens EXCEPT ![ip] = @ + 1] EXCEPT ![old] = @ - 1]
        /\ cwd' = [cwd EXCEPT ![s] = ip] /\ UNCHANGED <<obj, gone, hold, isthread>>
    BY <1>6, <2>1, Zenon DEF sys_chdir, files
  <2>3. Moved(Slots, DirMap, DirMap', s, ip) /\ DirMap[s] = old
    BY <2>1, <2>2, Zenon DEF Moved, DirMap, TypeOK
  <2>4. ASSUME NEW o \in Objs PROVE BalanceAt(o)
    <3>1. PICK i \in Int, j \in Int : i = Same(ip, o) /\ j = Same(old, o)
      BY SameInt, Zenon
    <3>2. Count(DirMap', o) = Count(DirMap, o) - Same(DirMap[s], o) + Same(ip, o)
      BY <2>3, SlotMoves
    <3>3. Count(DirMap', o) = Count(DirMap, o) + (i - j)
      BY <2>3, <3>1, <3>2, ObjectsNat, SMTT(30)
    <3>4. opens'[o] = opens[o] + i - j
      BY <2>2, <3>1, Basics DEF TypeOK, Same
    <3>5. opens'[o] = opens[o] + 0 + 0 + 0 + (i - j) /\ i - j \in Int
      BY <3>4 DEF TypeOK
    <3>6. /\ Count(obj', o) = Count(obj, o) + 0 /\ Count(gone', o) = Count(gone, o) + 0
          /\ Count(hold', o) = Count(hold, o) + 0
      BY <2>2, ObjectsNat
    <3> QED
      BY <3>3, <3>5, <3>6, BalancedBy
  <2> QED
    BY <2>4, BalancedNext, Zenon
<1>7. ASSUME NEW s \in Slots, NEW fd \in Fds, sys_close(s, fd) \/ sys_dup(s, fd) PROVE Balanced'
  BY <1>3, <1>7, Zenon DEF sys_close, sys_dup, files, procs
<1>8. ASSUME NEW s \in Slots,
             OpenAlloc(s) \/ PipeFirst(s) \/ PipeBad(s) \/ exit(s) \/ ExitClose(s) \/ wait(s)
      PROVE  Balanced'
  BY <1>3, <1>8, Zenon DEF OpenAlloc, PipeFirst, PipeBad, exit, ExitClose, wait, files, procs
<1>9. ASSUME NEW s \in Slots, Install(s) PROVE Balanced'
  <2>1. /\ hold[s] \in Inodes /\ pc[s] = "install" /\ Len(todo[s]) = 1 /\ todo[s] \in Seq(FileIds)
        /\ UNCHANGED <<opens, gone, isthread, cwd>>
    BY <1>9, Zenon DEF Install, Goes, InHand, HandOf, TypeOK, procs
  <2>2. PICK f \in FileIds : f = todo[s][1] /\ obj[f] = NoObj
    BY <2>1 DEF Fresh, FreshOf
  <2>3. PICK ip \in Inodes : ip = hold[s]
    BY <2>1, Zenon
  <2>4. Moved(FileIds, obj, obj', f, ip) /\ Moved(Slots, hold, hold', s, NoObj) /\ DirMap' = DirMap
    BY <1>1, <1>2, <1>9, <2>1, <2>2, <2>3, Zenon DEF Moved, Install
  <2>5. ASSUME NEW o \in Objs PROVE BalanceAt(o)
    <3>1. PICK i \in Int : i = Same(ip, o)
      BY SameInt, Zenon
    <3>2. Count(obj', o) = Count(obj, o) - Same(obj[f], o) + Same(ip, o)
      BY <2>4, FileMoves, Zenon
    <3>3. Count(hold', o) = Count(hold, o) - Same(hold[s], o) + Same(NoObj, o)
      BY <2>4, SlotMoves
    <3>4. Same(obj[f], o) = 0 /\ Same(hold[s], o) = i /\ Same(NoObj, o) = 0
      BY <2>2, <2>3, <3>1, SameInt, Zenon
    <3>5. Count(obj', o) = Count(obj, o) + i /\ Count(hold', o) = Count(hold, o) + (0 - i)
      BY <3>1, <3>2, <3>3, <3>4, ObjectsNat, SMTT(30)
    <3>6. opens'[o] = opens[o] + i + 0 + (0 - i) + 0 /\ 0 - i \in Int
      BY <2>1, SMTT(30) DEF TypeOK
    <3>7. Count(gone', o) = Count(gone, o) + 0 /\ Count(DirMap', o) = Count(DirMap, o) + 0
      BY <2>1, <2>4, ObjectsNat
    <3> QED
      BY <3>5, <3>6, <3>7, BalancedBy
  <2> QED
    BY <2>5, BalancedNext, Zenon
<1>10. ASSUME NEW s \in Slots, fileclose(s) PROVE Balanced'
  <2>1. PICK f \in FileIds : f = todo[s][1] /\ (Drops(s, f) \/ DropsLast(s, f))
    BY <1>10, CloseDoes, Zenon
  <2>2. UNCHANGED <<opens, hold, isthread, cwd>> /\ gone[s] = NoObj
    BY <1>10, Zenon DEF fileclose, InHand, HandOf, procs
  <2>3. CASE Drops(s, f)
    BY <1>3, <2>2, <2>3, Zenon DEF Drops
  <2>4. CASE DropsLast(s, f)
    <3>1. PICK x : x = obj[f]
      BY Zenon
    <3>2. Moved(FileIds, obj, obj', f, NoObj) /\ Moved(Slots, gone, gone', s, x) /\ DirMap' = DirMap
      BY <1>1, <1>2, <2>2, <2>4, <3>1, Zenon DEF Moved, DropsLast
    <3>3. ASSUME NEW o \in Objs PROVE BalanceAt(o)
      <4>1. PICK i \in Int : i = Same(x, o)
        BY SameInt, Zenon
      <4>2. Count(obj', o) = Count(obj, o) - Same(obj[f], o) + Same(NoObj, o)
        BY <3>2, FileMoves, Zenon
      <4>3. Count(gone', o) = Count(gone, o) - Same(gone[s], o) + Same(x, o)
        BY <3>2, SlotMoves
      <4>4. Same(obj[f], o) = i /\ Same(gone[s], o) = 0 /\ Same(NoObj, o) = 0
        BY <2>2, <3>1, <4>1, SameInt, Zenon
      <4>5. Count(obj', o) = Count(obj, o) + (0 - i) /\ Count(gone', o) = Count(gone, o) + i
        BY <4>1, <4>2, <4>3, <4>4, ObjectsNat, SMTT(30)
      <4>6. opens'[o] = opens[o] + (0 - i) + i + 0 + 0 /\ 0 - i \in Int
        BY <2>2 DEF TypeOK
      <4>7. Count(hold', o) = Count(hold, o) + 0 /\ Count(DirMap', o) = Count(DirMap, o) + 0
        BY <2>2, <3>2, ObjectsNat
      <4> QED
        BY <4>5, <4>6, <4>7, BalancedBy
    <3> QED
      BY <3>3, BalancedNext, Zenon
  <2> QED
    BY <2>1, <2>3, <2>4, Zenon
<1>11. ASSUME NEW s \in Slots, Release(s) PROVE Balanced'
  <2>1. PICK x \in Objs \cup {NoObj} : x = gone[s] /\ Put(x)
    BY <1>11, Zenon DEF Release, TypeOK
  <2>2. UNCHANGED <<obj, hold>> /\ Moved(Slots, gone, gone', s, NoObj) /\ DirMap' = DirMap
    BY <1>1, <1>2, <1>11, Zenon DEF Release, Moved, files, procs
  <2>3. ASSUME NEW o \in Objs PROVE BalanceAt(o)
    <3>1. PICK i \in Int : i = Same(x, o)
      BY SameInt, Zenon
    <3>2. Count(gone', o) = Count(gone, o) - Same(gone[s], o) + Same(NoObj, o)
      BY <2>2, SlotMoves
    <3>3. Same(gone[s], o) = i /\ Same(NoObj, o) = 0
      BY <2>1, <3>1, SameInt, Zenon
    <3>4. Count(gone', o) = Count(gone, o) + (0 - i)
      BY <3>1, <3>2, <3>3, ObjectsNat
    <3>5. opens'[o] = opens[o] - i
      BY <2>1, <3>1, PutDoes, Zenon
    <3>6. opens'[o] = opens[o] + 0 + (0 - i) + 0 + 0 /\ 0 - i \in Int
      BY <3>5 DEF TypeOK
    <3>7. /\ Count(obj', o) = Count(obj, o) + 0 /\ Count(hold', o) = Count(hold, o) + 0
          /\ Count(DirMap', o) = Count(DirMap, o) + 0
      BY <2>2, ObjectsNat
    <3> QED
      BY <3>4, <3>6, <3>7, BalancedBy
  <2> QED
    BY <2>3, BalancedNext, Zenon
<1>12. ASSUME NEW s \in Slots, Closed(s) PROVE Balanced'
  <2>1. PICK x \in Objs \cup {NoObj} : x = hold[s] /\ Put(x)
    BY <1>12, Basics, Zenon DEF Closed, TypeOK
  <2>2. UNCHANGED <<obj, gone>> /\ Moved(Slots, hold, hold', s, NoObj) /\ DirMap' = DirMap
    BY <1>1, <1>2, <1>12, Zenon DEF Closed, Moved, files, procs
  <2>3. ASSUME NEW o \in Objs PROVE BalanceAt(o)
    <3>1. PICK i \in Int : i = Same(x, o)
      BY SameInt, Zenon
    <3>2. Count(hold', o) = Count(hold, o) - Same(hold[s], o) + Same(NoObj, o)
      BY <2>2, SlotMoves
    <3>3. Same(hold[s], o) = i /\ Same(NoObj, o) = 0
      BY <2>1, <3>1, SameInt, Zenon
    <3>4. Count(hold', o) = Count(hold, o) + (0 - i)
      BY <3>1, <3>2, <3>3, ObjectsNat, SMTT(30)
    <3>5. opens'[o] = opens[o] - i
      BY <2>1, <3>1, PutDoes, Zenon
    <3>6. opens'[o] = opens[o] + 0 + 0 + (0 - i) + 0 /\ 0 - i \in Int
      BY <3>5 DEF TypeOK
    <3>7. /\ Count(obj', o) = Count(obj, o) + 0 /\ Count(gone', o) = Count(gone, o) + 0
          /\ Count(DirMap', o) = Count(DirMap, o) + 0
      BY <2>2, ObjectsNat
    <3> QED
      BY <3>4, <3>6, <3>7, BalancedBy, SMTT(30)
  <2> QED
    BY <2>3, BalancedNext, Zenon
<1>13. ASSUME NEW s \in Slots, ExitDone(s) PROVE Balanced'
  <2>1. PICK x \in Objs \cup {NoObj} : x = DirMap[s] /\ Put(x)
    BY <1>13, Basics, Zenon DEF ExitDone, DirMap, TypeOK
  <2>2. UNCHANGED <<obj, gone, hold>> /\ Moved(Slots, DirMap, DirMap', s, NoObj)
    BY <1>13, Zenon DEF ExitDone, Moved, DirMap, TypeOK, files
  <2>3. ASSUME NEW o \in Objs PROVE BalanceAt(o)
    <3>1. PICK i \in Int : i = Same(x, o)
      BY SameInt, Zenon
    <3>2. Count(DirMap', o) = Count(DirMap, o) - Same(DirMap[s], o) + Same(NoObj, o)
      BY <2>2, SlotMoves
    <3>3. Same(DirMap[s], o) = i /\ Same(NoObj, o) = 0
      BY <2>1, <3>1, SameInt, Zenon
    <3>4. Count(DirMap', o) = Count(DirMap, o) + (0 - i)
      BY <3>1, <3>2, <3>3, ObjectsNat
    <3>5. opens'[o] = opens[o] - i
      BY <2>1, <3>1, PutDoes, Zenon
    <3>6. opens'[o] = opens[o] + 0 + 0 + 0 + (0 - i) /\ 0 - i \in Int
      BY <3>5 DEF TypeOK
    <3>7. /\ Count(obj', o) = Count(obj, o) + 0 /\ Count(gone', o) = Count(gone, o) + 0
          /\ Count(hold', o) = Count(hold, o) + 0
      BY <2>2, ObjectsNat
    <3> QED
      BY <3>4, <3>6, <3>7, BalancedBy, SMTT(30)
  <2> QED
    BY <2>3, BalancedNext, Zenon
<1>14. ASSUME NEW s \in Slots, NEW c \in Slots, ~threads, fork(s, c) PROVE Balanced'
  <2>1. PICK ip \in Inodes : ip = cwd[s]
    BY <1>14, ForkDoes, Zenon
  <2>2. /\ cwd[c] = NoObj /\ ~isthread[c] /\ UNCHANGED <<obj, gone, hold>>
        /\ isthread' = [isthread EXCEPT ![c] = FALSE] /\ cwd' = [cwd EXCEPT ![c] = ip]
        /\ opens' = [opens EXCEPT ![ip] = @ + 1]
    BY <1>14, <2>1, ForkDoes, Zenon
  <2>3. Moved(Slots, DirMap, DirMap', c, ip) /\ DirMap[c] = NoObj
    BY <2>2, Zenon DEF Moved, DirMap, TypeOK
  <2>4. ASSUME NEW o \in Objs PROVE BalanceAt(o)
    <3>1. PICK i \in Int : i = Same(ip, o)
      BY SameInt, Zenon
    <3>2. Count(DirMap', o) = Count(DirMap, o) - Same(DirMap[c], o) + Same(ip, o)
      BY <2>3, SlotMoves
    <3>3. Same(DirMap[c], o) = 0
      BY <2>3, SameInt, Zenon
    <3>4. Count(DirMap', o) = Count(DirMap, o) + i
      BY <3>1, <3>2, <3>3, ObjectsNat
    <3>5. opens'[o] = opens[o] + i
      BY <2>2, <3>1, Basics, GetDoes, Zenon
    <3>6. opens'[o] = opens[o] + 0 + 0 + 0 + i
      BY <3>5 DEF TypeOK
    <3>7. /\ Count(obj', o) = Count(obj, o) + 0 /\ Count(gone', o) = Count(gone, o) + 0
          /\ Count(hold', o) = Count(hold, o) + 0
      BY <2>2, ObjectsNat
    <3> QED
      BY <3>4, <3>6, <3>7, BalancedBy
  <2> QED
    BY <2>4, BalancedNext, Zenon
<1>15. ASSUME NEW s \in Slots, NEW c \in Slots, threads, clone(s, c) PROVE Balanced'
  <2>1. /\ cwd[c] = NoObj /\ UNCHANGED <<opens, obj, gone, hold>>
        /\ isthread' = [isthread EXCEPT ![c] = TRUE] /\ cwd' = [cwd EXCEPT ![c] = cwd[s]]
    BY <1>15, Zenon DEF clone, Slotwise, files
  <2>2. DirMap' = DirMap
    BY <2>1, Zenon DEF DirMap, TypeOK
  <2> QED
    BY <2>1, <2>2, BalancedQuiet, Zenon
<1>16. ASSUME NEW s \in Slots, PipeSecond(s) PROVE Balanced'
  <2>1. pc[s] = "pipe" /\ UNCHANGED <<procs, gone, hold>>
    BY <1>16, PipeSecondDoes, Zenon
  <2>2. PICK rf \in FileIds : rf = todo[s][1]
    BY <1>16, PipeSecondDoes, Zenon
  <2>3. PICK q \in FreePipes, wf \in FileIds : PipeMade(s, q, wf)
    BY <1>16, PipeSecondDoes, Zenon
  <2>4. PICK er \in Objs, ew \in Objs : er = <<q, "r">> /\ ew = <<q, "w">>
    BY Zenon DEF FreePipes, Objs, Ends
  <2>5. er # ew /\ opens[er] = 0 /\ opens[ew] = 0
    BY <2>4, Zenon DEF FreePipes
  <2>6. ref[rf] = 1 /\ obj[rf] = NoObj
    BY <2>1, <2>2, Zenon DEF Fresh, FreshOf
  <2>7. rf # wf /\ obj[wf] = NoObj
    BY <2>3, <2>6 DEF PipeMade, Took, Fresh
  <2>8. obj' = [obj EXCEPT ![rf] = er, ![wf] = ew] /\ opens' = [opens EXCEPT ![er] = 1, ![ew] = 1]
    BY <2>2, <2>3, <2>4, Zenon DEF PipeMade
  <2>9. PICK m : m = [obj EXCEPT ![rf] = er]
    BY Zenon
  <2>10. Moved(FileIds, obj, m, rf, er) /\ Moved(FileIds, m, obj', wf, ew) /\ m[wf] = NoObj
    BY <1>1, <2>7, <2>8, <2>9, Zenon DEF Moved
  <2>11. DirMap' = DirMap
    BY <1>2, <2>1, Zenon DEF procs
  <2>12. ASSUME NEW o \in Objs PROVE BalanceAt(o)
    <3>1. PICK i \in Int, j \in Int : i = Same(er, o) /\ j = Same(ew, o)
      BY SameInt, Zenon
    <3>2. Count(m, o) = Count(obj, o) - Same(obj[rf], o) + Same(er, o)
      BY <2>10, Finite, Moves
    <3>3. Count(obj', o) = Count(m, o) - Same(m[wf], o) + Same(ew, o)
      BY <2>10, Finite, Moves
    <3>4. Same(obj[rf], o) = 0 /\ Same(m[wf], o) = 0
      BY <2>6, <2>10, SameInt, Zenon
    <3>5. Count(obj', o) = Count(obj, o) + (i + j)
      BY <3>1, <3>2, <3>3, <3>4, ObjectsNat, SMTT(30)
    <3>6. opens'[o] = opens[o] + i + j
      BY <2>5, <2>8, <3>1, SMTT(30) DEF TypeOK, Same
    <3>7. opens'[o] = opens[o] + (i + j) + 0 + 0 + 0 /\ i + j \in Int
      BY <3>6 DEF TypeOK
    <3>8. /\ Count(gone', o) = Count(gone, o) + 0 /\ Count(hold', o) = Count(hold, o) + 0
          /\ Count(DirMap', o) = Count(DirMap, o) + 0
      BY <2>1, <2>11, ObjectsNat
    <3> QED
      BY <3>5, <3>7, <3>8, BalancedBy
  <2> QED
    BY <2>12, BalancedNext, Zenon
<1> QED
  BY <1>4, <1>5, <1>6, <1>7, <1>8, <1>9, <1>10, <1>11, <1>12, <1>13, <1>14, <1>15, <1>16, SMTT(30) DEF Next

-----------------------------------------------------------------------------
\* The inductive invariant

\* Only init runs at first, and its working directory is the only reference.
LEMMA InitHolds ==
  ASSUME Counting, Init
  PROVE  IInv
<1>1. TypeOK
  BY Basics DEF Init, TypeOK, Places, NoFds, NoFile
<1>2. InHand /\ Slotwise
  BY Basics DEF Init, InHand, HandOf, Slotwise, NoFds
<1>3. Fresh
  BY Zenon DEF Init, Fresh, FreshOf
<1>4. Refs
  <2>1. ASSUME NEW f \in FileIds PROVE ref[f] = Count(FdMap, f) + Count(TodoMap, f)
    <3>1. ASSUME NEW x \in DOMAIN FdMap PROVE FdMap[x] # f
      BY Basics, Zenon DEF FdMap, Init, NoFds
    <3>2. ASSUME NEW x \in DOMAIN TodoMap PROVE TodoMap[x] # f
      BY Basics DEF TodoMap, Init
    <3>3. Count(FdMap, f) = 0 /\ Count(TodoMap, f) = 0
      BY <3>1, <3>2, CountNone, Zenon
    <3> QED
      BY <3>3 DEF Init
  <2> QED
    BY <2>1, Zenon DEF Refs
<1>5. Balanced
  <2>1. ASSUME NEW o \in Objs PROVE Count(obj, o) = 0 /\ Count(gone, o) = 0 /\ Count(hold, o) = 0
    <3>1. /\ \A x \in DOMAIN obj : obj[x] # o
          /\ \A x \in DOMAIN gone : gone[x] # o
          /\ \A x \in DOMAIN hold : hold[x] # o
      BY Basics, Zenon DEF Init
    <3> QED
      BY <3>1, CountNone, Zenon
  <2>2. ASSUME NEW o \in Objs PROVE Count(DirMap, o) = Same(Root, o)
    <3>1. PICK none : none = [s \in Slots |-> NoObj]
      BY Zenon
    <3>2. Moved(Slots, none, DirMap, initproc, Root) /\ none[initproc] = NoObj
      BY <3>1, Basics, Zenon DEF Moved, DirMap, Init
    <3>3. Count(DirMap, o) = Count(none, o) - Same(none[initproc], o) + Same(Root, o)
      BY <3>2, SlotMoves
    <3>4. \A x \in DOMAIN none : none[x] # o
      BY <3>1, Basics, Zenon
    <3>5. Count(none, o) = 0
      BY <3>4, CountNone, Zenon
    <3>6. Same(none[initproc], o) = 0
      BY <3>2, SameInt, Zenon
    <3> QED
      BY <3>3, <3>5, <3>6, SameInt
  <2>3. ASSUME NEW o \in Objs PROVE opens[o] = Same(Root, o)
    BY Zenon DEF Init, Same
  <2> QED
    BY <2>1, <2>2, <2>3, SameInt DEF Balanced
<1> QED
  BY <1>1, <1>2, <1>3, <1>4, <1>5, Zenon DEF IInv

LEMMA StepHolds ==
  ASSUME Counting, IInv, [Next]_vars
  PROVE  IInv'
<1>1. TypeOK /\ InHand /\ Slotwise /\ Fresh /\ Refs /\ Balanced
  BY Zenon DEF IInv
<1> QED
  BY <1>1, TypeStep, InHandStep, SlotwiseStep, FreshStep, RefsStep, BalancedStep, Zenon DEF IInv

\* The counts of the inductive invariant are those of the properties.
LEMMA CountsFiles ==
  ASSUME Refs
  PROVE  RefsCounted
<1>1. ASSUME NEW f \in FileIds
      PROVE  Count(FdMap, f) = Cardinality(Descriptors(f)) /\ Count(TodoMap, f) = Cardinality(Pending(f))
  <2>1. {d \in DOMAIN FdMap : FdMap[d] = f} = Descriptors(f)
    BY Basics, Zenon DEF FdMap, Descriptors
  <2>2. {d \in DOMAIN TodoMap : TodoMap[d] = f} = Pending(f)
    BY Basics, Zenon DEF TodoMap, Pending
  <2> QED
    BY <2>1, <2>2, Zenon DEF Count
<1> QED
  BY <1>1, Zenon DEF Refs, RefsCounted

LEMMA CountsObjects ==
  ASSUME Counting, TypeOK, Balanced
  PROVE  ObjectsCounted
<1>1. ASSUME NEW o \in Objs
      PROVE  /\ Count(obj, o) + Count(gone, o) = Users(o)
             /\ Count(hold, o) = Cardinality({s \in Slots : hold[s] = o})
             /\ Count(DirMap, o) = Cardinality({s \in Slots : ~isthread[s] /\ cwd[s] = o})
  <2>1. {s \in DOMAIN DirMap : DirMap[s] = o} = {s \in Slots : ~isthread[s] /\ cwd[s] = o}
    BY Basics, Zenon DEF DirMap
  <2>2. DOMAIN obj = FileIds /\ DOMAIN gone = Slots /\ DOMAIN hold = Slots
    BY Zenon DEF TypeOK
  <2> QED
    BY <2>1, <2>2, Zenon DEF Count, Users
<1>2. ASSUME NEW e \in Ends PROVE Count(hold, e) = 0 /\ Count(DirMap, e) = 0
  <2>1. e \in Objs /\ e \notin Inodes
    BY Basics, Zenon
  <2>2. /\ \A x \in DOMAIN hold : hold[x] # e
        /\ \A x \in DOMAIN DirMap : DirMap[x] # e
    BY <2>1, Basics, Zenon DEF TypeOK, DirMap
  <2> QED
    BY <2>2, CountNone, Zenon
<1>3. ASSUME NEW e \in Ends PROVE opens[e] = Users(e)
  <2>1. opens[e] = Count(obj, e) + Count(gone, e) + Count(hold, e) + Count(DirMap, e)
    BY Basics, Zenon DEF Balanced
  <2>2. opens[e] = Count(obj, e) + Count(gone, e)
    BY <1>2, <2>1, ObjectsNat
  <2> QED
    BY <1>1, <2>2, Basics, Zenon
<1>4. ASSUME NEW ip \in Inodes
      PROVE  opens[ip] = Users(ip) + Cardinality({s \in Slots : hold[s] = ip})
                           + Cardinality({s \in Slots : ~isthread[s] /\ cwd[s] = ip})
  <2>1. opens[ip] = Count(obj, ip) + Count(gone, ip) + Count(hold, ip) + Count(DirMap, ip) /\ ip \in Objs
    BY Basics, Zenon DEF Balanced
  <2> QED
    BY <1>1, <2>1, Zenon
<1> QED
  BY <1>3, <1>4, Zenon DEF ObjectsCounted

\* A file that is free is FD_NONE; one that a descriptor names, or that a
\* system call has still to close, is not free: the tests of filedup and
\* fileclose, which panic, do not fail.  What a closed file referred to is
\* still open when iput or pipeclose is called for it.
NoFilePanic ==
  /\ \A f \in FileIds : ref[f] = 0 => obj[f] = NoObj
  /\ \A s \in Slots, fd \in Fds : ~isthread[s] /\ ofile[s][fd] # NoFile => ref[ofile[s][fd]] >= 1
  /\ \A s \in Slots : pc[s] = "close" /\ todo[s] # <<>> => ref[Head(todo[s])] >= 1
  /\ \A s \in Slots : gone[s] # NoObj => opens[gone[s]] >= 1
  /\ \A s \in Slots : hold[s] # NoObj => opens[hold[s]] >= 1
  /\ \A s \in Slots : ~isthread[s] /\ cwd[s] # NoObj => opens[cwd[s]] >= 1

LEMMA UsedIsOpen ==
  ASSUME Counting, TypeOK, Balanced, NEW o \in Objs
  PROVE  /\ \A s \in Slots : gone[s] = o => opens[o] >= 1
         /\ \A s \in Slots : hold[s] = o => opens[o] >= 1
         /\ \A s \in Slots : ~isthread[s] /\ cwd[s] = o => opens[o] >= 1
<1>1. opens[o] = Count(obj, o) + Count(gone, o) + Count(hold, o) + Count(DirMap, o)
  BY Zenon DEF Balanced
<1>2. DOMAIN gone = Slots /\ DOMAIN hold = Slots /\ DOMAIN DirMap = Slots
  BY Zenon DEF TypeOK, DirMap
<1>3. ASSUME NEW s \in Slots, gone[s] = o PROVE Count(gone, o) \in Nat \ {0}
  BY <1>2, <1>3, Finite, CountAt, Zenon
<1>4. ASSUME NEW s \in Slots, hold[s] = o PROVE Count(hold, o) \in Nat \ {0}
  BY <1>2, <1>4, Finite, CountAt, Zenon
<1>5. ASSUME NEW s \in Slots, ~isthread[s], cwd[s] = o PROVE Count(DirMap, o) \in Nat \ {0}
  <2>1. DirMap[s] = o
    BY <1>5, Zenon DEF DirMap
  <2> QED
    BY <1>2, <2>1, Finite, CountAt, Zenon
<1> QED
  BY <1>1, <1>3, <1>4, <1>5, ObjectsNat

LEMMA NeverPanics ==
  ASSUME Counting, IInv
  PROVE  NoFilePanic
<1>1. TypeOK /\ InHand /\ Fresh /\ Refs /\ Balanced
  BY Zenon DEF IInv
<1>2. ASSUME NEW s \in Slots, NEW fd \in Fds, ~isthread[s], ofile[s][fd] # NoFile
      PROVE  ref[ofile[s][fd]] >= 1
  <2>1. PICK f \in FileIds : f = ofile[s][fd]
    BY <1>1, <1>2 DEF TypeOK
  <2> QED
    BY <1>1, <1>2, <2>1, Referred, Zenon DEF HasFd
<1>3. ASSUME NEW s \in Slots, pc[s] = "close", todo[s] # <<>> PROVE ref[Head(todo[s])] >= 1
  <2>1. PICK t \in Seq(FileIds) : t = todo[s] /\ t # <<>>
    BY <1>1, <1>3, Zenon DEF TypeOK
  <2>2. 1 \in DOMAIN t /\ Head(t) = t[1] /\ t[1] \in FileIds
    BY <2>1
  <2>3. HasTodo(s, 1, t[1])
    BY <1>3, <2>1, <2>2, Zenon DEF HasTodo
  <2>4. ref[t[1]] >= 1
    BY <1>1, <2>2, <2>3, Referred
  <2> QED
    BY <2>1, <2>2, <2>4, Zenon
<1>4. \A f \in FileIds : ref[f] = 0 => obj[f] = NoObj
  BY <1>1, Zenon DEF Fresh
<1>5. ASSUME NEW s \in Slots
      PROVE  /\ gone[s] # NoObj => opens[gone[s]] >= 1
             /\ hold[s] # NoObj => opens[hold[s]] >= 1
             /\ ~isthread[s] /\ cwd[s] # NoObj => opens[cwd[s]] >= 1
  BY <1>1, UsedIsOpen, Basics, Zenon DEF TypeOK
<1> QED
  BY <1>2, <1>3, <1>4, <1>5, Zenon DEF NoFilePanic

-----------------------------------------------------------------------------
\* Counting, from the theorems about finite sets

INSTANCE FiniteSetTheorems

LEMMA NumberLemma ==
  ASSUME NEW h, IsFiniteSet(DOMAIN h), NEW v
  PROVE  IsFiniteSet({x \in DOMAIN h : h[x] = v}) /\ Count(h, v) \in Nat
<1>1. {x \in DOMAIN h : h[x] = v} \in SUBSET DOMAIN h
  BY Zenon
<1> QED
  BY <1>1, FS_Subset, FS_CardinalityType, Zenon DEF Count

\* A value is counted wherever the function takes it.
LEMMA ThereLemma ==
  ASSUME NEW h, IsFiniteSet(DOMAIN h), NEW v, NEW x \in DOMAIN h, h[x] = v
  PROVE  /\ Count(h, v) \in Nat \ {0}
         /\ \A y \in DOMAIN h : y # x /\ h[y] = v => Count(h, v) >= 2
<1> DEFINE S == {y \in DOMAIN h : h[y] = v}
<1>1. IsFiniteSet(S) /\ Cardinality(S) \in Nat /\ Count(h, v) = Cardinality(S)
  BY NumberLemma, Zenon DEF Count
<1>2. x \in S
  BY Zenon
<1>3. Cardinality(S) # 0
  BY <1>1, <1>2, FS_EmptySet, Zenon
<1>4. ASSUME NEW y \in DOMAIN h, y # x, h[y] = v PROVE Cardinality(S) # 1
  <2>1. y \in S
    BY <1>4, Zenon
  <2> QED
    BY <1>1, <1>2, <2>1, <1>4, FS_Singleton
<1> QED
  BY <1>1, <1>3, <1>4

\* One place of the function changes.
LEMMA ChangeLemma ==
  ASSUME NEW g, NEW h, IsFiniteSet(DOMAIN g), DOMAIN h = DOMAIN g,
         NEW x \in DOMAIN g, \A y \in DOMAIN g : y # x => h[y] = g[y], NEW v
  PROVE  Count(h, v) = Count(g, v) - One(g[x] = v) + One(h[x] = v)
<1> DEFINE G == {y \in DOMAIN g : g[y] = v}
           H == {y \in DOMAIN h : h[y] = v}
           R == G \ {x}
<1>1. IsFiniteSet(G) /\ Cardinality(G) \in Nat
  BY NumberLemma, Zenon DEF Count
<1>2. /\ IsFiniteSet(R)
      /\ Cardinality(R) = IF x \in G THEN Cardinality(G) - 1 ELSE Cardinality(G)
  BY <1>1, FS_RemoveElement, Zenon
<1>3. x \notin R
  BY Zenon
<1>4. Cardinality(R \cup {x}) = Cardinality(R) + 1
  BY <1>2, <1>3, FS_AddElement, Zenon
<1>5. H = IF h[x] = v THEN R \cup {x} ELSE R
  BY Zenon
<1>6. x \in G <=> g[x] = v
  BY Zenon
<1>7. Cardinality(R) \in Nat
  BY <1>2, FS_CardinalityType, Zenon
<1>8. Count(g, v) = Cardinality(G) /\ Count(h, v) = Cardinality(H)
  BY Zenon DEF Count
<1> HIDE DEF G, H, R
<1> QED
  BY <1>1, <1>2, <1>4, <1>5, <1>6, <1>7, <1>8 DEF One

\* A value that is taken nowhere counts 0.
LEMMA NothingLemma ==
  ASSUME NEW h, NEW v, \A x \in DOMAIN h : h[x] # v
  PROVE  Count(h, v) = 0
<1>1. {x \in DOMAIN h : h[x] = v} = {}
  BY Zenon
<1> QED
  BY <1>1, FS_EmptySet, Zenon DEF Count

\* The smallest element of a set of naturals exists, so Min finds it.
LEMMA MinLemma ==
  ASSUME NEW S \in SUBSET Nat, S # {}
  PROVE  Min(S) \in S
<1>1. \E x \in S : \A y \in S : ~ (<<y, x>> \in OpToRel(<, Nat))
  BY NatLessThanWellFounded, WFMin, Zenon
<1>2. \E x \in S : \A y \in S : ~ (y < x)
  BY <1>1, Zenon DEF OpToRel
<1>3. \E x \in S : \A y \in S : x =< y
  BY <1>2
<1> QED
  BY <1>3, Zenon DEF Min

LEMMA FiniteLemma == TablesAreFinite
<1>1. ASSUME NEW n \in Nat PROVE IsFiniteSet(1 .. n)
  BY FS_Interval
<1>2. IsFiniteSet(Slots) /\ IsFiniteSet(FileIds) /\ IsFiniteSet(Fds) /\ IsFiniteSet(1 .. 2)
  BY <1>1, FilesAssumption, Zenon DEF Slots, FileIds, Fds
<1> QED
  BY <1>2, FS_Product, Zenon DEF TablesAreFinite

LEMMA FdsLemma == FdsAreCounted
<1> SUFFICES ASSUME NEW F \in SUBSET Fds
             PROVE  /\ Cardinality(F) \in Nat /\ (F = {} => Cardinality(F) = 0)
                    /\ Cardinality(F) >= 2 => F # {} /\ \A x : F # {x}
                    /\ \A c, G : IsFiniteSet(G) /\ G \cap ({c} \X F) = {} =>
                         Cardinality(G \cup ({c} \X F)) = Cardinality(G) + Cardinality(F)
  BY Zenon DEF FdsAreCounted
<1>1. IsFiniteSet(F) /\ Cardinality(F) \in Nat
  BY FiniteLemma, FS_Subset, FS_CardinalityType, Zenon DEF TablesAreFinite
<1>2. F = {} => Cardinality(F) = 0
  BY FS_EmptySet, Zenon
<1>3. ASSUME NEW x, F = {x} PROVE Cardinality(F) = 1
  BY <1>3, FS_Singleton, Zenon
<1>4. ASSUME NEW c, NEW G, IsFiniteSet(G), G \cap ({c} \X F) = {}
      PROVE  Cardinality(G \cup ({c} \X F)) = Cardinality(G) + Cardinality(F)
  <2>1. IsFiniteSet({c}) /\ Cardinality({c}) = 1
    BY FS_Singleton, Zenon
  <2>2. IsFiniteSet({c} \X F) /\ Cardinality({c} \X F) = 1 * Cardinality(F)
    BY <1>1, <2>1, FS_Product
  <2>3. Cardinality(G \cup ({c} \X F))
          = Cardinality(G) + Cardinality({c} \X F) - Cardinality(G \cap ({c} \X F))
    BY <1>4, <2>2, FS_Union, Zenon
  <2>4. Cardinality(G \cap ({c} \X F)) = 0 /\ Cardinality(G) \in Nat
    BY <1>4, FS_EmptySet, FS_CardinalityType, Zenon
  <2>5. PICK i \in Nat, j \in Nat : i = Cardinality(G) /\ j = Cardinality(F) /\ Cardinality({c} \X F) = 1 * j
    BY <1>1, <2>2, <2>4, Zenon
  <2> QED
    BY <2>3, <2>4, <2>5
<1>5. ASSUME Cardinality(F) >= 2 PROVE F # {} /\ \A x : F # {x}
  <2>1. Cardinality(F) # 0 /\ Cardinality(F) # 1
    BY <1>1, <1>5
  <2> QED
    BY <1>2, <1>3, <2>1, Zenon
<1> QED
  BY <1>1, <1>2, <1>4, <1>5, Zenon

LEMMA CountingHolds == Counting
<1>1. CountsAreNumbers
  BY NumberLemma, Zenon DEF CountsAreNumbers
<1>2. CountsWhatIsThere
  BY ThereLemma, Zenon DEF CountsWhatIsThere
<1>3. CountsOneChange
  BY ChangeLemma DEF CountsOneChange
<1>4. CountsNothing
  BY NothingLemma, Zenon DEF CountsNothing
<1>5. MinIsThere
  BY MinLemma, Zenon DEF MinIsThere
<1> QED
  BY <1>1, <1>2, <1>3, <1>4, <1>5, FiniteLemma, FdsLemma, Zenon DEF Counting

-----------------------------------------------------------------------------
\* The theorems

LEMMA FilesInvariant == Spec => []IInv
<1>1. Init => IInv
  BY InitHolds, CountingHolds, Zenon
<1>2. IInv /\ [Next]_vars => IInv'
  BY StepHolds, CountingHolds, Zenon
<1> QED
  BY <1>1, <1>2, PTL DEF Spec

\* Files and descriptors keep their types: no count in the file table is ever
\* negative, and every descriptor is free or names a slot of the table.
THEOREM FilesTyped == Spec => []TypeOK
  BY FilesInvariant, PTL DEF IInv

\* filealloc, filedup, fileclose, fork and exit keep f->ref the number of
\* descriptors and pending closes, for any number of processes and files.
THEOREM FileReferencesCounted == Spec => []RefsCounted
<1>1. IInv => RefsCounted
  BY CountsFiles, CountingHolds, Zenon DEF IInv
<1> QED
  BY <1>1, FilesInvariant, PTL

\* Inodes and pipe ends have one reference for each use, through every path
\* that sys_open, sys_pipe, chdir, fork and exit may take.
THEOREM ObjectReferencesCounted == Spec => []ObjectsCounted
<1>1. IInv => ObjectsCounted
  BY CountsObjects, CountingHolds, Zenon DEF IInv
<1> QED
  BY <1>1, FilesInvariant, PTL

\* NoFilePanic: neither filedup nor fileclose panics, and no inode or pipe is
\* given back more often than it was taken.
THEOREM FilesNeverPanic == Spec => []NoFilePanic
<1>1. IInv => NoFilePanic
  BY NeverPanics, CountingHolds, Zenon
<1> QED
  BY <1>1, FilesInvariant, PTL
=============================================================================
