------------------------------ MODULE MCMemory ------------------------------
(* Memory and Umalloc for TLC.  A run is of the kernel, on a machine with    *)
(* little memory, or of one program that calls malloc and free.              *)
EXTENDS Memory

CONSTANTS Sizes, HEADER, NALLOC, Gaps, Limit

VARIABLES
  work,                          \* which of the two, on how many pages, and who calls sbrk
  hdr, freep, brk, live, gaps, pc, p, prevp, bp, nbytes      \* of Umalloc

Library == INSTANCE Umalloc
libvars == <<hdr, freep, brk, live, gaps, pc, p, prevp, bp, nbytes>>

OneSegment == {[memsz |-> 1, file |-> 1], [memsz |-> 13, file |-> 1]}
GrowAndShrink == {3, -2, -6}

Works ==
  [on : {"kernel"}, pages : {8, 11, 14, 16}, grows : {Procs \ {First}}]
  \cup [on : {"kernel"}, pages : {12}, grows : {{First}}]
  \cup [on : {"library"}, pages : {5}, grows : {{}}]

\* q makes no call of sbrk: the others are in work.grows.
Steady(q) ==
  /\ call'[q].op # "sbrk" /\ call'[q].pc # "fault"
  /\ sz'[q] < sz[q] => call[q].pc = "args" \/ state'[q] = "UNUSED"

MCInit ==
  /\ Init /\ Library!Init
  /\ work \in Works
  /\ Cardinality(Pages) = work.pages

MCNext ==
  /\ UNCHANGED work
  /\ \/ work.on = "kernel" /\ Next /\ UNCHANGED libvars
        /\ \A q \in Procs \ work.grows : Steady(q)
     \/ work.on = "library" /\ Library!Next /\ UNCHANGED vars

MCSpec == MCInit /\ [][MCNext]_<<vars, libvars, work>>

\* TLC takes states for the same that differ only in which page is where: whatever
\* page kalloc returns, the rest goes the same way.  While every page has one place
\* the places determine the state up to the names of pages; a state in which one has
\* none or two is never taken for one in which all have one, so it is not passed over.
ShapeOf(vm) ==
  [dir |-> vm.dir # 0, tab |-> [t \in 0 .. KERN |-> vm.tab[t] # 0], user |-> vm.user,
   pte |-> [v \in User |-> IF vm.pte[v] = 0 THEN "none" ELSE data[vm.pte[v]]]]

Shape ==
  <<work, libvars, state, sz, EachPageOnce,
    [q \in Procs |-> <<kstack[q] # 0, ShapeOf(pgdir[q]), ShapeOf(call[q].vm),
      [call[q] EXCEPT !.vm = 0, !.mem = IF @ = 0 THEN "none" ELSE data[@]]>>]>>

\* malloc and free keep the free blocks in the order of their addresses, with no
\* two that touch, and give out blocks that are large enough and do not overlap.
SortedAndJoined == Library!SortedAndJoined
=============================================================================
