------------------------------ MODULE Umalloc ------------------------------
(***************************************************************************)
(* malloc and free of the user library (umalloc.c): a circular list of the *)
(* free blocks in the order of their addresses, which sbrk extends.        *)
(*                                                                         *)
(* Addresses count in units of a Header; base lies below the heap.  The    *)
(* loops are steps, for one thread: the library has no lock, and programs  *)
(* whose threads call it at the same time are outside of this module.      *)
(***************************************************************************)
EXTENDS Naturals, FiniteSets, FiniteSetsExt

CONSTANTS
  Sizes,          \* what the program asks malloc for, in bytes
  HEADER,         \* sizeof(Header)
  NALLOC,         \* the least that morecore asks for, 4096
  Gaps,           \* by how much the program moves the break itself
  Limit           \* the highest break that sbrk grants

NULL == 0
base == 1
HEAP == 3

VARIABLES
  hdr,                 \* the headers in use: base, and one per block
  freep, brk,
  live,                \* the blocks the program has, and what it asked for each
  gaps,                \* units the program took from sbrk itself
  pc, p, prevp, bp, nbytes

heap == <<hdr, freep, brk, live, gaps>>
vars == <<heap, pc, p, prevp, bp, nbytes>>

Init ==
  /\ hdr = [a \in {base} |-> [ptr |-> NULL, size |-> 0]] /\ freep = NULL
  /\ brk = HEAP /\ live = [a \in {} |-> 0] /\ gaps = 0
  /\ pc = "user" /\ p = NULL /\ prevp = NULL /\ bp = NULL /\ nbytes = 0

nunits == ((nbytes + HEADER - 1) \div HEADER) + 1
Returned == pc' = "user" /\ p' = NULL /\ prevp' = NULL /\ bp' = NULL /\ nbytes' = 0

\* malloc up to its loop.
malloc(n) ==
  /\ pc = "user" /\ pc' = "malloc" /\ nbytes' = n
  /\ IF freep = NULL
     THEN /\ hdr' = [a \in {base} |-> [ptr |-> base, size |-> 0]]
          /\ freep' = base /\ prevp' = base /\ p' = base
     ELSE prevp' = freep /\ p' = hdr[freep].ptr /\ UNCHANGED <<hdr, freep>>
  /\ UNCHANGED <<brk, live, gaps, bp>>

\* A block is large enough: it is taken out of the list, or its tail is.
Take ==
  LET b == p + hdr[p].size - nunits IN
  /\ pc = "malloc" /\ hdr[p].size >= nunits
  /\ hdr' = IF b = p
            THEN [hdr EXCEPT ![prevp].ptr = hdr[p].ptr, ![p].ptr = NULL]
            ELSE [a \in DOMAIN hdr \cup {b} |->
                    IF a = b THEN [ptr |-> NULL, size |-> nunits]
                    ELSE IF a = p THEN [hdr[p] EXCEPT !.size = @ - nunits] ELSE hdr[a]]
  /\ live' = [a \in DOMAIN live \cup {b} |-> IF a = b THEN nbytes ELSE live[a]]
  /\ freep' = prevp /\ Returned /\ UNCHANGED <<brk, gaps>>

Step ==
  /\ pc = "malloc" /\ hdr[p].size < nunits /\ p # freep
  /\ prevp' = p /\ p' = hdr[p].ptr /\ UNCHANGED <<heap, pc, bp, nbytes>>

\* Once around the list: morecore, up to the loop of its free, or malloc returns 0.
\* Requests are far from those for which nu * sizeof(Header) leaves the range of int.
morecore ==
  LET nu == Max({nunits, NALLOC}) IN
  /\ pc = "malloc" /\ hdr[p].size < nunits /\ p = freep
  /\ \/ Returned /\ UNCHANGED heap
     \/ /\ brk + nu <= Limit /\ brk' = brk + nu
        /\ hdr' = [a \in DOMAIN hdr \cup {brk} |->
                     IF a = brk THEN [ptr |-> NULL, size |-> nu] ELSE hdr[a]]
        /\ bp' = brk /\ p' = freep /\ pc' = "more" /\ prevp' = NULL
        /\ UNCHANGED <<freep, live, gaps, nbytes>>

\* free up to its loop.
free(a) ==
  /\ pc = "user" /\ a \in DOMAIN live
  /\ live' = [b \in DOMAIN live \ {a} |-> live[b]]
  /\ bp' = a /\ p' = freep /\ pc' = "free"
  /\ UNCHANGED <<hdr, freep, brk, gaps, prevp, nbytes>>

\* bp belongs between p and p->s.ptr.
Place ==
  LET next == hdr[p].ptr IN
  \/ p < bp /\ bp < next
  \/ p >= next /\ (bp > p \/ bp < next)

Walk ==
  /\ pc \in {"free", "more"} /\ ~Place
  /\ p' = hdr[p].ptr /\ UNCHANGED <<heap, pc, prevp, bp, nbytes>>

\* The list with bp put after p and joined with the neighbours it touches.
MutJoinedSize ==
  LET next == hdr[p].ptr IN
  IF p + hdr[p].size = bp
  THEN [a \in DOMAIN hdr \ {bp} |->
          IF a = p THEN [ptr |-> next, size |-> hdr[p].size + hdr[bp].size] ELSE hdr[a]]
  ELSE [hdr EXCEPT ![bp].ptr = next, ![p].ptr = bp]

Joined ==
  LET next == hdr[p].ptr
      up == bp + hdr[bp].size = next
      new == IF up THEN [ptr |-> hdr[next].ptr, size |-> hdr[bp].size + hdr[next].size]
                   ELSE [ptr |-> next, size |-> hdr[bp].size]
      down == p + hdr[p].size = bp
      gone == (IF up THEN {next} ELSE {}) \cup (IF down THEN {bp} ELSE {})
  IN [a \in DOMAIN hdr \ gone |->
        IF a = p THEN IF down THEN [ptr |-> new.ptr, size |-> hdr[p].size + new.size]
                              ELSE [hdr[p] EXCEPT !.ptr = bp]
        ELSE IF a = bp THEN new ELSE hdr[a]]

\* The rest of free; in morecore, malloc goes on with the block after freep.
Insert ==
  /\ pc \in {"free", "more"} /\ Place
  /\ hdr' = Joined /\ freep' = p
  /\ \/ pc = "free" /\ Returned
     \/ /\ pc = "more" /\ pc' = "malloc"
        /\ prevp' = p /\ p' = hdr'[p].ptr /\ bp' = NULL /\ UNCHANGED nbytes
  /\ UNCHANGED <<brk, live, gaps>>

\* The program moves the break itself, so that the heap has a hole.
Sbrk(n) ==
  /\ pc = "user" /\ brk + n <= Limit
  /\ brk' = brk + n /\ gaps' = gaps + n
  /\ UNCHANGED <<hdr, freep, live, pc, p, prevp, bp, nbytes>>

Next ==
  \/ \E n \in Sizes : malloc(n)
  \/ \E a \in DOMAIN live : free(a)
  \/ \E n \in Gaps : Sbrk(n)
  \/ Take \/ Step \/ morecore \/ Walk \/ Insert

Spec == Init /\ [][Next]_vars

-----------------------------------------------------------------------------
Blocks == DOMAIN hdr \ {base}
FreeBlocks == Blocks \ DOMAIN live

\* Between two calls the list goes once through the free blocks in the order of their
\* addresses, and no two free blocks touch: free joins whatever can be joined.  The
\* blocks the program has are as large as it asked for, and no two blocks overlap.
SortedAndJoined == pc = "user" /\ freep # NULL =>
  LET ring == FreeBlocks \cup {base} IN
  /\ \A a \in DOMAIN live : hdr[a].size >= 1 + (live[a] + HEADER - 1) \div HEADER
  /\ \A a, b \in Blocks : a < b => a + hdr[a].size <= b
  /\ freep \in ring
  /\ \A a \in ring :
       hdr[a].ptr = IF a = Max(ring) THEN base ELSE Min({b \in ring : b > a})
  /\ \A a, b \in FreeBlocks : a + hdr[a].size # b

=============================================================================
