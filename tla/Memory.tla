------------------------------- MODULE Memory -------------------------------
(***************************************************************************)
(* The memory of processes: the allocator of pages (kalloc.c), page tables *)
(* (vm.c), and the calls that build and drop them: sbrk, fork, exec, exit  *)
(* and wait.                                                               *)
(*                                                                         *)
(* kalloc holds kmem.lock and everything else works on pages the calling   *)
(* process owns, so a call is one action per kalloc: between two of them   *)
(* another process may take the last page, and every call must then give   *)
(* back exactly what it has.  The pages that a step frees become free in   *)
(* the step.  Processes do not share memory here: threads are in ProcTable.*)
(***************************************************************************)
EXTENDS Integers, Sequences, FiniteSets, FiniteSetsExt

CONSTANTS
  Procs, First,
  NPAGES,               \* there are at most so many pages between end and PHYSTOP
  PGSIZE, NPTENTRIES, KERNBASE,
  Programs,             \* of an executable: how many bytes it needs in memory,
                        \* and how many pages of them are in the file
  Steps,                \* by how much programs ask sbrk to grow or shrink
  UINT                  \* 2^32 in the code

PGROUNDUP(n) == ((n + PGSIZE - 1) \div PGSIZE) * PGSIZE
PDX(a) == a \div (PGSIZE * NPTENTRIES)

User == 0 .. KERNBASE \div PGSIZE - 1          \* the pages below KERNBASE
KERN == PDX(KERNBASE)                          \* the kernel's entry of the page directory
Contents == {"zero", "text", "data", "junk"}

ASSUME MemoryAssumption ==
  /\ {NPAGES, PGSIZE, NPTENTRIES, KERNBASE, UINT} \subseteq Nat \ {0}
  /\ KERNBASE % (PGSIZE * NPTENTRIES) = 0 /\ 2 * KERNBASE < UINT
  /\ First \in Procs /\ Steps \subseteq Int
  /\ \A prog \in Programs : prog.memsz > 0 /\ prog.file * PGSIZE <= PGROUNDUP(prog.memsz)

VARIABLES
  free,          \* kmem.freelist: how often each page is in it
  data,          \* what is in each page
  state, kstack, pgdir, sz,    \* struct proc
  call           \* of each process: how far it is in which call

Pages == DOMAIN free
procs == <<state, kstack, pgdir, sz>>
vars == <<free, data, procs, call>>

\* A page table: its directory, its page tables (the last for the kernel), the
\* user pages, and those that have PTE_U.
NoVm == [dir |-> 0, tab |-> [t \in 0 .. KERN |-> 0], pte |-> [v \in User |-> 0], user |-> {}]

Uses(vm, pg) ==
  (IF vm.dir = pg THEN 1 ELSE 0) + Cardinality({t \in 0 .. KERN : vm.tab[t] = pg})
  + Cardinality({v \in User : vm.pte[v] = pg})

Idle == [op |-> "none", pc |-> "user", vm |-> NoVm, a |-> 0, oldsz |-> 0, newsz |-> 0,
         mem |-> 0, child |-> First, prog |-> [memsz |-> 0, file |-> 0]]

\* userinit: initcode in one page.
InitVm == [dir |-> 2, tab |-> [t \in 0 .. KERN |-> IF t = 0 THEN 3 ELSE IF t = KERN THEN 4 ELSE 0],
           pte |-> [v \in User |-> IF v = 0 THEN 5 ELSE 0], user |-> {0}]

Init ==
  /\ \E last \in 5 .. NPAGES : free = [pg \in 1 .. last |-> IF pg > 5 THEN 1 ELSE 0]
  /\ data = [pg \in Pages |-> IF pg = 5 THEN "text" ELSE "junk"]
  /\ state = [p \in Procs |-> IF p = First THEN "RUNNABLE" ELSE "UNUSED"]
  /\ kstack = [p \in Procs |-> IF p = First THEN 1 ELSE 0]
  /\ pgdir = [p \in Procs |-> IF p = First THEN InitVm ELSE NoVm]
  /\ sz = [p \in Procs |-> IF p = First THEN PGSIZE ELSE 0]
  /\ call = [p \in Procs |-> Idle]

-----------------------------------------------------------------------------
\* kalloc.c.  Which page of the list kalloc returns is left out: it is the least.

None == [pg \in Pages |-> 0]
One(pg) == [None EXCEPT ![pg] = 1]
UsesOf(vm) == [pg \in Pages |-> Uses(vm, pg)]
Both(f, g) == [pg \in Pages |-> f[pg] + g[pg]]

kalloc(page) ==
  /\ free[page] > 0 /\ \A pg \in Pages : free[pg] > 0 => page <= pg
  /\ free' = [free EXCEPT ![page] = @ - 1]

OutOfMemory == free = None

\* kfree of the pages in the bag gone.
kfree(gone) ==
  /\ free' = Both(free, gone)
  /\ data' = [pg \in Pages |-> IF gone[pg] > 0 THEN "junk" ELSE data[pg]]

-----------------------------------------------------------------------------
\* vm.c

\* The user pages that deallocuvm frees.
deallocuvm(vm, oldsz, newsz) ==
  {v \in User : PGROUNDUP(newsz) <= v * PGSIZE /\ v * PGSIZE < oldsz}

Without(vm, gone) == [vm EXCEPT !.pte = [v \in User |-> IF v \in gone THEN 0 ELSE @[v]],
                                !.user = @ \ gone]
Dropped(vm, gone) == [pg \in Pages |-> Cardinality({v \in gone : vm.pte[v] = pg})]

\* The call of p fails and gives back what it has, with mem, the page it has
\* allocated but not yet mapped (deallocuvm in allocuvm, freevm at the label bad
\* of copyuvm and of exec, and the failures of setupkvm and fork).
MutFailLeaksMem(p, mem) ==
  LET c == call[p] IN
  /\ \/ /\ c.op = "sbrk"
        /\ LET gone == deallocuvm(pgdir[p], c.newsz, c.oldsz) IN
             /\ kfree(Dropped(pgdir[p], gone))
             /\ pgdir' = [pgdir EXCEPT ![p] = Without(@, gone)]
        /\ UNCHANGED <<state, kstack>>
     \/ /\ c.op = "exec" /\ kfree(UsesOf(c.vm)) /\ UNCHANGED <<state, kstack, pgdir>>
     \/ /\ c.op = "fork" /\ kfree(Both(UsesOf(c.vm), One(kstack[c.child])))
        /\ kstack' = [kstack EXCEPT ![c.child] = 0]
        /\ state' = [state EXCEPT ![c.child] = "UNUSED"]
        /\ UNCHANGED pgdir
  /\ call' = [call EXCEPT ![p] = Idle] /\ UNCHANGED sz

Fail(p, mem) ==
  LET c == call[p] IN
  /\ \/ /\ c.op = "sbrk"
        /\ LET gone == deallocuvm(pgdir[p], c.newsz, c.oldsz) IN
             /\ kfree(Both(mem, Dropped(pgdir[p], gone)))
             /\ pgdir' = [pgdir EXCEPT ![p] = Without(@, gone)]
        /\ UNCHANGED <<state, kstack>>
     \/ /\ c.op = "exec" /\ kfree(Both(mem, UsesOf(c.vm))) /\ UNCHANGED <<state, kstack, pgdir>>
     \/ /\ c.op = "fork" /\ kfree(Both(Both(mem, UsesOf(c.vm)), One(kstack[c.child])))
        /\ kstack' = [kstack EXCEPT ![c.child] = 0]
        /\ state' = [state EXCEPT ![c.child] = "UNUSED"]
        /\ UNCHANGED pgdir
  /\ call' = [call EXCEPT ![p] = Idle] /\ UNCHANGED sz

At(p, pc) == state[p] = "RUNNABLE" /\ call[p].pc = pc

\* setupkvm: the page directory.
SetupDir(p) ==
  /\ At(p, "dir")
  /\ \/ OutOfMemory /\ Fail(p, None)
     \/ \E pg \in Pages :
          /\ kalloc(pg) /\ data' = [data EXCEPT ![pg] = "zero"]
          /\ call' = [call EXCEPT ![p].vm.dir = pg, ![p].pc = "kern"]
          /\ UNCHANGED procs

\* setupkvm: the kernel's page table.  copyuvm and exec go on.
SetupKern(p) ==
  /\ At(p, "kern")
  /\ \/ OutOfMemory /\ Fail(p, None)
     \/ \E pg \in Pages :
          /\ kalloc(pg) /\ data' = [data EXCEPT ![pg] = "zero"]
          /\ call' = [call EXCEPT ![p].vm.tab[KERN] = pg,
                                  ![p].pc = IF call[p].op = "fork" THEN "copy" ELSE "alloc"]
          /\ UNCHANGED procs

\* allocuvm: the check of KERNBASE; the next page, or it is done.  newsz is never
\* below oldsz (vm.c:229): sbrk gets here only to grow, exec with a segment that
\* begins at 0 and with two pages more.
Alloc(p) ==
  LET c == call[p] IN
  /\ At(p, "alloc")
  /\ \/ /\ c.newsz >= KERNBASE \/ (c.a < c.newsz /\ OutOfMemory)
        /\ Fail(p, None)
     \/ /\ c.newsz < KERNBASE /\ c.a < c.newsz
        /\ \E pg \in Pages :
             /\ kalloc(pg) /\ data' = [data EXCEPT ![pg] = "zero"]
             /\ call' = [call EXCEPT ![p].mem = pg, ![p].pc = "map"]
        /\ UNCHANGED procs
     \/ /\ c.newsz < KERNBASE /\ c.a >= c.newsz /\ c.op = "sbrk"
        /\ sz' = [sz EXCEPT ![p] = c.newsz] /\ call' = [call EXCEPT ![p] = Idle]
        /\ UNCHANGED <<free, data, state, kstack, pgdir>>
     \/ /\ c.newsz < KERNBASE /\ c.a >= c.newsz /\ c.op = "exec"
        /\ call' = [call EXCEPT ![p].pc = IF c.oldsz = 0 THEN "load" ELSE "args"]
        /\ UNCHANGED <<free, data, procs>>

\* copyuvm: the next page.
MutCopyForgets(p) ==
  /\ At(p, "copy") /\ call[p].a < sz[p]
  /\ \/ OutOfMemory /\ Fail(p, None)
     \/ \E pg \in Pages :
          /\ kalloc(pg) /\ call' = [call EXCEPT ![p].mem = pg, ![p].pc = "map"]
          /\ UNCHANGED <<data, procs>>

Copy(p) ==
  /\ At(p, "copy") /\ call[p].a < sz[p]
  /\ \/ OutOfMemory /\ Fail(p, None)
     \/ \E pg \in Pages :
          /\ kalloc(pg) /\ data' = [data EXCEPT ![pg] = data[pgdir[p].pte[call[p].a \div PGSIZE]]]
          /\ call' = [call EXCEPT ![p].mem = pg, ![p].pc = "map"]
          /\ UNCHANGED procs

\* mappages of one page, with the page table that walkpgdir may have to allocate.
Building(p) == IF call[p].op = "sbrk" THEN pgdir[p] ELSE call[p].vm

Mapped(p, table) ==
  LET c == call[p]  v == c.a \div PGSIZE
      vm == [Building(p) EXCEPT !.tab[PDX(c.a)] = table, !.pte[v] = c.mem,
               !.user = IF c.op # "fork" \/ v \in pgdir[p].user THEN @ \cup {v} ELSE @]
  IN
  /\ call' = [call EXCEPT ![p].vm = IF c.op = "sbrk" THEN @ ELSE vm,
       ![p].mem = 0, ![p].a = @ + PGSIZE, ![p].pc = IF c.op = "fork" THEN "copy" ELSE "alloc"]
  /\ pgdir' = [pgdir EXCEPT ![p] = IF c.op = "sbrk" THEN vm ELSE @]
  /\ UNCHANGED <<state, kstack, sz>>

Map(p) ==
  /\ At(p, "map")
  /\ LET table == Building(p).tab[PDX(call[p].a)] IN
     \/ table = 0 /\ OutOfMemory /\ Fail(p, One(call[p].mem))
     \/ table = 0 /\ \E pg \in Pages :
          kalloc(pg) /\ data' = [data EXCEPT ![pg] = "zero"] /\ Mapped(p, pg)
     \/ table # 0 /\ Mapped(p, table) /\ UNCHANGED <<free, data>>

-----------------------------------------------------------------------------
\* proc.c and exec.c

\* growproc.  When the new size is 0 the pages are gone, sz stays, and the process cannot
\* run on: it faults.  The first process does not do that to itself, as it never exits.
growproc(p, n) ==
  LET newsz == (sz[p] + n) % UINT IN
  /\ At(p, "user") /\ (p = First => newsz # 0)
  /\ \/ /\ n > 0
        /\ call' = [call EXCEPT ![p] = [Idle EXCEPT !.op = "sbrk", !.pc = "alloc",
             !.oldsz = sz[p], !.newsz = newsz, !.a = PGROUNDUP(sz[p])]]
        /\ UNCHANGED <<free, data, procs>>
     \/ /\ n < 0 /\ newsz < sz[p]
        /\ LET gone == deallocuvm(pgdir[p], sz[p], newsz) IN
             /\ kfree(Dropped(pgdir[p], gone))
             /\ pgdir' = [pgdir EXCEPT ![p] = Without(@, gone)]
        /\ sz' = [sz EXCEPT ![p] = IF newsz = 0 THEN @ ELSE newsz]
        /\ call' = [call EXCEPT ![p].pc = IF newsz = 0 THEN "fault" ELSE @]
        /\ UNCHANGED <<state, kstack>>

\* fork, up to copyuvm: allocproc with the kernel stack.
fork(p) == \E c \in Procs, pg \in Pages :
  /\ At(p, "user") /\ state[c] = "UNUSED"
  /\ kalloc(pg)
  /\ state' = [state EXCEPT ![c] = "EMBRYO"] /\ kstack' = [kstack EXCEPT ![c] = pg]
  /\ call' = [call EXCEPT ![p] = [Idle EXCEPT !.op = "fork", !.pc = "dir", !.child = c]]
  /\ UNCHANGED <<data, pgdir, sz>>

\* fork after copyuvm.
Forked(p) ==
  LET c == call[p].child IN
  /\ At(p, "copy") /\ call[p].a >= sz[p]
  /\ pgdir' = [pgdir EXCEPT ![c] = call[p].vm] /\ sz' = [sz EXCEPT ![c] = sz[p]]
  /\ state' = [state EXCEPT ![c] = "RUNNABLE"]
  /\ call' = [call EXCEPT ![p] = Idle] /\ UNCHANGED <<free, data, kstack>>

\* exec of a file that has an ELF header; the program is one segment at address 0.
exec(p) == \E prog \in Programs :
  /\ At(p, "user")
  /\ call' = [call EXCEPT ![p] = [Idle EXCEPT !.op = "exec", !.pc = "dir", !.prog = prog,
                                   !.newsz = prog.memsz]]
  /\ UNCHANGED <<free, data, procs>>

\* loaduvm, which fails when the file is short, and the start of the second allocuvm.
Load(p) ==
  LET c == call[p]  top == PGROUNDUP(c.prog.memsz) IN
  /\ At(p, "load")
  /\ \/ Fail(p, None)
     \/ /\ data' = [pg \in Pages |->
             IF \E v \in User : v < c.prog.file /\ c.vm.pte[v] = pg THEN "text" ELSE data[pg]]
        /\ call' = [call EXCEPT ![p].pc = "alloc", ![p].oldsz = top, ![p].a = top,
                                ![p].newsz = top + 2 * PGSIZE]
        /\ UNCHANGED <<free, procs>>

clearpteu(vm, v) == [vm EXCEPT !.user = @ \ {v}]

\* exec from clearpteu on: the arguments, which may be too many or too long for the
\* stack page, and the new image.
Args(p) ==
  LET c == call[p]  top == c.newsz \div PGSIZE IN
  /\ At(p, "args")
  /\ \/ Fail(p, None)
     \/ /\ free' = Both(free, UsesOf(pgdir[p]))
        /\ data' = [pg \in Pages |-> IF Uses(pgdir[p], pg) > 0 THEN "junk"
                                     ELSE IF pg = c.vm.pte[top - 1] THEN "data" ELSE data[pg]]
        /\ pgdir' = [pgdir EXCEPT ![p] = clearpteu(c.vm, top - 2)]
        /\ sz' = [sz EXCEPT ![p] = c.newsz]
        /\ call' = [call EXCEPT ![p] = Idle] /\ UNCHANGED <<state, kstack>>

\* exit, called or after a fault, and what wait does with the zombie.
exit(p) ==
  /\ At(p, "user") \/ At(p, "fault")
  /\ p # First
  /\ state' = [state EXCEPT ![p] = "ZOMBIE"] /\ call' = [call EXCEPT ![p] = Idle]
  /\ UNCHANGED <<free, data, kstack, pgdir, sz>>

wait(p) ==
  /\ state[p] = "ZOMBIE"
  /\ kfree(Both(UsesOf(pgdir[p]), One(kstack[p])))
  /\ kstack' = [kstack EXCEPT ![p] = 0] /\ pgdir' = [pgdir EXCEPT ![p] = NoVm]
  /\ state' = [state EXCEPT ![p] = "UNUSED"] /\ sz' = [sz EXCEPT ![p] = 0]
  /\ UNCHANGED call

\* The program writes to a page of its own.
Store(p) == \E v \in pgdir[p].user :
  /\ At(p, "user")
  /\ data' = [data EXCEPT ![pgdir[p].pte[v]] = "data"]
  /\ UNCHANGED <<free, procs, call>>

Next == \E p \in Procs :
  \/ SetupDir(p) \/ SetupKern(p) \/ Alloc(p) \/ Copy(p) \/ Map(p)
  \/ fork(p) \/ Forked(p) \/ exec(p) \/ Load(p) \/ Args(p)
  \/ exit(p) \/ wait(p) \/ Store(p)
  \/ \E n \in Steps : growproc(p, n)

Spec == Init /\ [][Next]_vars

-----------------------------------------------------------------------------

\* No page is lost and none has two owners: each is once in the free list, or is the
\* kernel stack, a page table or a user page of one process, or the page that one
\* process has allocated and not yet mapped.  So every failure in the middle of fork,
\* exec and sbrk frees what the call had, once.
EachPageOnce == \A pg \in Pages :
  1 = free[pg] + MapThenSumSet(LAMBDA p :
        (IF kstack[p] = pg THEN 1 ELSE 0) + (IF call[p].mem = pg THEN 1 ELSE 0)
        + Uses(pgdir[p], pg) + Uses(call[p].vm, pg), Procs)

\* What programs see of memory.
Image(prog) ==
  LET n == PGROUNDUP(prog.memsz) \div PGSIZE IN
  [i \in 1 .. n |-> IF i <= prog.file THEN "text" ELSE "zero"] \o <<"guard", "data">>

Seen(p) ==
  [i \in 1 .. Cardinality({v \in User : v * PGSIZE < sz[p] /\ pgdir[p].pte[v] # 0}) |->
     IF i - 1 \in pgdir[p].user THEN data[pgdir[p].pte[i - 1]] ELSE "guard"]

Private == INSTANCE AddressSpaces WITH
  Images <- {Image(prog) : prog \in Programs}, MaxPages <- KERNBASE \div PGSIZE,
  mem <- [p \in {q \in Procs : pgdir[q].dir # 0} |-> Seen(p)]

\* The kernel keeps its promise (AddressSpaces): no step of one process changes what
\* another sees, new memory is zeroed, the child's memory is a copy with the guard
\* page, and an exec that fails, wherever it fails, leaves the memory as it was.
PrivateMemory == Private!Spec
=============================================================================
