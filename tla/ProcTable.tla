----------------------------- MODULE ProcTable -----------------------------
(***************************************************************************)
(* The life of processes and threads in the process table: allocproc,      *)
(* fork, clone, exit, wait, kill, sleep and wakeup (proc.c), the page      *)
(* table switch of exec (exec.c), and the tests of p->killed in trap       *)
(* (trap.c) and sys_sleep (sysproc.c).                                     *)
(*                                                                         *)
(* What the code does with ptable.lock held is one action; Sched shows     *)
(* that the lock covers the switch to the next process too.  The stores    *)
(* that fork and clone make without the lock are separate actions.         *)
(* initproc is slot 1.  User programs make any system calls they like;     *)
(* init forks and waits (init.c).                                          *)
(***************************************************************************)
EXTENDS Naturals, FiniteSets

CONSTANTS
  NPROC,          \* slots of the table
  NCPU,           \* processes that can be RUNNING at a time
  NDIR,           \* the page tables memory has room for
  KillPids,       \* the arguments kill is called with
  Workloads       \* what programs do: the system calls they make, whether they
                  \* wait for their children before they exit, and whether kalloc()
                  \* can return 0 meanwhile; with a bound on nextpid, and how
                  \* many slots of the table, page tables and CPUs there are

Procs == 1 .. NPROC
PageDirs == 1 .. NDIR
initproc == 1

ASSUME ProcAssumption ==
  /\ NPROC \in Nat \ {0} /\ NCPU \in Nat \ {0}
  /\ NDIR \in Nat \ {0} /\ KillPids \subseteq Nat
  /\ \A w \in Workloads :
       /\ w.calls \subseteq {"fork", "clone", "exit", "wait", "kill", "exec", "sleep"}
       /\ w.joins \in BOOLEAN /\ w.memoryFails \in BOOLEAN /\ w.maxpid \in Nat \ {0}
       /\ w.slots \in 1 .. NPROC /\ w.cpus \in 1 .. NCPU

VARIABLES
  work,       \* the workload of this behaviour
  state, pid, parent, killed, isthread, pgdir, chan,   \* struct proc
  at,         \* at[p]: where p is in the kernel
  np,         \* np[p]: the local variable np of fork and clone
  nextpid,
  live        \* the page tables that are allocated

vars == <<work, state, pid, parent, killed, isthread, pgdir, chan, at, np, nextpid, live>>

NoProc == 0
NoDir == 0
States == {"UNUSED", "EMBRYO", "SLEEPING", "RUNNABLE", "RUNNING", "ZOMBIE"}
Places == {"user", "fork", "fork_made", "clone", "clone_made", "exit", "wait", "sleep", "doze"}
ticks == NPROC + 1     \* &ticks, an address that is no process's
Channels == 0 .. NPROC + 1

\* userinit has made the first process.
Init ==
  /\ work \in Workloads
  /\ state = [p \in Procs |-> IF p = initproc THEN "RUNNABLE" ELSE "UNUSED"]
  /\ pid = [p \in Procs |-> IF p = initproc THEN 1 ELSE 0]
  /\ parent = [p \in Procs |-> NoProc]
  /\ killed = [p \in Procs |-> FALSE]
  /\ isthread = [p \in Procs |-> FALSE]
  /\ pgdir = [p \in Procs |-> IF p = initproc THEN 1 ELSE NoDir]
  /\ chan = [p \in Procs |-> NoProc]
  /\ at = [p \in Procs |-> "user"]
  /\ np = [p \in Procs |-> NoProc]
  /\ nextpid = 2
  /\ live = {1}

\* setupkvm gets a page for the page table; which one does not matter.
Room == {d \in PageDirs : d <= work.slots}
IsNewDir(d) == d \in Room \ live /\ \A e \in Room \ live : d <= e

GoTo(p, place) == at' = [at EXCEPT ![p] = place]

\* p runs user code and makes a system call; a process that has been killed
\* only gets as far as exit (Die).
Calls(p, call) ==
  /\ state[p] = "RUNNING" /\ at[p] = "user" /\ ~killed[p]
  /\ call \in work.calls /\ (p = initproc => call \in {"fork", "wait"})

-----------------------------------------------------------------------------
\* scheduler and yield

Dispatch(p) ==
  /\ state[p] = "RUNNABLE"
  /\ Cardinality({q \in Procs : state[q] = "RUNNING"}) < work.cpus
  /\ state' = [state EXCEPT ![p] = "RUNNING"]
  /\ UNCHANGED <<work, pid, parent, killed, isthread, pgdir, chan, at, np, nextpid, live>>

\* tickslock is held from sys_sleep's test to SLEEPING, by a process at "doze".
TicksLockFree == \A q \in Procs : at[q] # "doze"

\* Who holds tickslock, or spins for it, has interrupts off.
Yield(p) ==
  /\ state[p] = "RUNNING" /\ (at[p] \in {"sleep", "doze"} => TicksLockFree)
  /\ state' = [state EXCEPT ![p] = "RUNNABLE"]
  /\ UNCHANGED <<work, pid, parent, killed, isthread, pgdir, chan, at, np, nextpid, live>>

-----------------------------------------------------------------------------
\* fork and clone

\* allocproc, up to the release of ptable.lock: the first UNUSED slot.  With
\* none, fork and clone return -1 and nothing changes.
allocproc(p, call) ==
  /\ Calls(p, call) /\ nextpid <= work.maxpid
  /\ \E q \in Procs :
       /\ q <= work.slots /\ state[q] = "UNUSED" /\ \A r \in 1 .. q - 1 : state[r] # "UNUSED"
       /\ state' = [state EXCEPT ![q] = "EMBRYO"]
       /\ pid' = [pid EXCEPT ![q] = nextpid]
       /\ np' = [np EXCEPT ![p] = q]
  /\ nextpid' = nextpid + 1
  /\ GoTo(p, call)
  /\ UNCHANGED <<work, parent, killed, isthread, pgdir, chan, live>>

\* No memory for the kernel stack or, in fork, for the copy: the slot is given
\* back without the lock.  Its pid stays.
AllocFails(p) ==
  /\ state[p] = "RUNNING" /\ at[p] \in {"fork", "clone"}
  /\ work.memoryFails \/ (at[p] = "fork" /\ live = Room)
  /\ state' = [state EXCEPT ![np[p]] = "UNUSED"]
  /\ np' = [np EXCEPT ![p] = NoProc]
  /\ GoTo(p, "user")
  /\ UNCHANGED <<work, pid, parent, killed, isthread, pgdir, chan, nextpid, live>>

\* fork copies the memory.
ForkCopies(p) ==
  /\ state[p] = "RUNNING" /\ at[p] = "fork"
  /\ \E d \in PageDirs :
       /\ IsNewDir(d)
       /\ pgdir' = [pgdir EXCEPT ![np[p]] = d]
       /\ live' = live \cup {d}
  /\ isthread' = [isthread EXCEPT ![np[p]] = FALSE]
  /\ parent' = [parent EXCEPT ![np[p]] = p]
  /\ GoTo(p, "fork_made")
  /\ UNCHANGED <<work, state, pid, killed, chan, np, nextpid>>

\* clone shares it.
CloneShares(p) ==
  /\ state[p] = "RUNNING" /\ at[p] = "clone"
  /\ pgdir' = [pgdir EXCEPT ![np[p]] = pgdir[p]]
  /\ isthread' = [isthread EXCEPT ![np[p]] = TRUE]
  /\ parent' = [parent EXCEPT ![np[p]] = p]
  /\ GoTo(p, "clone_made")
  /\ UNCHANGED <<work, state, pid, killed, chan, np, nextpid, live>>

\* The last step of both: np->state = RUNNABLE under the lock.
MakeRunnable(p) ==
  /\ state[p] = "RUNNING" /\ at[p] \in {"fork_made", "clone_made"}
  /\ state' = [state EXCEPT ![np[p]] = "RUNNABLE"]
  /\ at' = [at EXCEPT ![p] = "user", ![np[p]] = "user"]
  /\ np' = [np EXCEPT ![p] = NoProc]
  /\ UNCHANGED <<work, pid, parent, killed, isthread, pgdir, chan, nextpid, live>>

-----------------------------------------------------------------------------
\* exec

MutExecLeaks(p) ==
  /\ Calls(p, "exec")
  /\ \E d \in PageDirs :
       /\ IsNewDir(d)
       /\ live' = live \cup {d}
       /\ pgdir' = [pgdir EXCEPT ![p] = d]
  /\ UNCHANGED <<work, state, pid, parent, killed, isthread, chan, at, np, nextpid>>

\* From the commit on: the old page table is freed.
exec(p) ==
  /\ Calls(p, "exec")
  /\ \E d \in PageDirs :
       /\ IsNewDir(d)
       /\ live' = (live \cup {d}) \ {pgdir[p]}
       /\ pgdir' = [pgdir EXCEPT ![p] = d]
  /\ UNCHANGED <<work, state, pid, parent, killed, isthread, chan, at, np, nextpid>>

-----------------------------------------------------------------------------
\* sleep and wakeup

\* s with the sleepers on channel c RUNNABLE
wakeup1(s, c) ==
  [q \in Procs |-> IF s[q] = "SLEEPING" /\ chan[q] = c THEN "RUNNABLE" ELSE s[q]]

SleepOn(p, c) ==
  /\ state' = [state EXCEPT ![p] = "SLEEPING"]
  /\ chan' = [chan EXCEPT ![p] = c]

sys_sleep(p) ==
  /\ Calls(p, "sleep")
  /\ GoTo(p, "sleep")
  /\ UNCHANGED <<work, state, pid, parent, killed, isthread, pgdir, chan, np, nextpid, live>>

\* The loop, with tickslock taken at first or again: sys_sleep returns when
\* enough ticks have passed, or when the process has been killed.
SleepLoop(p) ==
  /\ state[p] = "RUNNING" /\ at[p] = "sleep" /\ TicksLockFree
  /\ \/ ~killed[p] /\ GoTo(p, "doze")
     \/ GoTo(p, "user")
  /\ chan' = [chan EXCEPT ![p] = NoProc]
  /\ UNCHANGED <<work, state, pid, parent, killed, isthread, pgdir, np, nextpid, live>>

\* sleep(&ticks, &tickslock) takes ptable.lock: kill may have come before.
Doze(p) ==
  /\ state[p] = "RUNNING" /\ at[p] = "doze"
  /\ SleepOn(p, ticks)
  /\ GoTo(p, "sleep")
  /\ UNCHANGED <<work, pid, parent, killed, isthread, pgdir, np, nextpid, live>>

Tick ==
  /\ TicksLockFree
  /\ state' = wakeup1(state, ticks)
  /\ UNCHANGED <<work, pid, parent, killed, isthread, pgdir, chan, at, np, nextpid, live>>

-----------------------------------------------------------------------------
\* exit

Children(p) == {q \in Procs : parent[q] = p}

CallExit(p) ==
  /\ Calls(p, "exit")
  /\ work.joins => Children(p) = {}
  /\ GoTo(p, "exit")
  /\ UNCHANGED <<work, state, pid, parent, killed, isthread, pgdir, chan, np, nextpid, live>>

\* trap calls exit for a process that was killed; for init that is a panic
\* ("init exiting"), here the end of what it does.
Die(p) ==
  /\ state[p] = "RUNNING" /\ at[p] = "user" /\ killed[p] /\ p # initproc
  /\ GoTo(p, "exit")
  /\ UNCHANGED <<work, state, pid, parent, killed, isthread, pgdir, chan, np, nextpid, live>>

MutExitOrphansAsleep(p) ==
  /\ state[p] = "RUNNING" /\ at[p] = "exit"
  /\ parent' = [q \in Procs |-> IF parent[q] = p THEN initproc ELSE parent[q]]
  /\ state' = [wakeup1(state, parent[p]) EXCEPT ![p] = "ZOMBIE"]
  /\ UNCHANGED <<work, pid, killed, isthread, pgdir, chan, at, np, nextpid, live>>

MutExitSilent(p) ==
  /\ state[p] = "RUNNING" /\ at[p] = "exit"
  /\ parent' = [q \in Procs |-> IF parent[q] = p THEN initproc ELSE parent[q]]
  /\ state' = [state EXCEPT ![p] = "ZOMBIE"]
  /\ UNCHANGED <<work, pid, killed, isthread, pgdir, chan, at, np, nextpid, live>>

\* The parent is woken, the children go to init, which is woken if one of them
\* is a ZOMBIE already.
Exit(p) ==
  /\ state[p] = "RUNNING" /\ at[p] = "exit"
  /\ parent' = [q \in Procs |-> IF parent[q] = p THEN initproc ELSE parent[q]]
  /\ LET woken == wakeup1(state, parent[p])
         adopted == IF \E q \in Children(p) : state[q] = "ZOMBIE"
                      THEN wakeup1(woken, initproc) ELSE woken
     IN  state' = [adopted EXCEPT ![p] = "ZOMBIE"]
  /\ UNCHANGED <<work, pid, killed, isthread, pgdir, chan, at, np, nextpid, live>>

-----------------------------------------------------------------------------
\* wait

CallWait(p) ==
  /\ Calls(p, "wait")
  /\ GoTo(p, "wait")
  /\ UNCHANGED <<work, state, pid, parent, killed, isthread, pgdir, chan, np, nextpid, live>>

Zombies(p) == {q \in Children(p) : state[q] = "ZOMBIE"}

MutReapFreesAlways(p) ==
  /\ state[p] = "RUNNING" /\ at[p] = "wait"
  /\ \E q \in Zombies(p) :
       /\ \A r \in Zombies(p) : q <= r
       /\ live' = live \ {pgdir[q]}
       /\ pgdir' = [pgdir EXCEPT ![q] = NoDir]
       /\ state' = [state EXCEPT ![q] = "UNUSED"]
       /\ pid' = [pid EXCEPT ![q] = 0]
       /\ parent' = [parent EXCEPT ![q] = NoProc]
       /\ killed' = [killed EXCEPT ![q] = FALSE]
  /\ chan' = [chan EXCEPT ![p] = NoProc]
  /\ GoTo(p, "user")
  /\ UNCHANGED <<work, isthread, np, nextpid>>

\* The first exited child in the table is collected; the page table goes
\* unless the child is a thread.  The pointer in the free slot, written before
\* it is read again, is cleared here to save states.
Reap(p) ==
  /\ state[p] = "RUNNING" /\ at[p] = "wait"
  /\ \E q \in Zombies(p) :
       /\ \A r \in Zombies(p) : q <= r
       /\ live' = IF isthread[q] THEN live ELSE live \ {pgdir[q]}
       /\ pgdir' = [pgdir EXCEPT ![q] = NoDir]
       /\ state' = [state EXCEPT ![q] = "UNUSED"]
       /\ pid' = [pid EXCEPT ![q] = 0]
       /\ parent' = [parent EXCEPT ![q] = NoProc]
       /\ killed' = [killed EXCEPT ![q] = FALSE]
  /\ chan' = [chan EXCEPT ![p] = NoProc]
  /\ GoTo(p, "user")
  /\ UNCHANGED <<work, isthread, np, nextpid>>

\* Nothing to wait for, or no point in it.
WaitFails(p) ==
  /\ state[p] = "RUNNING" /\ at[p] = "wait"
  /\ Zombies(p) = {} /\ (Children(p) = {} \/ killed[p])
  /\ chan' = [chan EXCEPT ![p] = NoProc]
  /\ GoTo(p, "user")
  /\ UNCHANGED <<work, state, pid, parent, killed, isthread, pgdir, np, nextpid, live>>

WaitSleeps(p) ==
  /\ state[p] = "RUNNING" /\ at[p] = "wait"
  /\ Zombies(p) = {} /\ Children(p) # {} /\ ~killed[p]
  /\ SleepOn(p, p)
  /\ UNCHANGED <<work, pid, parent, killed, isthread, pgdir, at, np, nextpid, live>>

-----------------------------------------------------------------------------
\* kill: the first slot with the pid, whatever its state; woken if it sleeps

MutKillDoesNotWake(p) ==
  /\ Calls(p, "kill")
  /\ \E k \in KillPids, q \in Procs :
       /\ pid[q] = k /\ \A r \in 1 .. q - 1 : pid[r] # k
       /\ killed' = [killed EXCEPT ![q] = TRUE]
  /\ UNCHANGED <<work, state, pid, parent, isthread, pgdir, chan, at, np, nextpid, live>>

kill(p) ==
  /\ Calls(p, "kill")
  /\ \E k \in KillPids, q \in Procs :
       /\ pid[q] = k /\ \A r \in 1 .. q - 1 : pid[r] # k
       /\ killed' = [killed EXCEPT ![q] = TRUE]
       /\ state' = [state EXCEPT ![q] = IF @ = "SLEEPING" THEN "RUNNABLE" ELSE @]
  /\ UNCHANGED <<work, pid, parent, isthread, pgdir, chan, at, np, nextpid, live>>

-----------------------------------------------------------------------------
Forking(p) ==
  \/ allocproc(p, "fork") \/ allocproc(p, "clone")
  \/ AllocFails(p) \/ ForkCopies(p) \/ CloneShares(p) \/ MakeRunnable(p)

Waiting(p) == CallWait(p) \/ Reap(p) \/ WaitFails(p) \/ WaitSleeps(p)
Sleeping(p) == sys_sleep(p) \/ SleepLoop(p) \/ Doze(p)
Exiting(p) == CallExit(p) \/ Die(p) \/ Exit(p)

Next ==
  \/ \E p \in Procs :
       \/ Dispatch(p) \/ Yield(p) \/ Forking(p) \/ exec(p)
       \/ Waiting(p) \/ Sleeping(p) \/ Exiting(p) \/ kill(p)
  \/ Tick

Spec == Init /\ [][Next]_vars

\* What the kernel does for p without waiting for anyone.
KernelStep(p) ==
  \/ AllocFails(p) \/ ForkCopies(p) \/ CloneShares(p) \/ MakeRunnable(p)
  \/ Reap(p) \/ WaitFails(p) \/ WaitSleeps(p) \/ SleepLoop(p) \/ Doze(p) \/ Die(p) \/ Exit(p)

\* The scheduler reaches every RUNNABLE process (EveryoneRuns in Sched), timer
\* interrupts keep coming, a process gets further between two of them, and
\* init returns to wait (init.c).
FairSpec ==
  /\ Spec
  /\ \A p \in Procs : SF_vars(Dispatch(p)) /\ WF_vars(Yield(p)) /\ SF_vars(KernelStep(p) \/ (p = initproc /\ CallWait(p)))
  /\ WF_vars(Tick)

-----------------------------------------------------------------------------
ControlTypes ==
  /\ state \in [Procs -> States]
  /\ killed \in [Procs -> BOOLEAN]
  /\ chan \in [Procs -> Channels]
  /\ at \in [Procs -> Places]
  /\ np \in [Procs -> {NoProc} \cup Procs]
KinTypes ==
  /\ pid \in [Procs -> 0 .. work.maxpid]
  /\ parent \in [Procs -> {NoProc} \cup Procs]
  /\ nextpid \in 2 .. work.maxpid + 1
MemoryTypes ==
  /\ isthread \in [Procs -> BOOLEAN]
  /\ pgdir \in [Procs -> {NoDir} \cup PageDirs]
  /\ live \subseteq PageDirs
TypeOK == work \in Workloads /\ ControlTypes /\ KinTypes /\ MemoryTypes

Alive(p) == state[p] \in {"SLEEPING", "RUNNABLE", "RUNNING"}
Exists(p) == Alive(p) \/ state[p] = "ZOMBIE"

\* Whatever the order in which parents and children exit, a process that has
\* started always has a parent that is alive to collect it.
ParentAlive ==
  \A p \in Procs \ {initproc} : Exists(p) => parent[p] # NoProc /\ Alive(parent[p])

\* No exit is missed: who sleeps in wait has a child still running and none
\* that has exited, and has not been killed.
NoMissedExit ==
  \A p \in Procs :
    state[p] = "SLEEPING" /\ at[p] = "wait" =>
      /\ ~killed[p]
      /\ Children(p) # {} /\ Zombies(p) = {}

\* kill finds at most one process: pids are not shared, also not with the
\* slots a failed fork has left behind.
PidsDistinct ==
  \A p, q \in Procs : p # q /\ pid[p] = pid[q] => pid[p] = 0

\* The processes that have a page table of their own, those fork is about to
\* make RUNNABLE included.
Owners ==
  {p \in Procs : Exists(p) /\ ~isthread[p]} \cup {np[p] : p \in {q \in Procs : at[q] = "fork_made"}}

\* The page tables allocated are those of the processes there are, one each:
\* none is leaked, freed early or freed twice.  Where threads exec this is not
\* so: exec frees the page table that a thread shares.
PageTablesMatch ==
  ~({"clone", "exec"} \subseteq work.calls) =>
    /\ live = {pgdir[p] : p \in Owners}
    /\ \A p, q \in Owners : pgdir[p] = pgdir[q] => p = q

\* Programs wait for their threads before they exit, and nothing else ends or
\* replaces a process that has threads.
ThreadsAreJoined ==
  "kill" \notin work.calls /\ ("clone" \in work.calls => work.joins /\ "exec" \notin work.calls)

\* Every process that can still run, thread or not, has a page table that is
\* allocated: it is enough that programs wait for their threads, although
\* clone() counts no users of a page table.
PageTableInUseIsLive ==
  ThreadsAreJoined => \A p \in Procs : Alive(p) => pgdir[p] \in live

\* A process that has been killed exits, if it runs, forks, waits or sleeps for
\* ticks; also when kill comes between sys_sleep's test of killed and SLEEPING,
\* where it wakes nobody and the next tick has to.  Processes that sleep for a
\* pipe, the console or a sleep lock, which no tick wakes, are not in the model.
KilledExits ==
  \A p \in Procs \ {initproc} : Alive(p) /\ killed[p] ~> state[p] = "ZOMBIE"

\* Orphans do not stay in the table: init collects every child that exits.
InitReaps ==
  \A p \in Procs \ {initproc} : state[p] = "ZOMBIE" /\ parent[p] = initproc ~> state[p] = "UNUSED"
=============================================================================
