# Verification of xv6 with user-level threads

The repository is xv6, the teaching kernel for the x86 multiprocessor, with a
system call `clone`, a library of user-level threads and locks
(`libthread.c`) and four programs that play "frisbee" with them. This directory
holds TLA+ modules of the kernel's and the library's concurrent and stateful
parts, TLC configurations that check them on small instances, and proofs that
TLAPS checks for every value of the constants.

`PROJECT.json` lists the components, the runs, the mutants that show each
property can fail, the source lines of every definition (`map`), the hazards of
the code with the properties that watch them, and the theorems.

To repeat the work, in this directory:

    tlc -workers 2 -config Pipe.cfg MCPipe      # any run: cfg and module from PROJECT.json
    tlapm PipeProofs.tla                        # any module of proofs

## How the system's parts interact

A user program makes system calls; each runs on its process's kernel stack,
with interrupts on, until it sleeps or the timer makes it yield. The scheduler
switches stacks with `ptable.lock` held (`Sched`). Processes are made, end and
are collected through the process table (`ProcTable`), and have memory of their
own (`Memory`) except for threads, which share their parent's page table. Files
are reached through three layers of references: descriptors and the file table
(`Files`), which refer to pipes (`Pipe`), inodes (`FileTree`) or the console
(`Console`). Inodes' contents (`FileData`) and directories are blocks, changed
inside operations that the log makes atomic (`Log`), cached in locked buffers
and moved by the disk driver (`BufferCache`). The shell (`ShellParser`, `Shell`)
and the frisbee programs with their locks (`Frisbee`, `ArrayLock`, `MCSLock`,
`SeqLock`) are clients; `Umalloc` is the heap of a user program.

Where one component uses another, its model uses what the other promises: `Log`
has buffers that are locked and written one block at a time, as `BlockStore`
says; `FileTree` and `FileData` take a transaction as a unit, as `AtomicDisk`
says; `Shell` takes pipes as `Stream` and `Pipe`'s hang-up say; `Console`,
`Pipe`, `Log` and `BufferCache` take sleep and wakeup as atomic under the lock,
which is what `Sched` shows of `sleep(chan, lk)`.

## Modules

Every variable and action has its source lines in `map`. Throughout, one action
is the code between two points where another actor can come in: one access to
shared memory in the thread library (the threads have no common lock), one stretch
under a spin lock in the kernel, one disk write in the log, one character in the
parser.

| part | modules | state and actions |
|---|---|---|
| array lock, `libthread.c` | `ArrayLock`, `ArrayLockFifo`, `FifoMutex` | the fields of `arraylock_t`, each thread's locals and place; an action per load or store, in the order of `frisbee_array.asm` |
| MCS lock | `MCSLock` | `lk->next`, `lk->spin`, the nodes, which threads use again; the loop that the compiler hoists is modelled as compiled |
| sequence lock | `SeqLock` | `seq`, the writers' lock, each reader's loads in the order the build made them, the word a writer is about to store |
| frisbee programs | `Frisbee`, `Game`, `MCFrisbee` | `main` and `frisbee_task` of all four programs over their locks; the program and its arguments are chosen in `Init`; `clone` may fail |
| scheduler, spin locks, timer | `Sched`, `MCSched` | per CPU `ncli`, `intena`, interrupt flag, current process and stack; per process state, saved context and place; acquire, release, pushcli, popcli, scheduler, sched, yield, sleep, wakeup, forkret, the timer interrupt |
| process table | `ProcTable`, `MCProcTable` | the fields of `struct proc` that matter, `nextpid`, the page tables in existence; allocproc, fork, clone, exec's switch, exit, wait, kill, and sleep with its test of `killed` under `tickslock` apart from SLEEPING under `ptable.lock` |
| log | `Log`, `AtomicDisk`, `MCLog` | disk, header, log blocks, cache, pins, buffer locks, `lh`, `outstanding`, `committing`; begin_op, log_write, end_op, each disk write of commit, recovery and crash |
| pipes | `Pipe`, `Stream`, `MCPipe` | the ring, its wrapping counters, who has which end open; read, write, close, fork, kill between any two steps |
| buffer cache, sleep locks, disk driver | `BufferCache`, `BlockStore`, `MCBufferCache` | the LRU list, `refcnt`, flags, data, sleep locks, the IDE queue and the disk with its interrupt |
| open files | `Files` | descriptors, the file table, references to inodes and pipe ends; open, close, dup, pipe, chdir, fork, clone, exit, wait with full tables |
| inodes, directories, names | `FileTree`, `MCFileTree` | the inode cache and the inodes on disk, entries, link counts, inode locks; path look-up one component at a time and the calls built on it; iput in three steps (the test of `ref`, the freeing, the decrement); ilock's panic "no type" |
| contents of files | `FileData`, `ByteFile`, `MCFileData` | inodes' block addresses, indirect blocks, the bitmap, the open files' offsets; bmap, itrunc, readi, writei, fileread, filewrite; `got`, what the last step has read |
| console | `Console`, `LineInput` | the input ring with `r`, `w`, `e`; consoleintr per key, consoleread, consolewrite |
| memory of processes | `Memory`, `AddressSpaces`, `MCMemory` | the free list, page directories and tables, `sz`, contents; sbrk, fork, exec, exit, wait with a `kalloc` that runs out anywhere |
| malloc and free | `Umalloc`, `MCMemory` | the circular free list in units, step by step, for one thread |
| shell | `ShellParser`, `ShellGrammar`, `Shell`, `MCShell` | the parser over characters and the buffer in which it cuts off the words, against a grammar; runcmd over processes, descriptors and pipes, where pipe, fork, open and exec may fail |

`FrisbeeProofs`, `SchedProofs`, `LogProofs`, `PipeProofs`, `ProcTableProofs`,
`BufferCacheProofs`, `FilesProofs` and `ConsoleProofs` hold the proofs. Operators
whose names begin with `Mut` are faulty variants of the definition after them;
they are used only to show that a property can be violated.

## Abstract specifications

Eight modules say what a component promises, and the runs check that the
detailed one implements it under a refinement mapping (`INSTANCE ... WITH`):

* `FifoMutex`: a lock that lets threads in in the order in which they drew a
  place (array lock). The line is read off the slots: a thread's distance behind
  `next` gives its place.
* `Game`: the token goes round, every pass counts once, the end comes after the
  last pass (all four programs).
* `AtomicDisk`: groups of operations become durable all at once; a crash loses
  only groups that have not (log). The durable disk is what recovery would make
  of the disk as it is.
* `Stream`: bytes come out in the order in which they went in (pipe).
* `BlockStore`: one value per block, changed only by the holder of its lock
  (cache, sleep locks and driver together).
* `LineInput`: what is typed is read by lines, once and in order (console).
* `ByteFile`: a file is an array of bytes; a read, which gets the bytes at the
  offset, or a write of a chunk is one step (file contents).
* `AddressSpaces`: every process has a memory of its own (page tables).

## Runs

| run | properties | what the run shows |
|---|---|---|
| `frisbee` | `MutualExclusion`, `GrantGoesToWaiter`, `FirstComeFirstServed`, `PlaysTheGame`, `GameEnds` | the array lock excludes and is fair; the MCS lock is granted only to a thread that waits for it; all programs play the game, the one with the sequence lock although its reads are reordered; that game ends when every thread was created |
| `sched` | `NoPanic`, `OneStackOneCPU`, `InterruptsMatchPlace`, `EveryoneRuns` | the discipline of `ptable.lock` across `swtch`, of `intena`, and on one CPU that every process gets to run and every sleeper is woken |
| `proc` | `NoMissedExit`, `PageTablesMatch`, `PageTableInUseIsLive`, `KilledExits`, `InitReaps` | parents see their children exit, page tables have one owner and outlive their use, a process killed where it runs, forks, waits or sleeps for ticks ends, init collects orphans |
| `log` | `NoLostWakeup`, `QuietIsDurable`, `NoPanic`, `AtomicSpec`, `SomeoneBegins` | atomic transactions over crashes anywhere, recovery included; nobody is left asleep in `begin_op` |
| `pipe` | `SleepersWait`, `NoUseAfterFree`, `StreamSpec`, `Hangup` | a pipe is a stream over counters that wrap; sleepers have a reason; whoever sleeps on a pipe whose other end is closed returns |
| `buffers` | `OneBufferPerBlock`, `CleanIsDisk`, `StoreSpec`, `RequestFinishes` | the cache, its locks, the queue and the interrupt work as one store of blocks; every request ends, also on a faulty disk |
| `files` | `RefsCounted`, `ObjectsCounted` | `f->ref` is the number of references there are, and the references to inodes and pipe ends are those of the files in use |
| `tree` | `NlinkCounted`, `InodesMatch`, `NoDeadlockGrowing` | link counts equal entries but for the changes under way; no inode with an entry or in use is freed, and none without is left; calls that only add names do not deadlock; the first two with the conditions below |
| `console` | `ReadersWait`, `LinesSpec` | typed lines are read in order and once; nobody sleeps while there is a line |
| `filedata` | `ByteSpec` | files are arrays of bytes, over direct and indirect blocks, truncation, shared offsets and writes in chunks; a read gets the bytes there are at its offset |
| `memory` | `EachPageOnce`, `SortedAndJoined`, `PrivateMemory` | no page is lost or in two places when memory runs out anywhere; processes do not see each other's memory; the heap's list stays sorted and joined, its blocks are as large as was asked for and do not overlap |
| `shell` | `ParserRight`, `AllOver` | the parser agrees with a grammar on every line of up to five characters and leaves every word a string of its own in the buffer; pipelines, lists, blocks, redirections and background commands end, with too few processes and failing pipes too |

All twelve pass. A run that covers several workloads has a variable `work`, fixed
in the initial state, that restricts the calls made (`MC` modules); the
specification that is checked is otherwise the module's own.

### Bounds, and why they are enough

* `frisbee`: 3 threads (2 with the MCS lock), 1 or 2 passes. With three threads
  a slot of the array lock is used again while others wait; with two the nodes of
  the MCS queue are reused and the thread dropped by `release` occurs.
* `sched`: 2 processes on 2 CPUs, or on one. Two of each are needed for a process
  to move to another CPU while its old stack is still in use.
* `proc`: 4 slots, 4 page tables, pids up to 3 or 4; four workloads: with exec,
  kill and failing memory, with kill and sleep, with threads that are joined, and
  with three generations. A grandchild, a slot that is used again, and, on two CPUs,
  a kill between the test of `killed` in sys_sleep and SLEEPING occur.
* `log`: 2 processes on 3 blocks and 3 processes on 1 block, 2 values,
  `MAXOPBLOCKS` 2, `LOGSIZE` 4, operations that write one block. Group commit,
  absorption, waiting for room and for a commit, and crashes in recovery occur.
* `pipe`: `PIPESIZE` 2, counters modulo 4, strings of up to 3 bytes: both
  sides sleep and the counters wrap. Two processes with two kinds of byte, three
  with one, or two of which one may be killed.
* `buffers`: 2 processes, 3 buffers, 2 blocks contended for or 4 blocks used
  (more than there are buffers), one pinned block, a good disk and a faulty one. Where
  bget would panic for want of a buffer the call is not made.
* `files`: 2 processes, 2 descriptors each, 3 files, one inode, one pipe: every
  table fills up.
* `tree`: 2 processes, 3 inodes, names a and b, four sets of calls: on files, on a
  directory that is made, used and removed, calls that remove nothing, and all kinds
  one call after the other. Where ialloc would panic for want of an inode the call is not made.
  Overlapping calls are not followed beyond a lapse of the kind "stray" (below).
* `console`: 2 processes, a buffer of 2 characters, indices modulo 4.
* `filedata`: blocks of 2 bytes, 1 direct and 2 indirect blocks, 8 blocks, chunks
  of 2 bytes, writes of 3 and reads of 1 or 3 bytes, unsigned arithmetic modulo 16, so that `off + n` overflows.
* `memory`: pages of 2 bytes, 3 entries per table, 8 to 16 pages: memory runs out
  at every allocation of sbrk, fork and exec. `Umalloc`: sizes 1, 9 and 24, a heap
  of up to 14 units; `nu * sizeof(Header)` stays far from the range of int.
* `shell`: words up to `MAXARGS` 3, lines of up to 5 characters for the parser; 2 to
  7 processes for runcmd.

`memory` is checked up to the names of pages (a `VIEW`): `EachPageOnce` is
part of the view, so that a state in which a page is lost is never taken for one in
which it is not. `tree` uses symmetry, and only invariants. Deadlock is checked
except in `tree` and `pipe`, where processes may wait for ever for a lock or for
each other by what the code does, and in `shell`, which ends.

### Fairness

A step of a process is fair because the scheduler goes round the table
(`proc.c:337`) and the timer makes every process yield. Weak fairness is assumed of
steps that stay possible once they are (stores of a thread, code inside a
system call, the disk and its interrupt); strong fairness where the step needs
a lock or a CPU that is taken and given back again and again: an
interrupted stretch of `Sched` and its timer, being dispatched and a step inside the
kernel in `ProcTable` (and weak fairness of yielding; who holds or spins for `tickslock`
has interrupts off and is not preempted), `end_op` in `Log`. No process is assumed to make
a system call, except that init goes on calling wait (`init.c:34`), and that
processes exit in `pipe`. `PlaysTheGame` and the other refinements are safety
properties and need none.

### Conditions under which a property is claimed

The code does not keep some properties in general; each is stated for the case in
which the code, as this repository uses it, means to keep it, and the condition
is part of the property or a named constant:

* `GameEnds`: the sequence-lock program, every clone succeeding. The test-and-set
  lock is not fair, and the MCS lock can lose a thread.
* `PageTablesMatch`: not when threads call exec. `PageTableInUseIsLive`: while
  main threads wait for their threads (`ThreadsAreJoined`).
* `NoPanic` of `Log`: operations use fewer blocks than they may (`OpBlocks`): one of
  two in the run; in the theorem at least two stay unused and the log on disk has
  `LOGSIZE` blocks.
* `SleepersWait`, for readers: while nobody is killed.
* `CleanIsDisk`, `StoreSpec`: while the disk does not fail.
* `KilledExits`: a process that runs, forks, waits or sleeps for ticks when it is
  killed. Those that sleep in a pipe, at the console or for a sleep lock are not in
  `ProcTable`; a killed reader of a pipe can sleep for good (below).
* `RequestFinishes`: on a faulty disk, too; what is then in the buffer is not claimed.
* `RefsCounted`, `ObjectsCounted`: threads only exit, and a behaviour uses fork
  or clone and not both (`threads` in `Files`), as in the programs of this repository.
* `NoDeadlockGrowing`: calls that remove and link nothing.
* `NlinkCounted`, `InodesMatch`: as long as nobody enters a name in a directory that
  has been removed (and is still somebody's working directory), or goes up from one
  by `..`. `MCFileTree` has such steps, and records the first as the lapse "stray".
  That no inode is left behind (the second half of `InodesMatch`) is claimed, besides, as
  long as no iput reads `ref` while another process is between its own test and its decrement
  for the same inode (the lapse "race").

## Known deviations

What reading the code for the models brought up and the conditions above step
around. No run is there to exhibit these; the lines are where to look.

* `libthread.c:32`: `thread_create` drops `clone`'s result; if all clones fail, main
  announces the end with no pass made (`frisbee.c:46`).
* `libthread.c:114`: "Compare and swap" (line 109) is a load and a store
  under `lk->spin`, which `mcslock_acquire`'s xchg does not take: a thread that
  appends itself in between is dropped and waits for ever.
* `libthread.c:122`: `next` is not volatile; the build tests it once and then loops
  for ever (`frisbee_mcs.asm`, 34d), so a late successor is not granted the lock.
* `libthread.c:62`: the build loads `*mem` before both loads of `seq`
  (`frisbee_seq.asm`, 35b-35f), so equal sequence numbers do not bracket it, although
  line 63 says "prevent reordering the reads".
* `proc.c:293`: wait frees a page table that threads share, when the main thread was
  killed in wait (`proc.c:306`); `vm.c:82` says "one page table per process".
* `proc.c:488`: kill looks at pids only; the pid a failed fork left behind
  (`proc.c:96`, `196`) marks an UNUSED slot, and the next process there is killed.
* `log.c:218`: the log on disk holds `LOGSIZE`-1 blocks (`param.h:11` says `LOGSIZE`);
  operations that use all that `begin_op` grants them panic.
* `pipe.c:86`: a killed writer returns without waking the reader for the bytes it has
  stored.
* `pipe.c:107`: a kill between the test of `killed` and sleep leaves the reader
  asleep (`proc.c:479`, `490`).
* `ide.c:118`: an error of the disk is ignored and the buffer marked valid
  (`buf.h:12`: "buffer has been read from disk").
* `proc.c:564`: clone copies descriptors without filedup: a thread's close gives back
  its parent's reference. `proc.c:207`, `237`: the entries a thread leaves in its
  slot are inherited by the next process there.
* `fs.c:338`: two iputs at once can both see the other's reference, and nobody frees
  the inode (`fs.c:328`).
* `sysfile.c:250`: create, also of a single process, in a directory that has been
  removed enters a name that goes with the directory; the inode keeps its count of one
  and is never freed.
* `fs.c:310`: `..` of a removed directory can lead to an inode that is free; ilock
  panics.
* `sysfile.c:281`, `fs.c:335`: create holds the new inode while it takes the
  directory's lock again; unlink of that name holds the directory and waits for the inode.
* `fs.c:561`: `link("a", ".")` waits for a lock that the process itself holds.

## Proofs

TLAPS checks these for every value of the constants under the assumptions of the
modules (`FilesAssumption` and the like), which say only that counts are natural
numbers, that the marks for "none" are not members of the sets they mark, and where
a table is not empty; `PIPESIZE` and `INPUT_BUF` divide the width of their
counters, as they do in the code; the array lock has at least as many slots as threads
(`frisbee_array.c:26`). Each inductive invariant was first checked by TLC on the
instance of its run.

| module | theorems | stated by a run as |
|---|---|---|
| `FrisbeeProofs` | `LockTyped`, `LockExcludes`, `LockIsFirstComeFirstServed`, `GrantsGoToWaiters`, `LocksExclude`, `ProgramsPlayTheGame` | `MutualExclusion`, `FirstComeFirstServed`, `GrantGoesToWaiter`, `PlaysTheGame` |
| `SchedProofs` | `SchedTyped`, `SchedNeverPanics`, `StacksAreExclusive`, `InterruptsAreRight` | `NoPanic`, `OneStackOneCPU`, `InterruptsMatchPlace` |
| `ProcTableProofs` | `ProcTyped`, `ExitsAreNoticed`, `ParentsOutlive`, `PidsAreDistinct`, `PageTablesHaveOneOwner`, `UsedPageTablesAreLive` | `NoMissedExit`, `PageTablesMatch`, `PageTableInUseIsLive` |
| `LogProofs` | `LogTyped`, `QuietThenDurable`, `LogNeverPanics`, `BeginNeverLosesWakeup`, `LogImplementsAtomicDisk` | `QuietIsDurable`, `NoPanic`, `NoLostWakeup`, `AtomicSpec` |
| `PipeProofs` | `PipeTyped`, `WritersSleepOnFull`, `ReadersSleepOnEmpty`, `PipeLosesNoWakeup`, `PageOutlivesUsers`, `PipeImplementsStream` | `SleepersWait`, `NoUseAfterFree`, `StreamSpec` |
| `BufferCacheProofs` | `CacheTyped`, `BlocksCachedOnce`, `HeldBuffersStay`, `CacheNeverPanics`, `InterruptsFindTheirRequest`, `CacheLosesNoWakeup`, `CleanBuffersMatchTheDisk`, `CacheImplementsStore` | `OneBufferPerBlock`, `CleanIsDisk`, `StoreSpec` |
| `FilesProofs` | `FilesTyped`, `FileReferencesCounted`, `ObjectReferencesCounted`, `FilesNeverPanic` | `RefsCounted`, `ObjectsCounted` |
| `ConsoleProofs` | `ConsoleTyped`, `SleepingReadersHaveNothing`, `ConsoleImplementsLines` | `ReadersWait`, `LinesSpec` |

The arguments, and why an invariant is needed that is stronger than the property:

* **Array lock** (`LockIInv`, in `ArrayLock`). Exclusion depends on which slots have
  been drawn: they are a cyclic interval from a front slot `f` up to `next`, each
  belongs to one thread, only the front slot can be set, and it is the slot of the
  thread inside. That `next` never runs into the front needs a slot to be
  left over, which follows by counting: a thread about to draw has none, and there
  are at most `size` threads. For the refinement of `FifoMutex` the distances of the
  drawn slots behind `next` are shown to be the numbers 1 .. n, each once; drawing
  adds one to each and enters at 1 (`OrderedAppend`), releasing removes the largest
  (`OrderedTail`). `ProgramUsesLock` carries all of it from the lock to the frisbee
  programs: each of their steps is a step of the lock or leaves it alone.
* **MCS lock** (`GrantIInv`). Whoever a node points to waits, has not been
  granted the lock, and has that node as its predecessor. The last part is what
  keeps two releasing threads from granting it to the same thread. It holds
  although `release` can drop a thread from the queue.
* **Frisbee programs** (`ProgramIInv`). One thread at most holds the program's lock;
  for the MCS lock because exactly one thread in its queue has it, and nobody when
  the tail is NULL, so that a thread that was dropped waits for ever and never
  comes in second. The token's number, the count of passes and the players' places
  fit together; in `frisbee_seq`, where reads are reordered, a player that reads its
  own number reads a number that only it can change, so that a stale read is right, and
  the number of passes it has loaded before it takes the writers' lock is still right
  when it is stored.
  For the announcement main's loop is counted: it has collected one thread for every
  wait, so that after the last wait all threads are gone.
* **Scheduler** (`IInv`, in `Sched`). Which CPU runs on which stack, who holds
  `ptable.lock` across a switch, and what `ncli`, `intena` and the flag are at
  each place.
* **Process table** (`IInv`). Who is in fork or clone has an EMBRYO slot of its own;
  where a process can sleep and on what; a parent is alive and has a smaller pid
  than its children, which makes the hand-over in exit go to somebody who is there;
  pids grow; page tables have one owner each. `NoMissedExit` is part of it.
* **Log** (`IInv`, in `Log`). `CommitInv`: who is inside of commit is alone.
  `HolderInv`: who has which buffer. `HeaderInv`: what the header on disk
  says at each stage. `BufferInv`: a pinned buffer is in the log. `ProgressInv`: how
  far commit or recovery has come, and what then is on disk. `SpaceInv`:
  the log's length and what is still reserved fit in `LOGSIZE`. The refinement shows
  for each disk write that what recovery would make of the disk either does not
  change or, at the write of the header, takes in the whole group.
* **Pipe** (`IInv`). The ring holds at most `PIPESIZE` bytes modulo the counters'
  width; the page exists as long as an end is open; who is inside the pipe's code
  has the end open it uses; a writer sleeps only while the pipe is full.
* **Buffer cache** (`IInv`). The list is a permutation of the buffers; reference
  counts cover holders and waiters; a locked buffer has one holder; queued
  buffers are locked, distinct and in the state in which they were queued; the disk
  works on the head of the queue.
* **Open files** (`IInv`). `RefsCounted` compares `f->ref` with a
  number of references that is the cardinality of a set of pairs (process,
  descriptor), together with the references that system calls under way have in
  hand. `InHand` says which calls have which, `Slotwise` and `Fresh` what slots in
  the making hold, `Refs` counts references file by file, and `Balanced` the
  references to each inode and pipe end by the files and working directories that
  have them. The proofs show first what each action adds or takes away and that
  every step keeps the parts that do not count, then the counts (one place of a
  function changes, two places, all descriptors of a process at once in fork).
  `FilesNeverPanic` follows: filedup and fileclose never meet a count below one.
* **Console** (`IInv`). `Ring` says how `r`, `w` and `e`, which wrap, relate: there
  are numbers `m` and `l`, `m + l` at most `INPUT_BUF`, such that `w` is `m` beyond
  `r` and `e` is `l` beyond `w`, modulo the indices' width; the `l` characters that
  can still be erased hold no newline and no end of file, and there are none when
  the ring is full. This is what makes backspace stop at `w` and `^U` at the last
  newline. `Reading` says what a process has read while it goes on reading: no
  newline, no end of file, and it sleeps only while `r` equals `w`. For the
  refinement of `LineInput` the text between two indices is shown to lose its last
  character when one is erased, to gain one when a key is stored, and to be cut
  at one place by a read; where consoleread's loop stops is the least index at
  which it may stop (`LeastExists`).

The lemmas that need facts on finite sets or least elements assume them as one
formula (`Counting`, `Counted`, `NoneCounted`, `SlotLeft`, `LeastExists`); it is derived from the library's theorems near
the end of the module, before the theorems that use the lemmas, so that the
library is in the provers' context only there.

### What is only model-checked

* Liveness under fairness (`GameEnds`, `EveryoneRuns`, `KilledExits`, `InitReaps`,
  `SomeoneBegins`, `Hangup`, `RequestFinishes`, `AllOver`): beyond the prover.
* `FileTree`, `FileData` and `Memory`, whose invariants (entries against link counts
  with calls under way, block maps, free lists and page tables) have not been made
  inductive.
* `Umalloc`, `ShellParser` and `Shell`: recursive structures, for which the prover
  has no induction.

## What is not modelled

The checks of system call arguments, boot and the start of the CPUs, the interrupt
controllers, keyboard and serial line (`Console` takes their characters as input),
traps other than the timer, the user library, the kernel's string
functions, `mkfs` and the user programs other than the shell and the frisbee
programs; each with its reason in `PROJECT.json`. In what is modelled, messages,
formatting, device registers and the layout of directory entries are left out.
