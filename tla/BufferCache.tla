---------------------------- MODULE BufferCache ----------------------------
(***************************************************************************)
(* The buffer cache (bio.c), the locks of its buffers (sleeplock.c) and    *)
(* the disk driver below it (ide.c).                                       *)
(*                                                                         *)
(* A stretch of code under bcache.lock, a sleep lock's own lk, or idelock  *)
(* is one action.  A process takes a block with bread, may change it and   *)
(* then has it written (bwrite) or pins it for the log (log_write), and    *)
(* gives it back with brelse.                                              *)
(***************************************************************************)
EXTENDS Naturals, Sequences, FiniteSets

CONSTANTS
  Procs,
  NBUF,
  Blocks,
  Values,
  MaxPinned    \* buffers that log.c pins at a time

NoProc == "none"
NoBlock == "none"
NoBuf == 0
Bufs == 1 .. NBUF

ASSUME BufferAssumption ==
  /\ IsFiniteSet(Procs) /\ NBUF \in Nat /\ MaxPinned \in Nat
  /\ NoProc \notin Procs /\ NoBlock \notin Blocks

VARIABLES
  list,                         \* bcache.head, most recently used first
  blockno, refcnt, data,        \* struct buf
  valid, dirty,                 \* B_VALID, B_DIRTY
  locked, pid,                  \* struct sleeplock
  idequeue,
  device,                       \* the command the disk works on
  irq,                          \* the disk has raised an interrupt
  disk,
  faulty,                       \* may the disk fail to do what it is told
  pc, blk, buf, changed         \* per process

listVars == <<list, blockno, refcnt>>
lockVars == <<locked, pid>>
ideVars == <<idequeue, device, irq, disk, faulty>>
vars == <<listVars, data, valid, dirty, lockVars, ideVars, pc, blk, buf, changed>>

Places == {"idle", "acquiresleep", "lock_asleep", "iderw", "rw_asleep", "rw_woken", "have", "brelse"}
NoCommand == [kind |-> "none"]
Idle == device = NoCommand

Init ==
  /\ list = [i \in Bufs |-> NBUF + 1 - i]          \* binit
  /\ blockno = [b \in Bufs |-> NoBlock] /\ refcnt = [b \in Bufs |-> 0]
  /\ \E v \in Values : data = [b \in Bufs |-> v]
  /\ valid = {} /\ dirty = {}
  /\ locked = [b \in Bufs |-> FALSE] /\ pid = [b \in Bufs |-> NoProc]
  /\ idequeue = <<>> /\ device = NoCommand /\ irq = FALSE
  /\ disk \in [Blocks -> Values] /\ faulty \in BOOLEAN
  /\ pc = [p \in Procs |-> "idle"] /\ blk = [p \in Procs |-> NoBlock]
  /\ buf = [p \in Procs |-> NoBuf] /\ changed = {}

-----------------------------------------------------------------------------
\* bio.c

Goes(p, from, to) == pc[p] = from /\ pc' = [pc EXCEPT ![p] = to]

Cached(n) == {b \in Bufs : blockno[b] = n}

\* A mutation of Unused: bget may recycle a pinned buffer.
MutUnusedDirty(b) == refcnt[b] = 0

Unused(b) == refcnt[b] = 0 /\ b \notin dirty

Hit(p, n) ==
  /\ Goes(p, "idle", "acquiresleep")
  /\ \E b \in Cached(n) :
       /\ refcnt' = [refcnt EXCEPT ![b] = @ + 1]
       /\ buf' = [buf EXCEPT ![p] = b]
  /\ blk' = [blk EXCEPT ![p] = n]
  /\ UNCHANGED <<list, blockno, data, valid, dirty, lockVars, ideVars, changed>>

\* Two mutations of Recycle: the list was unlocked since the look-up, or the flags
\* are left as they were.
MutRecycleStale(p, n) ==
  /\ Goes(p, "idle", "acquiresleep")
  /\ \E i \in Bufs :
       /\ Unused(list[i]) /\ \A j \in i + 1 .. NBUF : ~Unused(list[j])
       /\ blockno' = [blockno EXCEPT ![list[i]] = n]
       /\ refcnt' = [refcnt EXCEPT ![list[i]] = 1]
       /\ valid' = valid \ {list[i]}
       /\ buf' = [buf EXCEPT ![p] = list[i]]
  /\ blk' = [blk EXCEPT ![p] = n]
  /\ UNCHANGED <<list, data, dirty, lockVars, ideVars, changed>>

MutRecycleValid(p, n) ==
  /\ Goes(p, "idle", "acquiresleep")
  /\ Cached(n) = {}
  /\ \E i \in Bufs :
       /\ Unused(list[i]) /\ \A j \in i + 1 .. NBUF : ~Unused(list[j])
       /\ blockno' = [blockno EXCEPT ![list[i]] = n]
       /\ refcnt' = [refcnt EXCEPT ![list[i]] = 1]
       /\ buf' = [buf EXCEPT ![p] = list[i]]
  /\ blk' = [blk EXCEPT ![p] = n]
  /\ UNCHANGED <<list, valid, data, dirty, lockVars, ideVars, changed>>

\* The least recently used buffer that is neither referred to nor dirty.  With none
\* bget panics; here the call is not made.
Recycle(p, n) ==
  /\ Goes(p, "idle", "acquiresleep")
  /\ Cached(n) = {}
  /\ \E i \in Bufs :
       /\ Unused(list[i]) /\ \A j \in i + 1 .. NBUF : ~Unused(list[j])
       /\ blockno' = [blockno EXCEPT ![list[i]] = n]
       /\ refcnt' = [refcnt EXCEPT ![list[i]] = 1]
       /\ valid' = valid \ {list[i]}
       /\ buf' = [buf EXCEPT ![p] = list[i]]
  /\ blk' = [blk EXCEPT ![p] = n]
  /\ UNCHANGED <<list, data, dirty, lockVars, ideVars, changed>>

bget(p, n) == Hit(p, n) \/ Recycle(p, n)

\* acquiresleep, then bread's test of B_VALID under the lock it returns with
acquiresleep(p) ==
  LET b == buf[p]
  IN  /\ pc[p] = "acquiresleep"
      /\ \/ /\ locked[b] /\ Goes(p, "acquiresleep", "lock_asleep")
            /\ UNCHANGED lockVars
         \/ /\ ~locked[b] /\ Goes(p, "acquiresleep", IF b \in valid THEN "have" ELSE "iderw")
            /\ locked' = [locked EXCEPT ![b] = TRUE]
            /\ pid' = [pid EXCEPT ![b] = p]
      /\ UNCHANGED <<listVars, data, valid, dirty, ideVars, blk, buf, changed>>

\* The caller of bread changes the data ...
Modify(p, v) ==
  /\ pc[p] = "have"
  /\ data' = [data EXCEPT ![buf[p]] = v]
  /\ changed' = changed \cup {p}
  /\ UNCHANGED <<listVars, valid, dirty, lockVars, ideVars, pc, blk, buf>>

\* ... and has it written at once,
bwrite(p) ==
  /\ Goes(p, "have", "iderw")
  /\ pid[buf[p]] = p
  /\ dirty' = dirty \cup {buf[p]}
  /\ changed' = changed \ {p}
  /\ UNCHANGED <<listVars, data, valid, lockVars, ideVars, blk, buf>>

\* or pins the buffer until the log has been committed (log_write).
Pin(p) ==
  /\ pc[p] = "have" /\ p \in changed
  /\ Cardinality(dirty \cup {buf[p]}) <= MaxPinned
  /\ dirty' = dirty \cup {buf[p]}
  /\ changed' = changed \ {p}
  /\ UNCHANGED <<listVars, data, valid, lockVars, ideVars, pc, blk, buf>>

WakeLock(b) == [q \in Procs |-> IF pc[q] = "lock_asleep" /\ buf[q] = b THEN "acquiresleep" ELSE pc[q]]

\* The list with b moved to its front
MoveToFront(b) ==
  LET k == CHOOSE i \in Bufs : list[i] = b
  IN  [i \in Bufs |-> IF i = 1 THEN b ELSE IF i <= k THEN list[i - 1] ELSE list[i]]

\* brelse: releasesleep, then the reference under bcache.lock
releasesleep(p) ==
  /\ pc[p] = "have" /\ p \notin changed
  /\ pid[buf[p]] = p
  /\ locked' = [locked EXCEPT ![buf[p]] = FALSE]
  /\ pid' = [pid EXCEPT ![buf[p]] = NoProc]
  /\ pc' = [WakeLock(buf[p]) EXCEPT ![p] = "brelse"]
  /\ UNCHANGED <<listVars, data, valid, dirty, ideVars, blk, buf, changed>>

brelse(p) ==
  LET b == buf[p]
  IN  /\ Goes(p, "brelse", "idle")
      /\ refcnt' = [refcnt EXCEPT ![b] = @ - 1]
      /\ list' = IF refcnt[b] = 1 THEN MoveToFront(b) ELSE list
      /\ buf' = [buf EXCEPT ![p] = NoBuf] /\ blk' = [blk EXCEPT ![p] = NoBlock]
      /\ UNCHANGED <<blockno, data, valid, dirty, lockVars, ideVars, changed>>

-----------------------------------------------------------------------------
\* ide.c

\* idestart: the data of a write goes to the disk with the command.
Command(b) ==
  IF b \in dirty THEN [kind |-> "write", n |-> blockno[b], v |-> data[b]]
                 ELSE [kind |-> "read", n |-> blockno[b]]

Synced(b) == b \in valid /\ b \notin dirty

\* The request is queued, started if it is the first, and waited for.
iderw(p) ==
  LET b == buf[p]
  IN  /\ Goes(p, "iderw", "rw_asleep")
      /\ ~Synced(b) /\ pid[b] = p
      /\ idequeue' = Append(idequeue, b)
      /\ device' = IF idequeue = <<>> THEN Command(b) ELSE device
      /\ UNCHANGED <<listVars, data, valid, dirty, lockVars, irq, disk, faulty, blk, buf, changed>>

\* The loop of iderw, after a wakeup
Woken(p) ==
  /\ Goes(p, "rw_woken", IF Synced(buf[p]) THEN "have" ELSE "rw_asleep")
  /\ UNCHANGED <<listVars, data, valid, dirty, lockVars, ideVars, blk, buf, changed>>

\* The disk has done, or failed to do, what it was told, and interrupts.
DiskDone ==
  /\ ~Idle /\ ~irq
  /\ irq' = TRUE
  /\ \/ device.kind = "write" /\ disk' = [disk EXCEPT ![device.n] = device.v]
     \/ (device.kind = "read" \/ faulty) /\ UNCHANGED disk
  /\ UNCHANGED <<listVars, data, valid, dirty, lockVars, idequeue, device, faulty, pc, blk, buf, changed>>

WakeBuf(b) == [q \in Procs |-> IF pc[q] = "rw_asleep" /\ buf[q] = b THEN "rw_woken" ELSE pc[q]]

\* A mutation of ideintr: the finished request stays at the head of the queue.
MutIdeintr ==
  /\ irq
  /\ irq' = FALSE
  /\ idequeue # <<>>            \* always so: DiskWorksOnHead
  /\ LET b == Head(idequeue)
     IN  /\ UNCHANGED idequeue
         /\ \/ b \notin dirty /\ data' = [data EXCEPT ![b] = disk[device.n]]
            \/ b \notin dirty /\ faulty /\ UNCHANGED data
            \/ b \in dirty /\ UNCHANGED data
         /\ valid' = valid \cup {b} /\ dirty' = dirty \ {b}
         /\ pc' = WakeBuf(b)
         /\ device' = Command(b)
  /\ UNCHANGED <<listVars, lockVars, disk, faulty, blk, buf, changed>>

ideintr ==
  /\ irq
  /\ irq' = FALSE
  /\ idequeue # <<>>            \* always so: DiskWorksOnHead
  /\ LET b == Head(idequeue)
     IN  /\ idequeue' = Tail(idequeue)
         /\ \/ b \notin dirty /\ data' = [data EXCEPT ![b] = disk[device.n]]
            \/ b \notin dirty /\ faulty /\ UNCHANGED data
            \/ b \in dirty /\ UNCHANGED data
         /\ valid' = valid \cup {b} /\ dirty' = dirty \ {b}
         /\ pc' = WakeBuf(b)
         /\ device' = IF Tail(idequeue) = <<>> THEN NoCommand ELSE Command(Head(Tail(idequeue)))
  /\ UNCHANGED <<listVars, lockVars, disk, faulty, blk, buf, changed>>

-----------------------------------------------------------------------------
Kernel(p) == acquiresleep(p) \/ iderw(p) \/ Woken(p) \/ brelse(p)

\* What the caller does while it has the block; in the end it gives it back.
Caller(p) == (\E v \in Values : Modify(p, v)) \/ bwrite(p) \/ Pin(p) \/ releasesleep(p)

Next ==
  \/ \E p \in Procs : Kernel(p) \/ Caller(p) \/ \E n \in Blocks : bget(p, n)
  \/ DiskDone \/ ideintr

Spec == Init /\ [][Next]_vars

FairSpec ==
  /\ Spec
  /\ \A p \in Procs : WF_vars(Kernel(p))
  /\ WF_vars(DiskDone) /\ WF_vars(ideintr)

-----------------------------------------------------------------------------
\* Properties

ListTypes ==
  /\ list \in [Bufs -> Bufs] /\ blockno \in [Bufs -> Blocks \cup {NoBlock}] /\ refcnt \in [Bufs -> Nat]
DataTypes ==
  /\ data \in [Bufs -> Values] /\ valid \subseteq Bufs /\ dirty \subseteq Bufs
  /\ disk \in [Blocks -> Values] /\ faulty \in BOOLEAN
LockTypes == locked \in [Bufs -> BOOLEAN] /\ pid \in [Bufs -> Procs \cup {NoProc}]
QueueTypes == idequeue \in Seq(Bufs) /\ irq \in BOOLEAN
ProcTypes ==
  /\ pc \in [Procs -> Places] /\ blk \in [Procs -> Blocks \cup {NoBlock}]
  /\ buf \in [Procs -> Bufs \cup {NoBuf}] /\ changed \subseteq Procs
TypeOK == ListTypes /\ DataTypes /\ LockTypes /\ QueueTypes /\ ProcTypes

\* bget never caches a block twice, whatever two processes look up at once.
OneBufferPerBlock == \A n \in Blocks : Cardinality(Cached(n)) <= 1

\* From bget to the end of brelse, asleep or not, a process's buffer stays the
\* buffer of the block it asked for: no other bget recycles it.
HeldStays == \A p \in Procs : buf[p] # NoBuf => blockno[buf[p]] = blk[p]

\* A clean buffer holds what the disk holds, unless its holder is changing it
\* or the disk fails, of which ideintr takes no notice.
CleanIsDisk ==
  ~faulty => \A b \in valid \ dirty :
    (\A p \in changed : buf[p] # b) => data[b] = disk[blockno[b]]

\* While there are requests the disk works on the first of them, or has
\* finished it and interrupts, so that ideintr completes the right buffer; an
\* interrupt always finds a request.
DiskWorksOnHead ==
  /\ (idequeue = <<>>) <=> Idle
  /\ irq => ~Idle
  /\ idequeue # <<>> => device = Command(Head(idequeue))

\* No wakeup is lost: whoever sleeps in acquiresleep sleeps on a lock that
\* somebody has, and whoever sleeps in iderw has its buffer in the queue.
NoLostWakeup ==
  \A p \in Procs :
    /\ pc[p] = "lock_asleep" => locked[buf[p]]
    /\ pc[p] = "rw_asleep" => \E i \in DOMAIN idequeue : idequeue[i] = buf[p]

\* The panics of iderw, bwrite and brelse: the caller has the lock, and the
\* buffer it hands to iderw needs the disk.
NoPanic ==
  \A p \in Procs :
    /\ pc[p] \in {"iderw", "rw_asleep", "rw_woken", "have"} => locked[buf[p]] /\ pid[buf[p]] = p
    /\ pc[p] = "iderw" => ~Synced(buf[p])

Contents ==
  [n \in Blocks |->
     IF \E b \in Cached(n) : b \in valid \cup dirty
     THEN data[CHOOSE b \in Cached(n) : b \in valid \cup dirty] ELSE disk[n]]
Holder ==
  [n \in Blocks |->
     IF \E p \in Procs : blk[p] = n /\ pc[p] \in {"iderw", "rw_asleep", "rw_woken", "have"}
     THEN CHOOSE p \in Procs : blk[p] = n /\ pc[p] \in {"iderw", "rw_asleep", "rw_woken", "have"}
     ELSE NoProc]
Store == INSTANCE BlockStore WITH contents <- Contents, holder <- Holder

\* Caching, recycling, pinning and the disk's queue do not show: every block
\* has one value, which only the process between bread and brelse changes, and
\* which the next one finds, as long as the disk does what it is told.
StoreSpec == Store!Init /\ [][faulty \/ Store!Next]_<<Contents, Holder>>

\* Every request to the disk is finished and its process has the block, be the
\* disk faulty or not.
RequestFinishes == \A p \in Procs : (pc[p] = "iderw") ~> (pc[p] = "have")
=============================================================================
