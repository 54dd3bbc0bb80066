-------------------------------- MODULE Pipe --------------------------------
(***************************************************************************)
(* Pipes (pipe.c), with what opens, shares and closes their two ends       *)
(* (filedup and fileclose of file.c, as fork, close and exit call them)    *)
(* and with kill.                                                          *)
(*                                                                         *)
(* A stretch of code under p->lock is one action, except where sleep may   *)
(* be raced: the test of `killed' and going to sleep are two actions, and  *)
(* p->lock is held in between.                                             *)
(***************************************************************************)
EXTENDS Naturals, Sequences, FiniteSets

CONSTANTS
  Procs,
  Values,
  PIPESIZE,
  WRAP,        \* uint counters: 2^32 in the code
  Counts,      \* lengths of reads and writes
  Killable,    \* processes that others kill
  Failed       \* -1

ASSUME PipeAssumption ==
  /\ PIPESIZE \in Nat \ {0} /\ Counts \subseteq Nat
  /\ WRAP \in Nat /\ WRAP > PIPESIZE /\ WRAP % PIPESIZE = 0
  /\ Killable \subseteq Procs /\ "none" \notin Procs

Ends == {"r", "w"}
NoProc == "none"

VARIABLES
  data, nread, nwrite, readopen, writeopen,   \* struct pipe
  lock,       \* p->lock, when it is held between two actions
  allocated,  \* the page of the pipe is not on the free list
  ref,        \* struct file of each end: its reference count
  ends,       \* the ends each process has open
  killed,
  pc,
  rest,       \* what a writer still has to write
  want,       \* what a reader has asked for
  ret         \* what a read is about to return

pipeVars == <<data, nread, nwrite, readopen, writeopen, allocated>>
argVars == <<rest, want>>
vars == <<pipeVars, lock, ref, ends, killed, pc, argVars, ret>>

Places == {"user", "close_r", "close_w", "read", "read_doze", "read_asleep",
           "read_done", "write", "write_doze", "write_asleep"}

-----------------------------------------------------------------------------
\* The ring

Plus(a, k) == (a + k) % WRAP

Empty == nread = nwrite
Full == nwrite = Plus(nread, PIPESIZE)

\* Room for one byte more
MutRoomOne == (nread + PIPESIZE + 1 + WRAP - nwrite) % WRAP

\* How many bytes pipewrite stores before it finds the pipe full, and how many
\* piperead takes before it finds it empty
Room == (nread + PIPESIZE + WRAP - nwrite) % WRAP
Used == (nwrite + WRAP - nread) % WRAP

Least(a, b) == IF a <= b THEN a ELSE b

\* data[nwrite++ % PIPESIZE] = addr[i], for the first k bytes of s
Stored(s, k) ==
  [j \in 0 .. PIPESIZE - 1 |->
     IF \E i \in 1 .. k : (nwrite + i - 1) % PIPESIZE = j
     THEN s[CHOOSE i \in 1 .. k : (nwrite + i - 1) % PIPESIZE = j]
     ELSE data[j]]

\* data[nread++ % PIPESIZE], k times
Taken(k) == [i \in 1 .. k |-> data[(nread + i - 1) % PIPESIZE]]

-----------------------------------------------------------------------------
Free(p) == lock \in {NoProc, p}

\* wakeup of those who sleep on &p->nread, or on &p->nwrite
WakeReaders == [q \in Procs |-> IF pc[q] = "read_asleep" THEN "read" ELSE pc[q]]
WakeWriters == [q \in Procs |-> IF pc[q] = "write_asleep" THEN "write" ELSE pc[q]]

\* One process has made the pipe and has both ends.
Init ==
  /\ data \in [0 .. PIPESIZE - 1 -> Values]
  /\ nread = 0 /\ nwrite = 0 /\ readopen = TRUE /\ writeopen = TRUE
  /\ lock = NoProc /\ allocated = TRUE
  /\ ref = [e \in Ends |-> 1]
  /\ \E p \in Procs : ends = [q \in Procs |-> IF q = p THEN Ends ELSE {}]
  /\ killed = {}
  /\ pc = [p \in Procs |-> "user"]
  /\ rest = [p \in Procs |-> <<>>] /\ want = [p \in Procs |-> 0]
  /\ ret = [p \in Procs |-> <<>>]

\* A pipe in a page of whatever contents
pipealloc(p) ==
  /\ pc[p] = "user" /\ p \notin killed /\ ~allocated
  /\ nread' = 0 /\ nwrite' = 0 /\ readopen' = TRUE /\ writeopen' = TRUE /\ allocated' = TRUE
  /\ ref' = [e \in Ends |-> 1]
  /\ ends' = [ends EXCEPT ![p] = Ends]
  /\ UNCHANGED <<data, lock, killed, pc, argVars, ret>>

\* fork: the child, a new process, shares the ends (filedup).
fork(p, q) ==
  /\ pc[p] = "user" /\ p \notin killed /\ ends[p] # {}
  /\ pc[q] = "user" /\ ends[q] = {} /\ q \notin killed
  /\ ends' = [ends EXCEPT ![q] = ends[p]]
  /\ ref' = [e \in Ends |-> IF e \in ends[p] THEN ref[e] + 1 ELSE ref[e]]
  /\ UNCHANGED <<pipeVars, lock, killed, pc, argVars, ret>>

\* close, or the loop of exit: the last reference goes on to pipeclose.
fileclose(p, e) ==
  /\ pc[p] = "user" /\ e \in ends[p]
  /\ ends' = [ends EXCEPT ![p] = @ \ {e}]
  /\ ref' = [ref EXCEPT ![e] = @ - 1]
  /\ pc' = IF ref[e] - 1 > 0 THEN pc
           ELSE [pc EXCEPT ![p] = IF e = "w" THEN "close_w" ELSE "close_r"]
  /\ UNCHANGED <<pipeVars, lock, killed, argVars, ret>>

\* The page goes with the write end.
MutCloseFreesEarly(p) ==
  /\ Free(p)
  /\ \/ /\ pc[p] = "close_w"
        /\ writeopen' = FALSE /\ UNCHANGED readopen
        /\ pc' = [WakeReaders EXCEPT ![p] = "user"]
     \/ /\ pc[p] = "close_r"
        /\ readopen' = FALSE /\ UNCHANGED writeopen
        /\ pc' = [WakeWriters EXCEPT ![p] = "user"]
  /\ allocated' = writeopen'
  /\ UNCHANGED <<data, nread, nwrite, lock, ref, ends, killed, argVars, ret>>

\* No wakeup
MutCloseSilent(p) ==
  /\ Free(p)
  /\ \/ /\ pc[p] = "close_w"
        /\ writeopen' = FALSE /\ UNCHANGED readopen
     \/ /\ pc[p] = "close_r"
        /\ readopen' = FALSE /\ UNCHANGED writeopen
  /\ pc' = [pc EXCEPT ![p] = "user"]
  /\ allocated' = (readopen' \/ writeopen')
  /\ UNCHANGED <<data, nread, nwrite, lock, ref, ends, killed, argVars, ret>>

pipeclose(p) ==
  /\ Free(p)
  /\ \/ /\ pc[p] = "close_w"
        /\ writeopen' = FALSE /\ UNCHANGED readopen
        /\ pc' = [WakeReaders EXCEPT ![p] = "user"]
     \/ /\ pc[p] = "close_r"
        /\ readopen' = FALSE /\ UNCHANGED writeopen
        /\ pc' = [WakeWriters EXCEPT ![p] = "user"]
  /\ allocated' = (readopen' \/ writeopen')
  /\ UNCHANGED <<data, nread, nwrite, lock, ref, ends, killed, argVars, ret>>

-----------------------------------------------------------------------------
\* read

StartRead(p, n) ==
  /\ pc[p] = "user" /\ p \notin killed /\ "r" \in ends[p]
  /\ pc' = [pc EXCEPT ![p] = "read"]
  /\ want' = [want EXCEPT ![p] = n]
  /\ UNCHANGED <<pipeVars, lock, ref, ends, killed, rest, ret>>

\* Nothing to read yet: the reader gives up if it is killed ...
ReadKilled(p) ==
  /\ pc[p] = "read" /\ Free(p)
  /\ Empty /\ writeopen /\ p \in killed
  /\ pc' = [pc EXCEPT ![p] = "read_done"]
  /\ ret' = [ret EXCEPT ![p] = Failed]
  /\ want' = [want EXCEPT ![p] = 0]
  /\ UNCHANGED <<pipeVars, lock, ref, ends, killed, rest>>

\* ... else it has decided to sleep, and holds p->lock.
ReadWaits(p) ==
  /\ pc[p] = "read" /\ Free(p)
  /\ Empty /\ writeopen /\ p \notin killed
  /\ lock' = p
  /\ pc' = [pc EXCEPT ![p] = "read_doze"]
  /\ UNCHANGED <<pipeVars, ref, ends, killed, argVars, ret>>

\* No wakeup of the writers
MutReadSilent(p) ==
  /\ pc[p] = "read" /\ Free(p)
  /\ ~Empty \/ ~writeopen
  /\ LET k == Least(want[p], Used)
     IN  /\ ret' = [ret EXCEPT ![p] = Taken(k)]
         /\ nread' = Plus(nread, k)
  /\ want' = [want EXCEPT ![p] = 0]
  /\ pc' = [pc EXCEPT ![p] = "read_done"]
  /\ UNCHANGED <<data, nwrite, readopen, writeopen, allocated, lock, ref, ends, killed, rest>>

piperead(p) ==
  /\ pc[p] = "read" /\ Free(p)
  /\ ~Empty \/ ~writeopen
  /\ LET k == Least(want[p], Used)
     IN  /\ ret' = [ret EXCEPT ![p] = Taken(k)]
         /\ nread' = Plus(nread, k)
  /\ want' = [want EXCEPT ![p] = 0]
  /\ pc' = [WakeWriters EXCEPT ![p] = "read_done"]
  /\ UNCHANGED <<data, nwrite, readopen, writeopen, allocated, lock, ref, ends, killed, rest>>

ReadReturns(p) ==
  /\ pc[p] = "read_done"
  /\ pc' = [pc EXCEPT ![p] = "user"]
  /\ ret' = [ret EXCEPT ![p] = <<>>]
  /\ UNCHANGED <<pipeVars, lock, ref, ends, killed, argVars>>

-----------------------------------------------------------------------------
\* write

StartWrite(p, s) ==
  /\ pc[p] = "user" /\ p \notin killed /\ "w" \in ends[p]
  /\ pc' = [pc EXCEPT ![p] = "write"]
  /\ rest' = [rest EXCEPT ![p] = s]
  /\ UNCHANGED <<pipeVars, lock, ref, ends, killed, want, ret>>

\* The loop up to its end or to a full pipe
Store(p) ==
  LET k == Least(Len(rest[p]), Room)
  IN  /\ data' = Stored(rest[p], k)
      /\ nwrite' = Plus(nwrite, k)
      /\ rest' = [rest EXCEPT ![p] = SubSeq(@, k + 1, Len(@))]

pipewrite(p) ==
  /\ pc[p] = "write" /\ Free(p)
  /\ Store(p)
  /\ \/ /\ rest'[p] = <<>>                              \* all is written
        /\ pc' = [WakeReaders EXCEPT ![p] = "user"]
        /\ UNCHANGED lock
     \/ /\ rest'[p] # <<>> /\ (~readopen \/ p \in killed) \* full: return -1
        /\ pc' = [pc EXCEPT ![p] = "user"]
        /\ UNCHANGED lock
     \/ /\ rest'[p] # <<>> /\ readopen /\ p \notin killed \* full: sleep
        /\ pc' = [WakeReaders EXCEPT ![p] = "write_doze"]
        /\ lock' = p
  /\ UNCHANGED <<nread, readopen, writeopen, allocated, ref, ends, killed, want, ret>>

-----------------------------------------------------------------------------
\* sleep: takes ptable.lock, releases p->lock.
Doze(p) ==
  /\ \/ pc[p] = "read_doze" /\ pc' = [pc EXCEPT ![p] = "read_asleep"]
     \/ pc[p] = "write_doze" /\ pc' = [pc EXCEPT ![p] = "write_asleep"]
  /\ lock' = NoProc
  /\ UNCHANGED <<pipeVars, ref, ends, killed, argVars, ret>>

kill(p) ==
  /\ p \in Killable \ killed /\ ends[p] # {}
  /\ killed' = killed \cup {p}
  /\ pc' = [pc EXCEPT ![p] = CASE @ = "read_asleep" -> "read"
                               [] @ = "write_asleep" -> "write"
                               [] OTHER -> @]
  /\ UNCHANGED <<pipeVars, lock, ref, ends, argVars, ret>>

-----------------------------------------------------------------------------
Strings == UNION {[1 .. n -> Values] : n \in Counts}

\* What a process does once it is in a system call
Kernel(p) == pipeclose(p) \/ ReadKilled(p) \/ ReadWaits(p) \/ piperead(p)
             \/ ReadReturns(p) \/ pipewrite(p) \/ Doze(p)

\* exit of a process that is killed
Exits(p) == p \in killed /\ \E e \in Ends : fileclose(p, e)

User(p) ==
  \/ pipealloc(p)
  \/ \E q \in Procs : fork(p, q)
  \/ \E e \in Ends : fileclose(p, e)
  \/ \E n \in Counts : StartRead(p, n)
  \/ \E s \in Strings : StartWrite(p, s)

Next == \E p \in Procs : Kernel(p) \/ User(p) \/ kill(p)

Spec == Init /\ [][Next]_vars

FairSpec == Spec /\ \A p \in Procs : WF_vars(Kernel(p)) /\ WF_vars(Exits(p))

-----------------------------------------------------------------------------
\* The fields of the pipe and of its users have the types the code gives them.
TypeOK ==
  /\ data \in [0 .. PIPESIZE - 1 -> Values]
  /\ nread \in 0 .. WRAP - 1 /\ nwrite \in 0 .. WRAP - 1
  /\ readopen \in BOOLEAN /\ writeopen \in BOOLEAN /\ allocated \in BOOLEAN
  /\ lock \in Procs \cup {NoProc}
  /\ ref \in [Ends -> Nat] /\ ends \in [Procs -> SUBSET Ends]
  /\ killed \subseteq Procs
  /\ pc \in [Procs -> Places]
  /\ rest \in [Procs -> Seq(Values)] /\ want \in [Procs -> Counts \cup {0}]
  /\ ret \in [Procs -> Seq(Values) \cup {Failed}]

InRead(p) == pc[p] \in {"read", "read_doze", "read_asleep"}
InWrite(p) == pc[p] \in {"write", "write_doze", "write_asleep"}

\* A reader sleeps only while the pipe is empty and open for writing, until a
\* process is killed: a killed writer leaves pipewrite without a wakeup.
ReadersWait == killed = {} => \A p \in Procs : pc[p] = "read_asleep" => Empty /\ writeopen

\* A writer sleeps only while the pipe is full and open for reading: whoever
\* changes that in piperead or pipeclose wakes the sleepers.
WritersWait == \A p \in Procs : pc[p] = "write_asleep" => Full /\ readopen

\* No wakeup is lost: nobody sleeps in piperead or pipewrite on a condition that
\* another process's read, write or close has changed.
SleepersWait == ReadersWait /\ WritersWait

\* pipeclose frees the page only when nobody has an end open and nobody is
\* inside pipewrite, piperead or pipeclose: who is inside holds a reference.
NoUseAfterFree == \A p \in Procs : ends[p] # {} \/ pc[p] # "user" => allocated

\* The bytes in the pipe, oldest first
Contents == [i \in 1 .. Used |-> data[(nread + i - 1) % PIPESIZE]]

Channel == INSTANCE Stream WITH chan <- Contents, writers <- writeopen, Capacity <- PIPESIZE

\* The pipe is a first-in first-out channel of PIPESIZE bytes, also when the
\* counters wrap and when several processes read and write.
StreamSpec == Channel!Spec

\* With the other end closed everywhere, whoever reads gets what is left or
\* end of file, and whoever writes gets an answer: nobody stays in the pipe.
Hangup ==
  \A p \in Procs : (InRead(p) /\ ~writeopen) \/ (InWrite(p) /\ ~readopen)
                     ~> ~InRead(p) /\ ~InWrite(p)

-----------------------------------------------------------------------------
\* The inductive invariant

Holders(e) == {p \in Procs : e \in ends[p]}

\* The counts of file.c are right.
RefInv == \A e \in Ends : IsFiniteSet(Holders(e)) /\ ref[e] = Cardinality(Holders(e))

\* An end that somebody holds is open.  The one who gave up the last reference
\* is alone in pipeclose, and the end is open until then.
EndInv ==
  /\ allocated <=> readopen \/ writeopen
  /\ killed \subseteq Killable
  /\ \A p \in Procs :
       /\ "r" \in ends[p] => readopen
       /\ "w" \in ends[p] => writeopen
       /\ InRead(p) \/ pc[p] = "read_done" => "r" \in ends[p]
       /\ InWrite(p) => "w" \in ends[p]
       /\ pc[p] = "close_r" => readopen
       /\ pc[p] = "close_w" => writeopen
       /\ \A q \in Procs :
            /\ pc[p] = "close_r" => "r" \notin ends[q] /\ (pc[q] = "close_r" => p = q)
            /\ pc[p] = "close_w" => "w" \notin ends[q] /\ (pc[q] = "close_w" => p = q)

\* The lock is held by who is about to sleep, and what they saw still holds.
LockInv ==
  \A p \in Procs :
    /\ lock = p <=> pc[p] \in {"read_doze", "write_doze"}
    /\ pc[p] = "read_doze" => Empty /\ writeopen
    /\ pc[p] = "write_doze" => Full /\ readopen

IInv == TypeOK /\ RefInv /\ EndInv /\ LockInv /\ WritersWait /\ Used <= PIPESIZE
=============================================================================
