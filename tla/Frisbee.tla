------------------------------ MODULE Frisbee ------------------------------
(***************************************************************************)
(* The four frisbee programs on top of libthread.c: frisbee.c with the     *)
(* test-and-set lock, frisbee_array.c, frisbee_mcs.c and frisbee_seq.c.    *)
(* main and most of frisbee_task are the same in all of them; a behaviour  *)
(* is a run of one program, chosen with its arguments in the initial state.*)
(*                                                                         *)
(* A thread takes a step of acquire while its task is at "lock" and a step *)
(* of release while it is at "unlock" or "leave".                          *)
(***************************************************************************)
EXTENDS ArrayLockFifo

CONSTANTS
  Programs,     \* which programs are run, with which arguments
  NULL

ASSUME ProgramsAssumption ==
  /\ Threads = 0 .. size - 1 /\ NULL \notin Threads
  /\ \A a \in Programs :
       /\ a.prog \in {"spin", "array", "mcs", "seq"} /\ a.cloneFails \in BOOLEAN
       /\ a.numthreads \in 1 .. size /\ a.maxpass \in Nat
       /\ a.prog = "array" => a.numthreads = size

VARIABLES
  argv,         \* the program and its arguments
  passes,       \* number of the next pass
  cur_owner,    \* the player who has the token
  main, i,      \* where main is, and its loop counter
  task,         \* task[t]: where thread t is in frisbee_task
  freed,        \* arraylock_destroy has been called
  word,         \* lock_t's lock
  place,        \* place[t]: where t is in the code of the lock (not array)
  tail, spin, qnext, qspin, prev, seen, succ,    \* the MCS lock
  seq, splk, seqi, ret                           \* the sequence lock

game == <<passes, cur_owner>>
mains == <<argv, main, i, freed>>
mcs == <<tail, spin, qnext, qspin, prev, seen, succ>>
seqs == <<seq, splk, seqi, ret>>
locks == <<lockVars, word, place, mcs, seqs>>
vars == <<game, mains, task, locks>>

M == INSTANCE MCSLock WITH at <- place
S == INSTANCE SeqLock WITH at <- place

numthreads == argv.numthreads
maxpass == argv.maxpass

Init ==
  /\ argv \in Programs
  /\ passes = 1 /\ cur_owner = 0
  /\ main = "create" /\ i = 0 /\ freed = FALSE
  /\ task = [t \in Threads |-> "none"]
  /\ LockInit /\ (argv.prog # "array" => lockpos = 0)
  /\ word = 0 /\ M!MCSInit /\ S!SeqInit

-----------------------------------------------------------------------------
\* main

\* One iteration of the creating loop.  thread_create is void: main does not
\* learn that clone() failed.
Create ==
  /\ main = "create" /\ i < numthreads
  /\ i' = i + 1
  /\ \/ task' = [task EXCEPT ![i] = "top"]
     \/ argv.cloneFails /\ UNCHANGED task
  /\ UNCHANGED <<game, argv, main, freed, locks>>

AllCreated ==
  /\ main = "create" /\ i = numthreads
  /\ main' = "wait" /\ i' = 0
  /\ UNCHANGED <<game, argv, freed, task, locks>>

Children == {t \in Threads : task[t] \notin {"none", "reaped"}}

\* One iteration of the waiting loop: wait() collects an exited thread, or
\* returns -1 at once when main has no child left.
Wait ==
  /\ main = "wait" /\ i < numthreads
  /\ i' = i + 1
  /\ \/ \E t \in Children : task[t] = "exited" /\ task' = [task EXCEPT ![t] = "reaped"]
     \/ Children = {} /\ UNCHANGED task
  /\ UNCHANGED <<game, argv, main, freed, locks>>

\* The end is announced, frisbee_array frees its slots, and main exits; its
\* stack, where the lock is, goes.
Finish ==
  /\ main = "wait" /\ i = numthreads
  /\ main' = "done" /\ freed' = (argv.prog = "array")
  /\ UNCHANGED <<game, argv, i, task, locks>>

Main == Create \/ AllCreated \/ Wait \/ Finish

-----------------------------------------------------------------------------
\* frisbee_task of the programs that hold a lock for a turn

Step(t, from, to) == task[t] = from /\ task' = [task EXCEPT ![t] = to]

Held(t) == IF argv.prog = "array" THEN at[t] = "held" ELSE place[t] = "held"
Out(t) == IF argv.prog = "array" THEN at[t] = "out" ELSE place[t] = "out"

\* lock_acquire and lock_release: one xchg
lock_acquire(t) ==
  /\ place[t] = "out" /\ place' = [place EXCEPT ![t] = "held"]
  /\ word = 0 /\ word' = 1
  /\ UNCHANGED <<lockVars, mcs, seqs>>
lock_release(t) ==
  /\ place[t] = "held" /\ place' = [place EXCEPT ![t] = "out"]
  /\ word' = 0
  /\ UNCHANGED <<lockVars, mcs, seqs>>

\* A step inside the code of the lock
Locking(t) ==
  /\ \/ /\ task[t] = "lock"
        /\ \/ argv.prog = "spin" /\ lock_acquire(t)
           \/ argv.prog = "array" /\ Acquire(t) /\ UNCHANGED <<word, place, mcs, seqs>>
           \/ argv.prog = "mcs" /\ M!Acquire(t) /\ UNCHANGED <<lockVars, word, seqs>>
     \/ /\ task[t] \in {"unlock", "leave"}
        /\ \/ argv.prog = "spin" /\ lock_release(t)
           \/ argv.prog = "array" /\ Release(t) /\ UNCHANGED <<word, place, mcs, seqs>>
           \/ argv.prog = "mcs" /\ M!Release(t) /\ UNCHANGED <<lockVars, word, seqs>>
  /\ UNCHANGED <<game, mains, task>>

\* if (passes > maxpass) break; before the lock is taken (not in frisbee.c)
Peek(t) ==
  /\ argv.prog # "seq"
  /\ Step(t, "top", IF argv.prog # "spin" /\ passes > maxpass THEN "returning" ELSE "lock")
  /\ UNCHANGED <<game, mains, locks>>

\* if (passes > maxpass) { release; break; }
Check(t) ==
  /\ Held(t) /\ Step(t, "lock", IF passes > maxpass THEN "leave" ELSE "own")
  /\ UNCHANGED <<game, mains, locks>>

MutOwn(t) ==
  /\ Step(t, "own", "pass")
  /\ UNCHANGED <<game, mains, locks>>

\* if (cur_owner == tid)
Own(t) ==
  /\ Step(t, "own", IF cur_owner = t THEN "pass" ELSE "unlock")
  /\ UNCHANGED <<game, mains, locks>>

NextOwner(t) == IF t + 1 >= numthreads THEN 0 ELSE t + 1

\* cur_owner++, back to 0 after the last player
PassToken(t) ==
  /\ argv.prog # "seq"
  /\ Step(t, "pass", "count")
  /\ cur_owner' = NextOwner(cur_owner)
  /\ UNCHANGED <<passes, mains, locks>>

\* passes++
CountPass(t) ==
  /\ argv.prog # "seq"
  /\ Step(t, "count", "unlock")
  /\ passes' = passes + 1
  /\ UNCHANGED <<cur_owner, mains, locks>>

\* The release has returned: loop, or leave the loop.
Unlocked(t) ==
  /\ Out(t)
  /\ \/ Step(t, "unlock", "top")
     \/ Step(t, "leave", "returning")
  /\ UNCHANGED <<game, mains, locks>>

\* thread_routine: free(stack), exit()
ExitThread(t) ==
  /\ Step(t, "returning", "exited")
  /\ UNCHANGED <<game, mains, locks>>

-----------------------------------------------------------------------------
\* frisbee_task of frisbee_seq.c: a turn reads cur_owner through the sequence
\* lock and passes directly, and writes passes and then cur_owner

others == <<lockVars, word, mcs>>

\* owner = seqlock_read(args->lock, &cur_owner)
ReadOwner(t) ==
  /\ argv.prog = "seq" /\ task[t] = "top"
  /\ S!ReadMem(t, cur_owner) \/ S!ReadSeqi(t) \/ S!ReadSeqf(t) \/ S!RereadMem(t, cur_owner)
  /\ UNCHANGED <<game, mains, task, others>>

\* cpass = passes; break after the last pass; continue without the token
ReadPasses(t) ==
  /\ argv.prog = "seq" /\ place[t] = "got"
  /\ Step(t, "top", CASE passes > maxpass -> "returning"
                      [] passes <= maxpass /\ ret[t] = t -> "count"
                      [] OTHER -> "top")
  /\ S!ReadReturns(t)
  /\ UNCHANGED <<game, mains, others>>

\* seqlock_write(args->lock, &passes, passes + 1), then of &cur_owner; passes is
\* loaded before the writers' lock is taken.
WriteTurn(t) ==
  /\ argv.prog = "seq" /\ task[t] \in {"count", "pass"}
  /\ \/ /\ \/ S!WriteCalled(t, IF task[t] = "count" THEN passes + 1 ELSE NextOwner(t))
           \/ S!LockWriter(t) \/ S!MakeOdd(t) \/ S!MakeEven(t)
        /\ UNCHANGED <<game, task>>
     \/ /\ S!Store(t)
        /\ passes' = IF task[t] = "count" THEN ret[t] ELSE passes
        /\ cur_owner' = IF task[t] = "pass" THEN ret[t] ELSE cur_owner
        /\ UNCHANGED task
     \/ /\ S!UnlockWriter(t)
        /\ Step(t, "count", "pass") \/ Step(t, "pass", "top")
        /\ UNCHANGED game
  /\ UNCHANGED <<mains, others>>

-----------------------------------------------------------------------------
Play(t) ==
  \/ Locking(t) \/ Peek(t) \/ Check(t) \/ Own(t) \/ PassToken(t) \/ CountPass(t)
  \/ Unlocked(t) \/ ReadOwner(t) \/ ReadPasses(t) \/ WriteTurn(t) \/ ExitThread(t)

\* The game is over, or the MCS lock has lost a thread or hangs in a release.
Halted == main = "done" \/ argv.prog = "mcs"

Next == Main \/ (\E t \in Threads : Play(t)) \/ (Halted /\ UNCHANGED vars)

Spec == Init /\ [][Next]_vars

\* main and every thread keep running (round-robin scheduler); which of several
\* threads an xchg lets in is left open.
FairSpec == Spec /\ WF_vars(Main) /\ \A t \in Threads : WF_vars(Play(t))

-----------------------------------------------------------------------------

\* A releasing thread writes to a waiting thread's node only: the grant of
\* mcslock_release never goes to a thread that has left the lock or has been
\* granted it already.
GrantGoesToWaiter == argv.prog = "mcs" => M!Grants

\* A pass is two stores and counts as made when the second is.  cur_owner is the
\* first of them, but passes in frisbee_seq.c.
HalfMade ==
  \E t \in Threads : \/ task[t] = "count" /\ place[t] \in {"even", "wunlock"}
                     \/ task[t] = "pass" /\ place[t] \in {"out", "wlock", "odd", "store"}

TheGame == INSTANCE Game WITH
  owner <- IF argv.prog # "seq" /\ \E t \in Threads : task[t] = "count"
             THEN CHOOSE t \in Threads : task[t] = "count" ELSE cur_owner,
  passes <- IF argv.prog = "seq" /\ HalfMade THEN passes - 1 ELSE passes,
  over <- main = "done" /\ ~argv.cloneFails

\* Every program plays the game: every pass is made by the player who has the
\* token, to the next player, none is lost, repeated or made after the last one,
\* and, if no clone() fails, "finished" is printed after the last one only; with
\* frisbee_seq.c although a turn is made of separate reads and writes and the
\* first attempt of seqlock_read may return an old owner.
PlaysTheGame == TheGame!GameSpec

\* The game of frisbee_seq.c ends when every player was created: every thread
\* gets its turns and leaves, and main collects them all.
GameEnds == (argv.prog = "seq" /\ ~argv.cloneFails) ~> (main = "done")
=============================================================================
