------------------------------ MODULE MCSLock ------------------------------
(***************************************************************************)
(* The MCS queue lock of libthread.c, lines 85-127, as the build compiles  *)
(* it (frisbee_mcs.asm).  lk->next is the tail of the queue, lk->spin a    *)
(* test-and-set word that only releasing threads use; every thread has one *)
(* queue node, on its stack, that it uses again for every acquire.         *)
(***************************************************************************)
EXTENDS Naturals

CONSTANTS
  Threads,    \* the callers; a thread also stands for its queue node
  NULL

VARIABLES
  tail,       \* lk->next
  spin,       \* lk->spin
  qnext,      \* qnext[t]: qnode->next of t's node
  qspin,      \* qspin[t]: qnode->spin of t's node
  prev,       \* prev[t]: acquire's local tail
  seen,       \* seen[t]: release's local t
  succ,       \* succ[t]: qnode->next as release last read it
  at          \* at[t]: where t is in the lock's code

Places == {"out", "swap", "link", "wait", "held", "cas", "cas_read", "cas_write",
           "cas_done", "succ", "grant", "stuck"}

\* mcslock_init.  The queue nodes are uninitialised stack memory: acquire
\* writes them first.
MCSInit ==
  /\ tail = NULL
  /\ spin = 0
  /\ qnext = [t \in Threads |-> NULL]
  /\ qspin = [t \in Threads |-> 0]
  /\ prev = [t \in Threads |-> NULL]
  /\ seen = [t \in Threads |-> NULL]
  /\ succ = [t \in Threads |-> NULL]
  /\ at = [t \in Threads |-> "out"]

Goto(t, from, to) ==
  /\ at[t] = from
  /\ at' = [at EXCEPT ![t] = to]

-----------------------------------------------------------------------------
\* mcslock_acquire

MutInitNodeStale(t) ==
  /\ Goto(t, "out", "swap")
  /\ qnext' = [qnext EXCEPT ![t] = NULL]
  /\ UNCHANGED <<tail, spin, qspin, prev, seen, succ>>

\* qnode->next = NULL; qnode->spin = 0;
InitNode(t) ==
  /\ Goto(t, "out", "swap")
  /\ qnext' = [qnext EXCEPT ![t] = NULL]
  /\ qspin' = [qspin EXCEPT ![t] = 0]
  /\ UNCHANGED <<tail, spin, prev, seen, succ>>

\* tail = xchg(&lk->next, qnode); return if the queue was empty
Swap(t) ==
  /\ Goto(t, "swap", IF tail = NULL THEN "held" ELSE "link")
  /\ prev' = [prev EXCEPT ![t] = tail]
  /\ tail' = t
  /\ UNCHANGED <<spin, qnext, qspin, seen, succ>>

\* tail->next = qnode;
Link(t) ==
  /\ Goto(t, "link", "wait")
  /\ qnext' = [qnext EXCEPT ![prev[t]] = t]
  /\ UNCHANGED <<tail, spin, qspin, prev, seen, succ>>

\* while (!qnode->spin); leaves the loop
SeeSpin(t) ==
  /\ Goto(t, "wait", "held")
  /\ qspin[t] # 0
  /\ UNCHANGED <<tail, spin, qnext, qspin, prev, seen, succ>>

-----------------------------------------------------------------------------
\* mcslock_release

\* if (!qnode->next)
TestNext(t) ==
  /\ Goto(t, "held", IF qnext[t] = NULL THEN "cas" ELSE "grant")
  /\ succ' = [succ EXCEPT ![t] = qnext[t]]
  /\ UNCHANGED <<tail, spin, qnext, qspin, prev, seen>>

\* while (xchg(&lk->spin, 1) != 0); leaves the loop
LockSpin(t) ==
  /\ Goto(t, "cas", "cas_read")
  /\ spin = 0
  /\ spin' = 1
  /\ UNCHANGED <<tail, qnext, qspin, prev, seen, succ>>

\* t = lk->next;
ReadTail(t) ==
  /\ Goto(t, "cas_read", "cas_write")
  /\ seen' = [seen EXCEPT ![t] = tail]
  /\ UNCHANGED <<tail, spin, qnext, qspin, prev, succ>>

\* if (t == qnode) lk->next = NULL;
EmptyTail(t) ==
  /\ Goto(t, "cas_write", "cas_done")
  /\ tail' = IF seen[t] = t THEN NULL ELSE tail
  /\ UNCHANGED <<spin, qnext, qspin, prev, seen, succ>>

\* xchg(&lk->spin, 0); if (t == qnode) return;
UnlockSpin(t) ==
  /\ Goto(t, "cas_done", IF seen[t] = t THEN "out" ELSE "succ")
  /\ spin' = 0
  /\ UNCHANGED <<tail, qnext, qspin, prev, seen, succ>>

\* while (!qnode->next);  The field is not volatile: the compiled loop tests
\* it once and, when it is still null, jumps to itself for ever.
AwaitSuccessor(t) ==
  /\ Goto(t, "succ", IF qnext[t] = NULL THEN "stuck" ELSE "grant")
  /\ succ' = [succ EXCEPT ![t] = qnext[t]]
  /\ UNCHANGED <<tail, spin, qnext, qspin, prev, seen>>

\* qnode->next->spin = 1; through the pointer that was tested
Grant(t) ==
  /\ Goto(t, "grant", "out")
  /\ qspin' = [qspin EXCEPT ![succ[t]] = 1]
  /\ UNCHANGED <<tail, spin, qnext, prev, seen, succ>>

Acquire(t) == InitNode(t) \/ Swap(t) \/ Link(t) \/ SeeSpin(t)

Release(t) ==
  \/ TestNext(t) \/ LockSpin(t) \/ ReadTail(t) \/ EmptyTail(t) \/ UnlockSpin(t)
  \/ AwaitSuccessor(t) \/ Grant(t)

-----------------------------------------------------------------------------

\* What a releasing thread may grant the lock to: a waiting thread, once.
Grants ==
  \A t \in Threads : at[t] = "grant" => at[succ[t]] = "wait" /\ qspin[succ[t]] = 0
=============================================================================
