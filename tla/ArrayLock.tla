----------------------------- MODULE ArrayLock -----------------------------
(***************************************************************************)
(* The array ("ticket slot") lock of libthread.c, lines 129-164.           *)
(*                                                                         *)
(* A thread draws the slot `next' under the test-and-set word `m', spins   *)
(* until its slot of lock[] is set, records the slot in the shared field   *)
(* `lockpos', and on release clears that slot and sets the following one.  *)
(* One action is one access to shared memory, in the order of the          *)
(* listing frisbee_array.asm; at[t] is the thread's place in the code.     *)
(***************************************************************************)
EXTENDS Naturals, FiniteSets

CONSTANTS
  Threads,    \* the callers of the lock
  size        \* arraylock_init's argument: the number of slots

\* frisbee_array.c:26 gives the lock one slot per thread.
ASSUME SizeAssumption ==
  /\ size \in Nat \ {0}
  /\ IsFiniteSet(Threads)
  /\ Cardinality(Threads) <= size

VARIABLES
  lock,       \* lk->lock[]: 1 in the slot of the thread that may enter
  lockpos,    \* lk->lockpos: the holder's slot
  next,       \* lk->next: the next slot to draw
  m,          \* lk->m: guards next
  pos,        \* pos[t]: local pos of acquire, the slot t drew
  rel,        \* rel[t]: lk->lockpos as t read it in release
  at          \* at[t]: where t is in the lock's code

lockVars == <<lock, lockpos, next, m, pos, rel, at>>

Slots == 0 .. size - 1

After(p) == IF p + 1 = size THEN 0 ELSE p + 1

Places == {"out", "draw", "bump", "unlock_m", "wait", "setpos", "held", "clear", "pass"}

\* lockpos, pos and rel are not initialised by the code; they are written
\* before they are read, so their initial value is an arbitrary slot.
LockInit ==
  /\ lock = [p \in Slots |-> IF p = 0 THEN 1 ELSE 0]
  /\ lockpos \in {0, size - 1}
  /\ next = 0
  /\ m = 0
  /\ pos = [t \in Threads |-> 0]
  /\ rel = [t \in Threads |-> 0]
  /\ at = [t \in Threads |-> "out"]

Goto(t, from, to) ==
  /\ at[t] = from
  /\ at' = [at EXCEPT ![t] = to]

-----------------------------------------------------------------------------
\* arraylock_acquire

MutLockMUntested(t) ==
  /\ Goto(t, "out", "draw")
  /\ m' = 1
  /\ UNCHANGED <<lock, lockpos, next, pos, rel>>

\* while (xchg(&lk->m, 1) != 0); leaves the loop
LockM(t) ==
  /\ Goto(t, "out", "draw")
  /\ m = 0
  /\ m' = 1
  /\ UNCHANGED <<lock, lockpos, next, pos, rel>>

\* pos = lk->next;
ReadNext(t) ==
  /\ Goto(t, "draw", "bump")
  /\ pos' = [pos EXCEPT ![t] = next]
  /\ UNCHANGED <<lock, lockpos, next, m, rel>>

\* lk->next = pos + 1; if (lk->next == lk->size) lk->next = 0;
\* The value size is in lk->next only between two instructions of the
\* thread that holds m, and only a holder of m reads it.
Bump(t) ==
  /\ Goto(t, "bump", "unlock_m")
  /\ next' = After(pos[t])
  /\ UNCHANGED <<lock, lockpos, m, pos, rel>>

UnlockM(t) ==
  /\ Goto(t, "unlock_m", "wait")
  /\ m' = 0
  /\ UNCHANGED <<lock, lockpos, next, pos, rel>>

\* while (lk->lock[pos] == 0); leaves the loop
SeeSlot(t) ==
  /\ Goto(t, "wait", "setpos")
  /\ lock[pos[t]] # 0
  /\ UNCHANGED <<lock, lockpos, next, m, pos, rel>>

\* lk->lockpos = pos;
SetLockpos(t) ==
  /\ Goto(t, "setpos", "held")
  /\ lockpos' = pos[t]
  /\ UNCHANGED <<lock, next, m, pos, rel>>

-----------------------------------------------------------------------------
\* arraylock_release

\* nextpos is computed from this same read of lk->lockpos.
ReadLockpos(t) ==
  /\ Goto(t, "held", "clear")
  /\ rel' = [rel EXCEPT ![t] = lockpos]
  /\ UNCHANGED <<lock, lockpos, next, m, pos>>

\* lk->lock[lk->lockpos] = 0;
ClearOwn(t) ==
  /\ Goto(t, "clear", "pass")
  /\ lock' = [lock EXCEPT ![rel[t]] = 0]
  /\ UNCHANGED <<lockpos, next, m, pos, rel>>

\* lk->lock[nextpos] = 1;
SetNext(t) ==
  /\ Goto(t, "pass", "out")
  /\ lock' = [lock EXCEPT ![After(rel[t])] = 1]
  /\ UNCHANGED <<lockpos, next, m, pos, rel>>

Acquire(t) ==
  \/ LockM(t) \/ ReadNext(t) \/ Bump(t) \/ UnlockM(t)
  \/ SeeSlot(t) \/ SetLockpos(t)

Release(t) == ReadLockpos(t) \/ ClearOwn(t) \/ SetNext(t)

LockNext == \E t \in Threads : Acquire(t) \/ Release(t)

LockSpec == LockInit /\ [][LockNext]_lockVars

-----------------------------------------------------------------------------
\* The threads that drew a slot and have not passed the lock on.
InLine == {t \in Threads : at[t] \in {"unlock_m", "wait", "setpos", "held", "clear", "pass"}}

\* The threads between leaving the spin loop of acquire and the last store
\* of release.
Inside == {t \in Threads : at[t] \in {"setpos", "held", "clear", "pass"}}

LockTypeOK ==
  /\ lock \in [Slots -> {0, 1}]
  /\ lockpos \in Slots
  /\ next \in Slots
  /\ m \in {0, 1}
  /\ pos \in [Threads -> Slots]
  /\ rel \in [Threads -> Slots]
  /\ at \in [Threads -> Places]

\* At most one thread is between the end of arraylock_acquire's spin loop
\* and the end of arraylock_release, although next, lockpos and the slots
\* are plain shared words and m only covers the drawing of a slot.
MutualExclusion == \A t, u \in Inside : t = u

-----------------------------------------------------------------------------
\* The strengthening that makes MutualExclusion inductive.  The slots drawn
\* and not yet passed on are the cyclic interval from the front slot f up to
\* next; each belongs to one thread; only the front slot can be set, and it
\* is the slot of the thread inside.

HoldsM == {t \in Threads : at[t] \in {"draw", "bump", "unlock_m"}}

Window(f) ==
  {p \in Slots : IF f < next THEN f <= p /\ p < next ELSE f <= p \/ p < next}

FrontIs(f) ==
  /\ \/ f = next /\ InLine = {}
     \/ \A p \in Slots : p \in Window(f) <=> \E t \in InLine : pos[t] = p
  /\ \A p \in Slots : lock[p] = 1 => p = f
  /\ \A t \in Inside : pos[t] = f

LockIInv ==
  /\ LockTypeOK
  /\ \A t \in HoldsM : m = 1
  /\ \A t, u \in HoldsM : t = u
  /\ \A t \in Threads : at[t] = "bump" => pos[t] = next
  /\ \A t, u \in InLine : pos[t] = pos[u] => t = u
  /\ \A t \in Threads : at[t] \in {"held", "clear", "pass"} => lockpos = pos[t]
  /\ \A t \in Threads : at[t] \in {"clear", "pass"} => rel[t] = pos[t]
  /\ \A t \in Threads : at[t] = "pass" => \A p \in Slots : lock[p] = 0
  /\ \E f \in Slots : FrontIs(f)
=============================================================================
