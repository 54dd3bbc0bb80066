------------------------------ MODULE SeqLock ------------------------------
(***************************************************************************)
(* The sequence lock of libthread.c, lines 52-81, in the order of memory   *)
(* accesses of the build (frisbee_seq.asm).  In the compiled seqlock_read  *)
(* the first attempt loads *mem before both loads of lk->seq; a later      *)
(* attempt takes the last seqf as its seqi, then loads *mem, then seqf.    *)
(*                                                                         *)
(* The protected words belong to the caller: ReadMem is given the value in *)
(* memory, and the caller stores val in the step that takes Store.         *)
(***************************************************************************)
EXTENDS Naturals

CONSTANT Threads

VARIABLES
  seq,        \* lk->seq
  splk,       \* lk->splk
  seqi,       \* seqi[t], as in the code
  ret,        \* ret[t]: retval, or val of seqlock_write
  at          \* at[t]: where t is in the lock's code

Places == {"out", "seqi", "seqf", "again", "got", "wlock", "odd", "store", "even", "wunlock"}

SeqInit ==
  /\ seq = 0
  /\ splk = 0
  /\ seqi = [t \in Threads |-> 0]
  /\ ret = [t \in Threads |-> 0]
  /\ at = [t \in Threads |-> "out"]

Goto(t, from, to) ==
  /\ at[t] = from
  /\ at' = [at EXCEPT ![t] = to]

-----------------------------------------------------------------------------
\* seqlock_read

\* retval = *mem, hoisted above the first load of lk->seq
ReadMem(t, v) ==
  /\ Goto(t, "out", "seqi")
  /\ ret' = [ret EXCEPT ![t] = v]
  /\ UNCHANGED <<seq, splk, seqi>>

ReadSeqi(t) ==
  /\ Goto(t, "seqi", "seqf")
  /\ seqi' = [seqi EXCEPT ![t] = seq]
  /\ UNCHANGED <<seq, splk, ret>>

\* seqf = lk->seq; retry unless seqi = seqf and even; seqi of a retry is seqf
ReadSeqf(t) ==
  /\ Goto(t, "seqf", IF seqi[t] # seq \/ seqi[t] % 2 = 1 THEN "again" ELSE "got")
  /\ seqi' = [seqi EXCEPT ![t] = seq]
  /\ UNCHANGED <<seq, splk, ret>>

\* retval = *mem in a retry
RereadMem(t, v) ==
  /\ Goto(t, "again", "seqf")
  /\ ret' = [ret EXCEPT ![t] = v]
  /\ UNCHANGED <<seq, splk, seqi>>

\* The caller takes retval; the locals go out of scope.
ReadReturns(t) ==
  /\ Goto(t, "got", "out")
  /\ seqi' = [seqi EXCEPT ![t] = 0]
  /\ ret' = [ret EXCEPT ![t] = 0]
  /\ UNCHANGED <<seq, splk>>

-----------------------------------------------------------------------------
\* seqlock_write

\* The caller computes val.
WriteCalled(t, val) ==
  /\ Goto(t, "out", "wlock")
  /\ ret' = [ret EXCEPT ![t] = val]
  /\ UNCHANGED <<seq, splk, seqi>>

\* while (xchg(&lk->splk, 1) != 0); leaves the loop
LockWriter(t) ==
  /\ Goto(t, "wlock", "odd")
  /\ splk = 0
  /\ splk' = 1
  /\ UNCHANGED <<seq, seqi, ret>>

\* lk->seq++
MakeOdd(t) ==
  /\ Goto(t, "odd", "store")
  /\ seq' = seq + 1
  /\ UNCHANGED <<splk, seqi, ret>>

\* *mem = val
Store(t) ==
  /\ Goto(t, "store", "even")
  /\ UNCHANGED <<seq, splk, seqi, ret>>

\* lk->seq++
MakeEven(t) ==
  /\ Goto(t, "even", "wunlock")
  /\ seq' = seq + 1
  /\ UNCHANGED <<splk, seqi, ret>>

MutUnlockWriterMissing(t) ==
  /\ Goto(t, "wunlock", "out")
  /\ ret' = [ret EXCEPT ![t] = 0]
  /\ UNCHANGED <<seq, splk, seqi>>

\* xchg(&lk->splk, 0); val goes out of scope.
UnlockWriter(t) ==
  /\ Goto(t, "wunlock", "out")
  /\ splk' = 0
  /\ ret' = [ret EXCEPT ![t] = 0]
  /\ UNCHANGED <<seq, seqi>>
=============================================================================
