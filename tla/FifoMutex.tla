----------------------------- MODULE FifoMutex -----------------------------
(***************************************************************************)
(* What a fair lock promises its callers: at most one thread is in the     *)
(* critical section, and threads enter it in the order in which they drew  *)
(* their place in line.  The array lock of libthread.c implements this     *)
(* module (see ArrayLock, FIFO).                                           *)
(***************************************************************************)
EXTENDS Sequences

CONSTANT Threads

VARIABLES
  line,     \* the threads that drew a place, in order; the head may enter
  inside    \* the threads in the critical section

fifoVars == <<line, inside>>

FifoInit == line = <<>> /\ inside = {}

Join(t) ==
  /\ \A i \in DOMAIN line : line[i] # t
  /\ line' = Append(line, t)
  /\ UNCHANGED inside

Enter(t) ==
  /\ line # <<>> /\ Head(line) = t
  /\ inside = {}
  /\ inside' = {t}
  /\ UNCHANGED line

Leave(t) ==
  /\ inside = {t}
  /\ inside' = {}
  /\ line' = Tail(line)

FifoNext == \E t \in Threads : Join(t) \/ Enter(t) \/ Leave(t)

FifoSpec == FifoInit /\ [][FifoNext]_fifoVars
=============================================================================
