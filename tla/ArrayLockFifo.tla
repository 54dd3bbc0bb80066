--------------------------- MODULE ArrayLockFifo ---------------------------
(***************************************************************************)
(* The array lock is a first-come-first-served lock.                       *)
(***************************************************************************)
EXTENDS ArrayLock, Sequences, FiniteSetsExt

\* The distance of a slot behind the one that will be drawn next.
Behind(p) == IF p < next THEN next - p ELSE next + size - p

Distance == [t \in InLine |-> Behind(pos[t])]

\* The elements of d's domain, the one with the largest value first; the values
\* are the numbers from 1 up.
Longest(d) == Max({d[t] : t \in DOMAIN d} \cup {0})
Ordered(d) == [k \in 1 .. Longest(d) |-> CHOOSE t \in DOMAIN d : d[t] = Longest(d) + 1 - k]

\* The threads in line, the one whose slot was drawn first at the head.
Line == Ordered(Distance)

Fifo == INSTANCE FifoMutex WITH line <- Line, inside <- Inside

\* The array lock is a fair lock: threads enter in the order in which they
\* incremented lk->next, whatever the interleaving of acquire and release.
FirstComeFirstServed == Fifo!FifoSpec
=============================================================================
