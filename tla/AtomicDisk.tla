----------------------------- MODULE AtomicDisk -----------------------------
(***************************************************************************)
(* What log.c promises its callers (the comment at the head of log.c): the *)
(* blocks written between begin_op and end_op reach the disk all together  *)
(* or not at all, and nothing of an unfinished operation survives a crash. *)
(***************************************************************************)
CONSTANTS Procs, Blocks, Values

VARIABLES
  cur,        \* what a process that reads a block sees
  durable,    \* what is left after a crash
  active      \* the processes between begin_op and end_op

vars == <<cur, durable, active>>

Init ==
  /\ cur \in [Blocks -> Values]
  /\ durable = cur
  /\ active = {}

Begin(p) ==
  /\ p \notin active
  /\ active' = active \cup {p}
  /\ UNCHANGED <<cur, durable>>

Write(p, b, v) ==
  /\ p \in active
  /\ cur' = [cur EXCEPT ![b] = v]
  /\ UNCHANGED <<durable, active>>

End(p) ==
  /\ p \in active
  /\ active' = active \ {p}
  /\ UNCHANGED <<cur, durable>>

\* Between operations only, everything that was written becomes durable.
Commit ==
  /\ active = {}
  /\ durable' = cur
  /\ UNCHANGED <<cur, active>>

Crash ==
  /\ cur' = durable
  /\ active' = {}
  /\ UNCHANGED durable

Next ==
  \/ \E p \in Procs :
       \/ Begin(p) \/ End(p)
       \/ \E b \in Blocks, v \in Values : Write(p, b, v)
  \/ Commit
  \/ Crash

Spec == Init /\ [][Next]_vars
=============================================================================
