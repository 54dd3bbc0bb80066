---------------------------- MODULE MCBufferCache ----------------------------
(* BufferCache for TLC: two processes contend for two blocks, on a good disk   *)
(* or a faulty one, and one or two use more blocks than there are buffers.     *)
EXTENDS BufferCache

CONSTANTS p1, p2, n1, n2, n3, n4, v1, v2

VARIABLE work              \* who runs, which blocks are used and which changed

Works ==
  {[procs |-> {p1, p2}, blocks |-> {n1, n2}, changes |-> {n1, n2}, faulty |-> FALSE],
   [procs |-> {p1, p2}, blocks |-> {n1, n2}, changes |-> {n1}, faulty |-> TRUE],
   [procs |-> {p1, p2}, blocks |-> Blocks, changes |-> {}, faulty |-> FALSE],
   [procs |-> {p1}, blocks |-> Blocks, changes |-> {n1}, faulty |-> FALSE]}

Within ==
  \A p \in Procs :
    /\ blk'[p] # NoBlock => p \in work.procs /\ blk'[p] \in work.blocks
    /\ p \in changed' => blk[p] \in work.changes

MCInit ==
  /\ Init /\ work \in Works /\ faulty = work.faulty
  /\ disk = [n \in Blocks |-> IF n \in {n1, n3} THEN v1 ELSE v2]
  /\ data = [b \in Bufs |-> v1]

MCFairSpec ==
  /\ MCInit /\ [][Next /\ Within /\ UNCHANGED work]_<<vars, work>>
  /\ \A p \in Procs : WF_vars(Kernel(p))
  /\ WF_vars(DiskDone) /\ WF_vars(ideintr)
=============================================================================
