------------------------------- MODULE MCLog -------------------------------
(* Log for TLC, on two instances.  Few processes with all of the blocks, so  *)
(* that reservations that add up wrongly overflow the log; and all of the    *)
(* processes, so that one sleeps in begin_op while two operations are under  *)
(* way and the end of the first does not commit.  The disk starts blank.     *)
EXTENDS Log

CONSTANTS
  Blank,          \* what mkfs writes into a block
  SpareProcs,     \* the processes that only the second instance has
  SpareBlocks     \* the blocks that only the first instance has

VARIABLE few      \* this is the first instance

BlankDisk == disk = [b \in Blocks |-> Blank] /\ logd = [i \in 1 .. LOGSIZE |-> Blank]

MCInit == Init /\ BlankDisk /\ few \in BOOLEAN

MCNext ==
  /\ Next
  /\ few => \A p \in SpareProcs : pc'[p] = "idle"
  /\ ~few => \A b \in SpareBlocks : cache'[b] = NoData
  /\ UNCHANGED few

MCFairSpec == MCInit /\ [][MCNext]_<<vars, few>> /\ Fairness
=============================================================================
