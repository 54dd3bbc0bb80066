----------------------------- MODULE BlockStore -----------------------------
(***************************************************************************)
(* What bread, bwrite and brelse promise: one current value per block,     *)
(* which its holder alone reads and changes.                               *)
(***************************************************************************)
CONSTANTS Procs, Blocks, Values, NoProc

VARIABLES
  contents,   \* the value of each block
  holder      \* who has the block, between bread and brelse

Init == contents \in [Blocks -> Values] /\ holder = [n \in Blocks |-> NoProc]

Get(p, n) ==
  /\ holder[n] = NoProc
  /\ holder' = [holder EXCEPT ![n] = p]
  /\ UNCHANGED contents

Change(p, n, v) ==
  /\ holder[n] = p
  /\ contents' = [contents EXCEPT ![n] = v]
  /\ UNCHANGED holder

Release(p, n) ==
  /\ holder[n] = p
  /\ holder' = [holder EXCEPT ![n] = NoProc]
  /\ UNCHANGED contents

Next ==
  \E p \in Procs, n \in Blocks :
    Get(p, n) \/ Release(p, n) \/ \E v \in Values : Change(p, n, v)

Spec == Init /\ [][Next]_<<contents, holder>>
=============================================================================
