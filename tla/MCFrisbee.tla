----------------------------- MODULE MCFrisbee -----------------------------
(* Frisbee, model-checked: three players, two with the MCS lock.           *)
EXTENDS Frisbee

Program(p, n, k, f) == [prog |-> p, numthreads |-> n, maxpass |-> k, cloneFails |-> f]

Runs == {Program("spin", 3, 2, FALSE), Program("spin", 3, 1, TRUE), Program("array", 3, 1, FALSE),
         Program("mcs", 2, 2, FALSE), Program("seq", 3, 2, FALSE)}
=============================================================================
