---------------------------- MODULE MCProcTable ----------------------------
(* ProcTable, model-checked: processes that fork, exec, kill and exit in     *)
(* any order, programs with threads that they wait for, and three            *)
(* generations that exit in any order.                                       *)
EXTENDS ProcTable

Work(c, j, m, n, s, u) ==
  [calls |-> c, joins |-> j, memoryFails |-> m, maxpid |-> n, slots |-> s, cpus |-> u]

Programs ==
  {Work({"fork", "exit", "wait", "kill", "exec"}, FALSE, TRUE, 3, 3, 2),
   Work({"fork", "exit", "wait", "kill", "sleep"}, FALSE, FALSE, 3, 3, 2),
   Work({"fork", "clone", "exit", "wait"}, TRUE, FALSE, 4, 3, 2),
   Work({"fork", "exit", "wait"}, FALSE, FALSE, 4, 4, 1)}
=============================================================================
