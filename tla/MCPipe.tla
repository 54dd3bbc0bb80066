------------------------------- MODULE MCPipe -------------------------------
(* Pipe for TLC: either two processes move two kinds of bytes, or three      *)
(* contend for the pipe, or one of two may be killed.                        *)
EXTENDS Pipe

CONSTANTS p1, p2, p3, a, b

VARIABLE work             \* who runs, what is written, who may be killed

Works ==
  {[procs |-> {p1, p2}, strings |-> {<<a, b, b>>}, reads |-> {1, 3}, kill |-> {}],
   [procs |-> {p1, p2, p3}, strings |-> {<<a>>}, reads |-> {1}, kill |-> {}],
   [procs |-> {p1, p2}, strings |-> {<<a, a, a>>}, reads |-> {3}, kill |-> {p1}]}

Within ==
  /\ killed' \subseteq work.kill
  /\ \A p \in Procs :
       /\ p \notin work.procs => ends'[p] = {}
       /\ pc[p] = "user" /\ pc'[p] = "write" => rest'[p] \in work.strings
       /\ pc[p] = "user" /\ pc'[p] = "read" => want'[p] \in work.reads

MCInit ==
  /\ Init /\ data = [i \in 0 .. PIPESIZE - 1 |-> a] /\ ends[p1] = Ends
  /\ work \in Works

MCFairSpec ==
  /\ MCInit /\ [][Next /\ Within /\ UNCHANGED work]_<<vars, work>>
  /\ \A p \in Procs : WF_vars(Kernel(p)) /\ WF_vars(Exits(p))
=============================================================================
