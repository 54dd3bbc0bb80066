----------------------------- MODULE MCFileData -----------------------------
(* FileData for TLC: two processes read and write one file that is open      *)
(* twice, or one process writes and removes two files.                       *)
EXTENDS FileData

Twice == <<"f", "f", "g">>
ThreeBytes == {<<1, 2, 2>>}
OneOrThree == {1, 3}

VARIABLE work             \* who writes which open files, and whether anybody reads

Works ==
  {[procs |-> {"p1", "p2"}, files |-> {1, 2}, reads |-> TRUE],
   [procs |-> {"p1"}, files |-> {1, 3}, reads |-> FALSE]}

Within ==
  /\ \A p \in Procs : file[p] = NoFile /\ file'[p] # NoFile =>
       p \in work.procs /\ file'[p] \in work.files
  /\ ~work.reads => got' = <<>>
  /\ \A o \in Files \ work.files : off'[o] = 0

MCInit == Init /\ work \in Works

MCSpec == MCInit /\ [][Next /\ Within /\ UNCHANGED work]_<<vars, work>>
=============================================================================
