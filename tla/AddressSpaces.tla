---------------------------- MODULE AddressSpaces ----------------------------
(* What the kernel promises about the memory of processes: every process has *)
(* pages of its own, which only it changes; sbrk adds zeroed pages or takes  *)
(* pages away at the end, fork gives the child a copy, and exec exchanges    *)
(* the whole memory or nothing.                                              *)
EXTENDS Naturals, Sequences

CONSTANTS
  Procs, First,         \* the processes, and the one that runs at the start
  Images,               \* the memory of a program that starts
  MaxPages

VARIABLE mem            \* for each process that has memory: what is in its pages

Init == mem = [p \in {First} |-> <<"text">>]

Store(p) == \E i \in DOMAIN mem[p] :
  mem[p][i] # "guard" /\ mem' = [mem EXCEPT ![p][i] = "data"]

Grow(p) == \E k \in 1 .. MaxPages :
  mem' = [mem EXCEPT ![p] = @ \o [i \in 1 .. k |-> "zero"]]

Shrink(p) == \E k \in 0 .. Len(mem[p]) - 1 :
  mem' = [mem EXCEPT ![p] = SubSeq(@, 1, k)]

Fork(p) == \E c \in Procs \ DOMAIN mem :
  mem' = [q \in DOMAIN mem \cup {c} |-> IF q = c THEN mem[p] ELSE mem[q]]

Exec(p) == \E image \in Images : mem' = [mem EXCEPT ![p] = image]

Reap(p) == mem' = [q \in DOMAIN mem \ {p} |-> mem[q]]

Next == \E p \in DOMAIN mem :
  Store(p) \/ Grow(p) \/ Shrink(p) \/ Fork(p) \/ Exec(p) \/ Reap(p)

Spec == Init /\ [][Next]_mem
==============================================================================
