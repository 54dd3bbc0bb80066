------------------------------ MODULE ByteFile ------------------------------
(***************************************************************************)
(* What reads and writes of a file promise: a file is a sequence of bytes, *)
(* an open file is a position in one, a write goes to the position and     *)
(* moves it, and a read gets the bytes there.                              *)
(***************************************************************************)
EXTENDS Naturals, Sequences

CONSTANTS
  Inodes, Opened,     \* files, and which of them each open file is of
  Data, Lengths,      \* what is written at once, how much a read asks for
  MaxSize

VARIABLES
  contents, off,
  got                 \* the bytes the last step has read

Init == contents = [i \in Inodes |-> <<>>] /\ off = [o \in DOMAIN Opened |-> 0] /\ got = <<>>

Longer(a, b) == IF a > b THEN a ELSE b
Shorter(a, b) == IF a < b THEN a ELSE b

\* The bytes at the position change, no others, and they are of Data.
Write(o) ==
  LET i == Opened[o]
      old == contents[i]
      new == contents'[i]
  IN  /\ off[o] <= Len(old) /\ off'[o] \in off[o] + 1 .. MaxSize
      /\ off' = [off EXCEPT ![o] = off'[o]]
      /\ Len(new) = Longer(Len(old), off'[o])
      /\ SubSeq(new, off[o] + 1, off'[o]) \in Data
      /\ \A k \in 1 .. Len(old) : k \notin off[o] + 1 .. off'[o] => new[k] = old[k]
      /\ \A j \in Inodes \ {i} : contents'[j] = contents[j]
      /\ got' = <<>>

\* n bytes, or those there are up to the end
Read(o, n) ==
  /\ off[o] <= Len(contents[Opened[o]])
  /\ off' = [off EXCEPT ![o] = Shorter(@ + n, Len(contents[Opened[o]]))]
  /\ got' = SubSeq(contents[Opened[o]], off[o] + 1, off'[o])
  /\ UNCHANGED contents

Open(o) == off' = [off EXCEPT ![o] = 0] /\ got' = <<>> /\ UNCHANGED contents

\* A write begins or ends.
Pass == got' = <<>> /\ UNCHANGED <<contents, off>>

\* The file is removed, and its inode made a new one.
Replace(i) ==
  /\ contents' = [contents EXCEPT ![i] = <<>>]
  /\ off' = [o \in DOMAIN Opened |-> IF Opened[o] = i THEN 0 ELSE off[o]]
  /\ got' = <<>>

Next ==
  \/ \E o \in DOMAIN Opened : Write(o) \/ Open(o) \/ \E n \in Lengths : Read(o, n)
  \/ Pass
  \/ \E i \in Inodes : Replace(i)

Spec == Init /\ [][Next]_<<contents, off, got>>
=============================================================================
