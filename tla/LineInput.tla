----------------------------- MODULE LineInput -----------------------------
(***************************************************************************)
(* What the console promises to its readers: typed characters can be taken *)
(* back until the line is ended; then they are read in order, once, a line *)
(* at a time, and an end of file is seen by one read, which returns        *)
(* nothing.                                                                *)
(***************************************************************************)
EXTENDS Naturals, Sequences

CONSTANTS Procs, Size

VARIABLES
  queue,   \* characters that can be read
  edit,    \* the line being typed
  got      \* what each read has so far

Chars == {"x", "newline", "eof"}

Init == queue = <<>> /\ edit = <<>> /\ got = [p \in Procs |-> <<>>]

Type(c) ==
  /\ Len(queue) + Len(edit) < Size
  /\ IF c = "x" /\ Len(queue) + Len(edit) + 1 < Size
     THEN edit' = Append(edit, c) /\ UNCHANGED queue
     ELSE edit' = <<>> /\ queue' = queue \o Append(edit, c)
  /\ UNCHANGED got

Erase ==
  /\ edit # <<>>
  /\ edit' \in {SubSeq(edit, 1, Len(edit) - 1), <<>>}
  /\ UNCHANGED <<queue, got>>

\* A read takes k characters: no end of file, and nothing after a newline.
Take(p, k) ==
  LET now == got[p] \o SubSeq(queue, 1, k)
  IN  /\ \A i \in 1 .. Len(now) : now[i] # "eof" /\ (now[i] = "newline" => i = Len(now))
      /\ got' = [got EXCEPT ![p] = now]
      /\ queue' = SubSeq(queue, k + 1, Len(queue))
      /\ UNCHANGED edit

EndOfFile(p) ==
  /\ got[p] = <<>> /\ queue # <<>> /\ Head(queue) = "eof"
  /\ queue' = Tail(queue)
  /\ UNCHANGED <<edit, got>>

Return(p) == got' = [got EXCEPT ![p] = <<>>] /\ UNCHANGED <<queue, edit>>

Next ==
  \/ \E c \in Chars : Type(c)
  \/ Erase
  \/ \E p \in Procs : EndOfFile(p) \/ Return(p) \/ \E k \in 1 .. Len(queue) : Take(p, k)

Spec == Init /\ [][Next]_<<queue, edit, got>>
=============================================================================
