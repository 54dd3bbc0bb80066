------------------------------- MODULE Stream -------------------------------
(***************************************************************************)
(* What a pipe promises: a first-in first-out channel of bounded capacity. *)
(* A read takes the oldest bytes, as many as it asked for or as there are; *)
(* it waits while there are none, unless no writer is left.  It may fail.  *)
(***************************************************************************)
EXTENDS Naturals, Sequences

CONSTANTS Procs, Values, Capacity, Counts, Failed

VARIABLES
  chan,      \* the bytes written and not yet read
  writers,   \* can anybody still write
  want,      \* what each process has asked for
  ret        \* what its read returns

vars == <<chan, writers, want, ret>>

Init ==
  /\ chan = <<>> /\ writers = TRUE
  /\ want = [p \in Procs |-> 0] /\ ret = [p \in Procs |-> <<>>]

Open ==
  /\ ~writers
  /\ chan' = <<>> /\ writers' = TRUE /\ UNCHANGED <<want, ret>>

Put ==
  /\ writers
  /\ \E n \in 1 .. Capacity - Len(chan) : \E s \in [1 .. n -> Values] : chan' = chan \o s
  /\ UNCHANGED <<writers, want, ret>>

Close == writers' = FALSE /\ UNCHANGED <<chan, want, ret>>

Ask(p, n) == want' = [want EXCEPT ![p] = n] /\ UNCHANGED <<chan, writers, ret>>

Take(p) ==
  /\ chan # <<>> \/ ~writers
  /\ LET n == IF want[p] <= Len(chan) THEN want[p] ELSE Len(chan)
     IN  /\ ret' = [ret EXCEPT ![p] = SubSeq(chan, 1, n)]
         /\ chan' = SubSeq(chan, n + 1, Len(chan))
  /\ want' = [want EXCEPT ![p] = 0]
  /\ UNCHANGED writers

Fail(p) ==
  /\ ret' = [ret EXCEPT ![p] = Failed]
  /\ want' = [want EXCEPT ![p] = 0]
  /\ UNCHANGED <<chan, writers>>

Return(p) == ret' = [ret EXCEPT ![p] = <<>>] /\ UNCHANGED <<chan, writers, want>>

Next ==
  \/ Open \/ Put \/ Close
  \/ \E p \in Procs : Take(p) \/ Fail(p) \/ Return(p) \/ \E n \in Counts : Ask(p, n)

Spec == Init /\ [][Next]_vars
=============================================================================
