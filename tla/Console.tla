------------------------------ MODULE Console ------------------------------
(***************************************************************************)
(* The console's input (console.c): the interrupt handler that edits and   *)
(* commits lines, and the processes that read them and write to the        *)
(* screen.                                                                 *)
(*                                                                         *)
(* A stretch of code under cons.lock is one action.  The indices count     *)
(* modulo WRAP, as unsigned integers do modulo 2^32.  Of the characters,   *)
(* "x" stands for those without a meaning of their own; what appears on    *)
(* the screen is left out.                                                 *)
(***************************************************************************)
EXTENDS Naturals, Sequences, FiniteSets

CONSTANTS
  Procs,
  INPUT_BUF,
  WRAP,          \* 2^32 in the code
  Counts,        \* how much the reads ask for
  Killable       \* the processes that may be killed

ASSUME ConsoleAssumption ==
  /\ INPUT_BUF \in Nat \ {0} /\ WRAP \in Nat /\ WRAP > INPUT_BUF /\ WRAP % INPUT_BUF = 0
  /\ Counts \subseteq Nat /\ Killable \subseteq Procs

VARIABLES
  buf, r, w, e,      \* input
  owner,             \* who has the lock of the console's inode
  killed,
  pc, n, got         \* per process: place, what is left of the request, read so far

input == <<buf, r, w, e>>
vars == <<input, owner, killed, pc, n, got>>

NoProc == "none"
Chars == {"x", "newline", "eof"}

Init ==
  /\ buf = [i \in 0 .. INPUT_BUF - 1 |-> "x"] /\ r = 0 /\ w = 0 /\ e = 0
  /\ owner = NoProc /\ killed = {}
  /\ pc = [p \in Procs |-> "user"] /\ n = [p \in Procs |-> 0] /\ got = [p \in Procs |-> <<>>]

Plus(i, k) == (i + k) % WRAP
Minus(i, j) == (i + WRAP - j) % WRAP
Slot(i) == i % INPUT_BUF
From(i, j) == [k \in 1 .. Minus(j, i) |-> buf[Slot(Plus(i, k - 1))]]

Goes(p, from, to) == pc[p] = from /\ pc' = [pc EXCEPT ![p] = to]

-----------------------------------------------------------------------------
\* consoleintr, one character

Wakeup == [p \in Procs |-> IF pc[p] = "asleep" THEN "read" ELSE pc[p]]

Room == Minus(e, r) < INPUT_BUF

\* A mutation of Commits: a full buffer is no reason to wake readers.
MutCommits(c) == c \in {"newline", "eof"}
Commits(c) == c \in {"newline", "eof"} \/ Plus(e, 1) = Plus(r, INPUT_BUF)

Typed(c) ==
  /\ Room
  /\ buf' = [buf EXCEPT ![Slot(e)] = c]
  /\ e' = Plus(e, 1)
  /\ \/ Commits(c) /\ w' = Plus(e, 1) /\ pc' = Wakeup
     \/ ~Commits(c) /\ UNCHANGED <<w, pc>>
  /\ UNCHANGED <<r, owner, killed, n, got>>

Backspace ==
  /\ e # w
  /\ e' = Minus(e, 1)
  /\ UNCHANGED <<buf, r, w, owner, killed, pc, n, got>>

\* ^U, back to the last newline
KillLine ==
  /\ e # w /\ buf[Slot(Minus(e, 1))] # "newline"
  /\ \E k \in 1 .. Minus(e, w) :
       /\ \A j \in 1 .. k : buf[Slot(Minus(e, j))] # "newline"
       /\ Minus(e, k) = w \/ buf[Slot(Minus(e, k + 1))] = "newline"
       /\ e' = Minus(e, k)
  /\ UNCHANGED <<buf, r, w, owner, killed, pc, n, got>>

-----------------------------------------------------------------------------
\* consoleread, called by readi with the inode locked

Enter(p, k) ==
  /\ owner = NoProc /\ Goes(p, "user", "locked")
  /\ owner' = p
  /\ n' = [n EXCEPT ![p] = k]
  /\ UNCHANGED <<input, killed, got>>

Unlock(p) ==
  /\ Goes(p, "locked", IF n[p] = 0 THEN "relock" ELSE "read")
  /\ owner' = NoProc
  /\ UNCHANGED <<input, killed, n, got>>

\* Nothing to read: a killed process gives up, another sleeps.
Waits(p) ==
  /\ r = w /\ Goes(p, "read", IF p \in killed THEN "relock" ELSE "asleep")
  /\ UNCHANGED <<input, owner, killed, n, got>>

Last(q, p, k) == k = n[p] \/ q[k] \in {"newline", "eof"}

\* A mutation of Saved: the end of a file that follows other characters is
\* taken with them.
MutSaved(p, k) == 0
\* ^D after other characters is left for the next read.
Saved(p, k) == IF got[p] # <<>> \/ k > 1 THEN 1 ELSE 0

\* All there is, up to n characters, a newline or an end of file
Takes(p) ==
  LET q == From(r, w)
      k == CHOOSE j \in 1 .. Len(q) :
             /\ \A i \in 1 .. j - 1 : ~Last(q, p, i)
             /\ Last(q, p, j) \/ j = Len(q)
      eof == q[k] = "eof"
      new == SubSeq(q, 1, IF eof THEN k - 1 ELSE k)
  IN  /\ r # w
      /\ Goes(p, "read", IF Last(q, p, k) THEN "relock" ELSE "read")
      /\ got' = [got EXCEPT ![p] = @ \o new] /\ n' = [n EXCEPT ![p] = @ - Len(new)]
      /\ r' = Plus(r, k - IF eof THEN Saved(p, k) ELSE 0)
      /\ UNCHANGED <<buf, w, e, owner, killed>>

\* The inode is locked again, and unlocked by fileread.
Relock(p) ==
  /\ owner = NoProc /\ Goes(p, "relock", "unlock")
  /\ owner' = p
  /\ UNCHANGED <<input, killed, n, got>>

Return(p) ==
  /\ Goes(p, "unlock", "user")
  /\ owner' = NoProc
  /\ n' = [n EXCEPT ![p] = 0] /\ got' = [got EXCEPT ![p] = <<>>]
  /\ UNCHANGED <<input, killed>>

\* consolewrite: it too gives the inode up before it takes cons.lock.
Write(p) ==
  /\ owner = NoProc /\ Goes(p, "user", "write")
  /\ owner' = p
  /\ UNCHANGED <<input, killed, n, got>>
Written(p) ==
  /\ Goes(p, "write", "relock")
  /\ owner' = NoProc
  /\ UNCHANGED <<input, killed, n, got>>

kill(p) ==
  /\ p \in Killable \ killed
  /\ killed' = killed \cup {p}
  /\ pc' = [pc EXCEPT ![p] = IF @ = "asleep" THEN "read" ELSE @]
  /\ UNCHANGED <<input, owner, n, got>>

-----------------------------------------------------------------------------
consoleintr == (\E c \in Chars : Typed(c)) \/ Backspace \/ KillLine
Reader(p) == Unlock(p) \/ Waits(p) \/ Takes(p) \/ Relock(p) \/ Return(p) \/ Written(p)

Next ==
  \/ consoleintr
  \/ \E p \in Procs : Reader(p) \/ Write(p) \/ kill(p) \/ \E k \in Counts : Enter(p, k)

Spec == Init /\ [][Next]_vars

-----------------------------------------------------------------------------
\* Properties

\* A reader sleeps only while there is nothing to read, so that no wakeup is
\* lost, and a full buffer never leaves everybody waiting for a newline.
ReadersWait ==
  /\ (\E p \in Procs : pc[p] = "asleep") => r = w
  /\ Minus(e, r) = INPUT_BUF => r # w

Lines == INSTANCE LineInput WITH queue <- From(r, w), edit <- From(w, e), Size <- INPUT_BUF

\* The ring with its three wrapping indices implements the line discipline.
LinesSpec == Lines!Spec
=============================================================================
