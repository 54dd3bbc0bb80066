-------------------------------- MODULE Shell --------------------------------
(***************************************************************************)
(* The shell (sh.c): main reads lines, and a child of it parses and runs   *)
(* each.  runcmd is a list of system calls, which depends on the command   *)
(* only (Script), and one action makes the next call of a process: pipes   *)
(* see the ends that are open at that moment.                              *)
(*                                                                         *)
(* Of programs the model has what the shell depends on: whether one reads  *)
(* its input to the end, and that it may leave with output unread.  open   *)
(* and exec fail for the names Missing, fork for want of a slot, and pipe  *)
(* at any time.                                                            *)
(***************************************************************************)
EXTENDS ShellParser, FiniteSets, FiniteSetsExt

CONSTANTS
  Inputs,         \* the lines that are typed, and how many processes there may be
  NPROC,
  Readers,        \* the first letters of the programs that read their input
  Missing         \* the first letters of the names that do not exist

Procs == 0 .. NPROC
sh == 0
INIT == NPROC + 1

VARIABLES
  input,          \* the lines yet to be typed, each with what parsecmd makes of it
  slots,          \* the processes that fork may use
  st, parent,     \* of the processes, as in the kernel
  todo,           \* the system calls that a process has still to make
  buf, argv,      \* the line it works on, and the program it runs
  fd, p0, p1      \* its open files, and its p[0] and p[1]

vars == <<input, slots, st, parent, todo, buf, argv, fd, p0, p1>>

NONE == [kind |-> "none"]
Console == [kind |-> "console"]
File(line, file) == [kind |-> "file", file |-> <<line, file>>]
ReadEnd(line, cmd) == [kind |-> "read", of |-> <<line, cmd>>]
WriteEnd(line, cmd) == [kind |-> "write", of |-> <<line, cmd>>]

FDs == 0 .. 4
Closed == [n \in FDs |-> NONE]
Three == [n \in FDs |-> IF n <= 2 THEN Console ELSE NONE]    \* main opens three

Op(op) == [op |-> op]
CloseOp(n) == [op |-> "close", fd |-> n]
ForkOp(first, cmd) == [op |-> "fork", first |-> first, cmd |-> cmd]
ParseOp == [op |-> "parse"]
Main == <<Op("getcmd")>>

NoLine == [line |-> <<>>, parsed |-> Panic]

Init ==
  /\ \E i \in Inputs :
       /\ input = [k \in DOMAIN i.lines |-> [line |-> i.lines[k], parsed |-> parsecmd(i.lines[k])]]
       /\ slots = 1 .. i.procs
  /\ st = [p \in Procs |-> IF p = sh THEN "run" ELSE "unused"]
  /\ parent = [p \in Procs |-> INIT]
  /\ todo = [p \in Procs |-> IF p = sh THEN Main ELSE <<>>]
  /\ buf = [p \in Procs |-> NoLine] /\ argv = [p \in Procs |-> <<>>]
  /\ fd = [p \in Procs |-> IF p = sh THEN Three ELSE Closed]
  /\ p0 = [p \in Procs |-> 0] /\ p1 = [p \in Procs |-> 0]

-----------------------------------------------------------------------------
\* runcmd

RECURSIVE runcmd(_)

RunExec(cmd) ==
  IF cmd.argv = <<>> THEN <<Op("exit")>> ELSE <<[op |-> "exec", argv |-> cmd.argv], Op("exit")>>

RunRedir(cmd) == <<CloseOp(cmd.fd), [op |-> "open", file |-> cmd.file]>> \o runcmd(cmd.cmd)

RunList(cmd) == <<ForkOp(<<>>, cmd.left), Op("wait")>> \o runcmd(cmd.right)

\* Mutations of the case PIPE: the parent does not close p[1], or the left side p[0].
MutPipeKeepsEnd(cmd) ==
  <<[op |-> "pipe", cmd |-> cmd],
    ForkOp(<<CloseOp(1), Op("dup p1"), Op("close p0"), Op("close p1")>>, cmd.left),
    ForkOp(<<CloseOp(0), Op("dup p0"), Op("close p0"), Op("close p1")>>, cmd.right),
    Op("close p0"), Op("wait"), Op("wait"), Op("exit")>>

RunPipe(cmd) ==
  <<[op |-> "pipe", cmd |-> cmd],
    ForkOp(<<CloseOp(1), Op("dup p1"), Op("close p0"), Op("close p1")>>, cmd.left),
    ForkOp(<<CloseOp(0), Op("dup p0"), Op("close p0"), Op("close p1")>>, cmd.right),
    Op("close p0"), Op("close p1"), Op("wait"), Op("wait"), Op("exit")>>

RunBack(cmd) == <<ForkOp(<<>>, cmd.cmd), Op("exit")>>

runcmd(cmd) ==
  CASE cmd.type = "EXEC" -> RunExec(cmd)
    [] cmd.type = "REDIR" -> RunRedir(cmd)
    [] cmd.type = "LIST" -> RunList(cmd)
    [] cmd.type = "PIPE" -> RunPipe(cmd)
    [] cmd.type = "BACK" -> RunBack(cmd)

-----------------------------------------------------------------------------
\* The calls.

Calls(p, op) == st[p] = "run" /\ Head(todo[p]).op = op
Then(p, rest) == todo' = [todo EXCEPT ![p] = rest]
Go(p) == Then(p, Tail(todo[p]))
Lowest(p) == Min({n \in FDs : fd[p][n] = NONE})
Sets(p, n, file) == fd' = [fd EXCEPT ![p][n] = file]
Letter(p, word) == buf[p].line[word[1]]

close(p) == \E n \in FDs :
  /\ \/ Calls(p, "close") /\ n = Head(todo[p]).fd
     \/ Calls(p, "close p0") /\ n = p0[p]
     \/ Calls(p, "close p1") /\ n = p1[p]
  /\ Sets(p, n, NONE) /\ Go(p)
  /\ UNCHANGED <<input, slots, st, parent, buf, argv, p0, p1>>

dup(p) == \E n \in FDs :
  /\ \/ Calls(p, "dup p0") /\ n = p0[p]
     \/ Calls(p, "dup p1") /\ n = p1[p]
  /\ Sets(p, Lowest(p), fd[p][n]) /\ Go(p)
  /\ UNCHANGED <<input, slots, st, parent, buf, argv, p0, p1>>

open(p) ==
  /\ Calls(p, "open")
  /\ LET file == Head(todo[p]).file IN
     \/ /\ Letter(p, file) \in Missing
        /\ Then(p, <<Op("exit")>>) /\ UNCHANGED fd
     \/ /\ Letter(p, file) \notin Missing
        /\ Sets(p, Lowest(p), File(buf[p].line, file)) /\ Go(p)
  /\ UNCHANGED <<input, slots, st, parent, buf, argv, p0, p1>>

\* A pipe that cannot be made is a panic: the process exits.
pipe(p) ==
  LET cmd == Head(todo[p]).cmd
      r == Lowest(p)
      w == Min({n \in FDs : fd[p][n] = NONE} \ {r})
  IN
  /\ Calls(p, "pipe")
  /\ \/ Then(p, <<Op("exit")>>) /\ UNCHANGED <<fd, p0, p1>>
     \/ /\ fd' = [fd EXCEPT ![p][r] = ReadEnd(buf[p].line, cmd), ![p][w] = WriteEnd(buf[p].line, cmd)]
        /\ p0' = [p0 EXCEPT ![p] = r] /\ p1' = [p1 EXCEPT ![p] = w] /\ Go(p)
  /\ UNCHANGED <<input, slots, st, parent, buf, argv>>

\* fork1.  What the child does first is in the call.
fork1(p) ==
  LET op == Head(todo[p])
      free == {c \in slots : st[c] = "unused"}
      c == Min(free)
  IN
  /\ Calls(p, "fork")
  /\ \/ /\ free = {} /\ Then(p, <<Op("exit")>>)
        /\ UNCHANGED <<st, parent, buf, fd, p0, p1>>
     \/ /\ free # {}
        /\ st' = [st EXCEPT ![c] = "run"] /\ parent' = [parent EXCEPT ![c] = p]
        /\ buf' = [buf EXCEPT ![c] = buf[p]] /\ fd' = [fd EXCEPT ![c] = fd[p]]
        /\ p0' = [p0 EXCEPT ![c] = p0[p]] /\ p1' = [p1 EXCEPT ![c] = p1[p]]
        /\ todo' = [todo EXCEPT ![p] = Tail(@), ![c] = op.first \o runcmd(op.cmd)]
  /\ UNCHANGED <<input, slots, argv>>

\* wait: a zombie child, or no child at all.
wait(p) ==
  LET children == {c \in Procs : st[c] # "unused" /\ parent[c] = p} IN
  /\ Calls(p, "wait")
  /\ \/ children = {} /\ UNCHANGED <<st, parent>>
     \/ \E c \in children :
          st[c] = "zombie" /\ st' = [st EXCEPT ![c] = "unused"] /\ parent' = [parent EXCEPT ![c] = INIT]
  /\ Go(p) /\ UNCHANGED <<input, slots, buf, argv, fd, p0, p1>>

\* The end of a process: its files are closed, its children are left to init, which
\* waits for every zombie it gets.
Ends(p) ==
  LET orphans == {c \in Procs : parent[c] = p} IN
  /\ st' = [q \in Procs |->
       IF q = p THEN (IF parent[p] = INIT THEN "unused" ELSE "zombie")
       ELSE IF q \in orphans /\ st[q] = "zombie" THEN "unused" ELSE st[q]]
  /\ parent' = [q \in Procs |-> IF q \in orphans THEN INIT ELSE parent[q]]
  /\ fd' = [fd EXCEPT ![p] = Closed] /\ todo' = [todo EXCEPT ![p] = <<>>]
  /\ buf' = [buf EXCEPT ![p] = NoLine] /\ argv' = [argv EXCEPT ![p] = <<>>]
  /\ p0' = [p0 EXCEPT ![p] = 0] /\ p1' = [p1 EXCEPT ![p] = 0]
  /\ UNCHANGED <<input, slots>>

exit(p) == Calls(p, "exit") /\ Ends(p)

exec(p) ==
  /\ Calls(p, "exec")
  /\ LET words == Head(todo[p]).argv IN
     \/ /\ Letter(p, words[1]) \in Missing
        /\ Go(p) /\ UNCHANGED <<st, argv>>
     \/ /\ Letter(p, words[1]) \notin Missing
        /\ st' = [st EXCEPT ![p] = "program"] /\ argv' = [argv EXCEPT ![p] = words]
        /\ Then(p, <<>>)
  /\ UNCHANGED <<input, slots, parent, buf, fd, p0, p1>>

\* The child of main: parsecmd, which exits when the line is not a command.
parse(p) ==
  LET r == buf[p].parsed IN
  /\ Calls(p, "parse")
  /\ IF r.ok THEN Then(p, runcmd(r.cmd)) ELSE Go(p)
  /\ UNCHANGED <<input, slots, st, parent, buf, argv, fd, p0, p1>>

\* main: the next line, or the end.  chdir is made by main itself.
IsCd(line) == Len(line) >= 3 /\ SubSeq(line, 1, 3) = <<"c", "d", " ">>

getcmd(p) ==
  /\ Calls(p, "getcmd")
  /\ \/ input = <<>> /\ Then(p, <<Op("exit")>>) /\ UNCHANGED <<input, buf>>
     \/ /\ input # <<>> /\ input' = Tail(input)
        /\ buf' = [buf EXCEPT ![p] = Head(input)]
        /\ Then(p, IF IsCd(Head(input).line) THEN Main
                   ELSE <<ForkOp(<<ParseOp>>, execcmd(<<>>)), Op("wait")>> \o Main)
  /\ UNCHANGED <<slots, st, parent, argv, fd, p0, p1>>

\* A program ends.  One that reads its input does so at the end of it: a pipe ends
\* when no process has the end to write open.
Holders(end) == {q \in Procs : \E n \in FDs : fd[q][n] = end}
Other(end) == [end EXCEPT !.kind = IF @ = "read" THEN "write" ELSE "read"]
Reads(p) == st[p] = "program" /\ Letter(p, argv[p][1]) \in Readers

finish(p) ==
  /\ st[p] = "program"
  /\ (Reads(p) /\ fd[p][0].kind = "read") => Holders(Other(fd[p][0])) = {}
  /\ Ends(p)

\* Its output does not hold a program up: a program reads it, or nobody can.
Drained(p) == fd[p][1].kind = "write" =>
  LET holders == Holders(Other(fd[p][1])) IN
  holders = {} \/ \E q \in holders : Reads(q) /\ fd[q][0] = Other(fd[p][1])

Step(p) ==
  \/ close(p) \/ dup(p) \/ open(p) \/ pipe(p) \/ fork1(p) \/ wait(p)
  \/ exit(p) \/ exec(p) \/ parse(p) \/ getcmd(p)

Next == \E p \in Procs : Step(p) \/ finish(p)

\* The scheduler runs every process, and a program ends when its input and its output
\* let it.
Spec == Init /\ [][Next]_vars
FairSpec == Spec /\ \A p \in Procs : WF_vars(Step(p)) /\ WF_vars(Drained(p) /\ finish(p))

-----------------------------------------------------------------------------
\* When the lines have been read, every process ends, those in the background too.
AllEnd == <>(\A p \in Procs : st[p] = "unused")
=============================================================================
