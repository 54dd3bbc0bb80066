------------------------------- MODULE MCShell -------------------------------
(* Shell and ShellGrammar for TLC.  A run is of the shell with some lines    *)
(* typed, with enough processes or too few; or it is one short line, every   *)
(* one there is, for the parser.                                             *)
EXTENDS Shell, ShellGrammar

CONSTANT MaxLine

VARIABLE line                       \* for the parser; Running when the shell runs

Chars == {"a", " "} \cup symbols
Running == <<"running">>

\* Programs that begin with c read their input, those with e do not, x is missing.
Pipeline == <<"e", "|", "c", "|", "c">>
Block == <<"(", "e", ";", "c", ")", "|", "c">>
BlockReads == <<"e", "|", "(", "e", ";", "c", ")">>
Files == <<"c", "<", "f", ">", "g", ">", "h", "|", "c", ">", "h">>
NoFile == <<"e", "|", "c", "<", "x">>
NoProgram == <<"e", "|", "x", ";", "x", "|", "c">>
Background == <<"e", "|", "c", "&", ";", "e">>
Bad == <<"e", "|", ")">>
Cd == <<"c", "d", " ", "g">>

SomeInputs ==
  {[lines |-> <<l>>, procs |-> 6] : l \in {Pipeline, Block, BlockReads, Files, NoFile, NoProgram}} \cup
  {[lines |-> <<l>>, procs |-> n] : l \in {Pipeline, Block}, n \in 2 .. 4} \cup
  {[lines |-> <<Background>>, procs |-> 7],
   [lines |-> <<Bad, Cd, <<"e", "&">>, <<"e", "|", "c">>>>, procs |-> 4]}

MCInit ==
  /\ Init
  /\ \/ line = Running
     \/ line \in UNION {[1 .. n -> Chars] : n \in 0 .. MaxLine} /\ Cardinality(slots) = 2 /\ input[1].line = Pipeline

MCSpec ==
  /\ MCInit /\ [][Next /\ line = Running /\ UNCHANGED line]_<<vars, line>>
  /\ \A p \in Procs : WF_vars(Step(p)) /\ WF_vars(Drained(p) /\ finish(p))

\* Every line of up to MaxLine characters that the grammar of sh.c's commands
\* derives is parsed (parsecmd) to the tree the grammar gives it, with a NUL after
\* each of its words and in none of them (nulterminate), and every other one is
\* refused.
ParserRight == line # Running => ParsesTheGrammar(line)

\* Every process of a command line ends, whatever pipe, fork, open or exec refuses: no
\* end of a pipe stays open in a process that would never close it (runcmd).
AllOver == line = Running => AllEnd
=============================================================================
