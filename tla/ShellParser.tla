----------------------------- MODULE ShellParser -----------------------------
(***************************************************************************)
(* The parser of the shell (sh.c): from a line, a sequence of characters,  *)
(* to the tree of a command.                                               *)
(*                                                                         *)
(* A word is the pair of positions q and eq, its first character and the   *)
(* one after its last.  A parser takes the line s and the position i of    *)
(* *ps; it returns the tree and the position it leaves there, or Panic.    *)
(***************************************************************************)
EXTENDS Naturals, Sequences, SequencesExt

CONSTANT MAXARGS

whitespace == {" ", "\n"}
symbols == {"<", "|", ">", "&", ";", "(", ")"}
NUL == "NUL"

At(s, i) == IF i <= Len(s) THEN s[i] ELSE NUL

execcmd(argv) == [type |-> "EXEC", argv |-> argv]
redircmd(cmd, r) == [type |-> "REDIR", cmd |-> cmd, file |-> r.file, fd |-> r.fd]
pipecmd(left, right) == [type |-> "PIPE", left |-> left, right |-> right]
listcmd(left, right) == [type |-> "LIST", left |-> left, right |-> right]
backcmd(cmd) == [type |-> "BACK", cmd |-> cmd]

Panic == [ok |-> FALSE]
Parsed(cmd, i) == [ok |-> TRUE, cmd |-> cmd, i |-> i]

-----------------------------------------------------------------------------
\* The first position from i on where the character is not in chars.
RECURSIVE Skip(_, _, _)
Skip(s, i, chars) == IF At(s, i) \in chars THEN Skip(s, i + 1, chars) ELSE i

RECURSIVE WordEnd(_, _)
WordEnd(s, i) == IF At(s, i) \in whitespace \cup symbols \cup {NUL} THEN i ELSE WordEnd(s, i + 1)

\* The token that begins with the character c, at q.
TokenEnd(s, q, c) ==
  IF c = NUL THEN q
  ELSE IF c = ">" /\ At(s, q + 1) = ">" THEN q + 2       \* ret is '+', used as '>' is
  ELSE IF c \in symbols THEN q + 1
  ELSE WordEnd(s, q)
TokenFrom(s, q, c, eq) ==
  [tok |-> IF c \in symbols \cup {NUL} THEN c ELSE "a", q |-> q, eq |-> eq, i |-> Skip(s, eq, whitespace)]
TokenAt(s, q) == TokenFrom(s, q, At(s, q), TokenEnd(s, q, At(s, q)))

gettoken(s, i) == TokenAt(s, Skip(s, i, whitespace))

peek(s, i, toks) == At(s, Skip(s, i, whitespace)) \in toks

\* The redirections from i on, the first one first.
RECURSIVE parseredirs(_, _, _)
RedirTo(redirs, s, tok, file) ==
  IF file.tok # "a" THEN Panic
  ELSE parseredirs(Append(redirs, [file |-> <<file.q, file.eq>>, fd |-> IF tok = "<" THEN 0 ELSE 1]), s, file.i)
RedirOp(redirs, s, op) == RedirTo(redirs, s, op.tok, gettoken(s, op.i))
parseredirs(redirs, s, i) ==
  IF peek(s, i, {"<", ">"}) THEN RedirOp(redirs, s, gettoken(s, i))
                            ELSE [ok |-> TRUE, redirs |-> redirs, i |-> i]

\* Each redirection is put around what is there.
Redirected(cmd, redirs) == FoldLeft(redircmd, cmd, redirs)

\* The loop of parseexec, with the next token, and with what parseredirs returned.
RECURSIVE ParseArgs(_, _, _)
MoreArgs(argv, s, r) == IF r.ok THEN ParseArgs(argv, s, r) ELSE Panic
ParseArg(argv, redirs, s, t) ==
  IF t.tok # "a" \/ Len(argv) + 1 >= MAXARGS THEN Panic
  ELSE MoreArgs(Append(argv, <<t.q, t.eq>>), s, parseredirs(redirs, s, t.i))
ParseArgs(argv, s, r) ==
  IF peek(s, r.i, {"|", ")", "&", ";", NUL})
  THEN Parsed(Redirected(execcmd(argv), r.redirs), Skip(s, r.i, whitespace))
  ELSE ParseArg(argv, r.redirs, s, gettoken(s, r.i))

RECURSIVE parseline(_, _)

BlockRedirs(cmd, r) == IF r.ok THEN Parsed(Redirected(cmd, r.redirs), r.i) ELSE Panic
BlockEnd(s, line) ==
  IF ~line.ok THEN Panic
  ELSE IF ~peek(s, line.i, {")"}) THEN Panic
  ELSE BlockRedirs(line.cmd, parseredirs(<<>>, s, gettoken(s, line.i).i))
parseblock(s, i) == BlockEnd(s, parseline(s, gettoken(s, i).i))

parseexec(s, i) ==
  IF peek(s, i, {"("}) THEN parseblock(s, i) ELSE MoreArgs(<<>>, s, parseredirs(<<>>, s, i))

RECURSIVE parsepipe(_, _)
Piped(left, right) == IF right.ok THEN Parsed(pipecmd(left.cmd, right.cmd), right.i) ELSE Panic
PipeRest(s, left) ==
  IF ~left.ok THEN Panic
  ELSE IF peek(s, left.i, {"|"}) THEN Piped(left, parsepipe(s, gettoken(s, left.i).i)) ELSE left
parsepipe(s, i) == PipeRest(s, parseexec(s, i))

\* The loop of parseline: an & after another.
RECURSIVE Backs(_, _)
Backs(s, r) ==
  IF peek(s, r.i, {"&"}) THEN Backs(s, Parsed(backcmd(r.cmd), gettoken(s, r.i).i)) ELSE r

Listed(left, right) == IF right.ok THEN Parsed(listcmd(left.cmd, right.cmd), right.i) ELSE Panic

\* A mutation of LineRest: what follows ; is one pipeline.
MutLineRest(s, left) ==
  IF peek(s, left.i, {";"}) THEN Listed(left, parsepipe(s, gettoken(s, left.i).i)) ELSE left

LineRest(s, left) ==
  IF peek(s, left.i, {";"}) THEN Listed(left, parseline(s, gettoken(s, left.i).i)) ELSE left
LineFirst(s, first) == IF first.ok THEN LineRest(s, Backs(s, first)) ELSE Panic
parseline(s, i) == LineFirst(s, parsepipe(s, i))

\* Where nulterminate puts a 0.
RECURSIVE nulterminate(_)
nulterminate(cmd) ==
  CASE cmd.type = "EXEC" -> {w[2] : w \in ToSet(cmd.argv)}
    [] cmd.type = "REDIR" -> {cmd.file[2]} \cup nulterminate(cmd.cmd)
    [] cmd.type \in {"PIPE", "LIST"} -> nulterminate(cmd.left) \cup nulterminate(cmd.right)
    [] cmd.type = "BACK" -> nulterminate(cmd.cmd)

\* parsecmd: the tree and the line as nulterminate leaves it.
Terminated(s, cmd, ends) ==
  [ok |-> TRUE, cmd |-> cmd, buf |-> [i \in 1 .. Len(s) |-> IF i \in ends THEN NUL ELSE s[i]]]
AtEnd(s, r) ==
  IF ~r.ok THEN Panic
  ELSE IF Skip(s, r.i, whitespace) # Len(s) + 1 THEN Panic
  ELSE Terminated(s, r.cmd, nulterminate(r.cmd))
parsecmd(s) == AtEnd(s, parseline(s, 1))
==============================================================================
