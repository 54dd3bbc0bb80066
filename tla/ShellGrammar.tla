---------------------------- MODULE ShellGrammar ----------------------------
(* The language of the shell as a grammar, for a comparison with the parser: *)
(*   line  ::= back | back ; line          back ::= pipe | back &            *)
(*   pipe  ::= exec | exec "|" pipe        exec ::= items | ( line ) redirs  *)
(* where items are words and redirections in any order.  A nonterminal is    *)
(* the set of the trees of the tokens from i up to, not including, j.        *)
EXTENDS ShellParser, FiniteSets, FiniteSetsExt

\* The tokens: every symbol, every longest word, and >> for one in a row of >.
InWord(s, i) == i \in 1 .. Len(s) /\ s[i] \notin whitespace \cup symbols
Second(s, i) == \E k \in 1 .. i - 1 :       \* the second of >>
  /\ (i - k) % 2 = 1 /\ \A m \in k .. i : s[m] = ">"
  /\ k > 1 => s[k - 1] # ">"
Token(s, i, j) ==
  \/ /\ s[i] \in symbols /\ ~Second(s, i)
     /\ j = IF i < Len(s) /\ Second(s, i + 1) THEN i + 2 ELSE i + 1
  \/ (\A k \in i .. j - 1 : InWord(s, k)) /\ ~InWord(s, i - 1) /\ ~InWord(s, j)

Tokens(s) == SetToSortSeq(
  {t \in (1 .. Len(s)) \X (2 .. Len(s) + 1) : t[1] < t[2] /\ Token(s, t[1], t[2])},
  LAMBDA t, u : t[1] < u[1])

Kind(s, t) == IF InWord(s, t[1]) THEN "a" ELSE s[t[1]]

\* The trees of the tokens ts, of kinds ks.
Items(ks, ts, i, j) ==     \* the words, and the redirections, of a simple command
  LET files == {k \in i .. j - 1 : ks[k] \in {"<", ">"}}
      words == {k \in i .. j - 1 : ks[k] = "a" /\ k - 1 \notin files}
      inOrder(S) == SetToSortSeq(S, LAMBDA k, l : k < l)
      redirs == inOrder(files)
  IN IF /\ \A k \in i .. j - 1 : ks[k] \in {"a", "<", ">"}
        /\ \A k \in files : k + 1 < j /\ ks[k + 1] = "a"
        /\ Cardinality(words) < MAXARGS
     THEN {[argv |-> [n \in 1 .. Cardinality(words) |-> ts[inOrder(words)[n]]],
            redirs |-> [n \in 1 .. Len(redirs) |->
              [file |-> ts[redirs[n] + 1], fd |-> IF ks[redirs[n]] = "<" THEN 0 ELSE 1]]]}
     ELSE {}

RECURSIVE Line(_, _, _, _)

Exec(ks, ts, i, j) ==
  {Redirected(execcmd(x.argv), x.redirs) : x \in Items(ks, ts, i, j)} \cup
  UNION {{Redirected(c, x.redirs) : c \in Line(ks, ts, i + 1, k),
                                    x \in {y \in Items(ks, ts, k + 1, j) : y.argv = <<>>}}
         : k \in {k \in i + 1 .. j - 1 : ks[i] = "(" /\ ks[k] = ")"}}

RECURSIVE Pipe(_, _, _, _)
Pipe(ks, ts, i, j) ==
  Exec(ks, ts, i, j) \cup
  UNION {{pipecmd(l, r) : l \in Exec(ks, ts, i, k), r \in Pipe(ks, ts, k + 1, j)}
         : k \in {k \in i .. j - 1 : ks[k] = "|"}}

RECURSIVE Back(_, _, _, _)
Back(ks, ts, i, j) ==
  Pipe(ks, ts, i, j) \cup
  (IF i < j /\ ks[j - 1] = "&" THEN {backcmd(c) : c \in Back(ks, ts, i, j - 1)} ELSE {})

Line(ks, ts, i, j) ==
  Back(ks, ts, i, j) \cup
  UNION {{listcmd(l, r) : l \in Back(ks, ts, i, k), r \in Line(ks, ts, k + 1, j)}
         : k \in {k \in i .. j - 1 : ks[k] = ";"}}

Trees(s) ==
  LET ts == Tokens(s) IN Line([k \in DOMAIN ts |-> Kind(s, ts[k])], ts, 1, Len(ts) + 1)

\* The string in buf that begins at q, as exec and open read it
StringAt(buf, q) ==
  LET ends == {k \in q .. Len(buf) : buf[k] = NUL}
  IN  SubSeq(buf, q, IF ends = {} THEN Len(buf) ELSE Min(ends) - 1)

\* Every word of the line is a string of its own in the buffer.
CutOff(s, buf) ==
  \A t \in ToSet(Tokens(s)) :
    Kind(s, t) = "a" => StringAt(buf, t[1]) = SubSeq(s, t[1], t[2] - 1)

\* parsecmd accepts the lines of the grammar, and for each returns its only tree,
\* with the words cut off in place.
ParsesTheGrammar(s) ==
  LET r == parsecmd(s)
  IN  IF r.ok THEN Trees(s) = {r.cmd} /\ CutOff(s, r.buf) ELSE Trees(s) = {}
=============================================================================
