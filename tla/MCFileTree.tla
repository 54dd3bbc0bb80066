----------------------------- MODULE MCFileTree -----------------------------
(***************************************************************************)
(* FileTree for TLC: one of several small sets of system calls, and a      *)
(* record of the two things that the code does not guard against and on    *)
(* whose absence the properties depend.                                    *)
(***************************************************************************)
EXTENDS FileTree, TLC

C(kind, path) == [kind |-> kind, abs |-> TRUE, path |-> path]
R(kind, path) == [kind |-> kind, abs |-> FALSE, path |-> path]
L(old, new) == [kind |-> "link", abs |-> TRUE, path |-> old, new |-> new]

\* Files in the root directory
FileCalls ==
  {C("open", <<"a">>), C("creat", <<"a">>), C("unlink", <<"a">>), C("unlink", <<"b">>),
   L(<<"a">>, <<"b">>), L(<<"b">>, <<"a">>)}

\* A directory is made, used and removed at once by two processes.
DirCalls ==
  {C("mkdir", <<"a">>), C("creat", <<"a", "b">>), C("unlink", <<"a", "b">>), C("unlink", <<"a">>),
   C("openw", <<"a", "b">>), C("chdir", <<"a">>), R("chdir", <<"..">>)}

\* Nothing is removed or linked.
LockCalls ==
  {C("mkdir", <<"a">>), C("creat", <<"a">>), C("creat", <<"a", ".">>), C("creat", <<"a", "b">>), C("openw", <<"a", "..">>),
   C("open", <<"a", "b">>), C("chdir", <<"a">>), R("chdir", <<"..">>), C("mkdir", <<"a", "..">>)}

\* Everything, by processes that take turns
AllCalls ==
  {C("mkdir", <<"a">>), C("mkdir", <<"a", "b">>), C("creat", <<"a", "b">>), R("creat", <<"b">>),
   C("unlink", <<"a", "b">>), C("unlink", <<"a">>), C("unlink", <<"a", "..">>), C("unlink", <<"b">>),
   C("open", <<"a", "b">>), C("openw", <<"a">>),
   C("chdir", <<"a">>), C("chdir", <<"a", "b">>), R("chdir", <<"..">>), C("chdir", <<>>),
   L(<<"a", "b">>, <<"b">>), L(<<"b">>, <<"a", "b">>), L(<<"a">>, <<"b">>), L(<<"b">>, <<"b", "a">>)}

VARIABLES
  work,       \* the calls, and whether they are made one after the other
  lapses      \* which of "stray" and "race" has happened

Works ==
  {[calls |-> FileCalls, serial |-> FALSE],
   [calls |-> DirCalls, serial |-> FALSE],
   [calls |-> LockCalls, serial |-> FALSE],
   [calls |-> AllCalls, serial |-> TRUE]}

Removes == \E c \in work.calls : c.kind \in {"unlink", "link"}
Quiet(p) == pc[p] = "user" /\ puts[p] = <<>>

Within ==
  /\ \A p \in Procs : call'[p] # NoCall => call'[p] \in work.calls
  /\ "stray" \in lapses => work.serial
  /\ work.serial => \E p \in Procs : \A q \in Procs \ {p} : Quiet(q) /\ Quiet(q)'

\* A name is entered in a directory that has been removed and is still in use.
EntersRemoved ==
  \E d \in Inums, n \in Names : ~Entered(d) /\ ents[d][n] = None /\ ents'[d][n] # None

\* p looks up the ".." of a directory that has been removed.
LooksUp(p) ==
  /\ At(p, pc[p]) /\ pc[p] \in {"walk", "create", "link_in"}
  /\ Head(rest[p]) = ".." /\ ~Entered(IF pc[p] = "walk" THEN ip[p] ELSE dp[p])
  /\ dp'[p] = dp[p] /\ <<ip'[p], puts'[p]>> # <<ip[p], puts[p]>>

\* iput of p reads ref while another has read it and not yet counted it down.
Races(p) ==
  /\ stage[p] = "test" /\ stage'[p] = "ref"
  /\ \E q \in Procs \ {p} : stage[q] = "ref" /\ Head(puts[q]) = Head(puts[p])

Lapses ==
  (IF EntersRemoved \/ \E p \in Procs : LooksUp(p) THEN {"stray"} ELSE {})
    \cup (IF \E p \in Procs : Races(p) THEN {"race"} ELSE {})

MCInit == Init /\ work \in Works /\ lapses = {}
MCNext == Next /\ Within /\ lapses' = lapses \cup Lapses /\ UNCHANGED work

MCSpec == MCInit /\ [][MCNext]_<<vars, work, lapses>>

\* The link count of every inode is that of its entries (LinksCounted), as long
\* as nobody enters a name in a directory that has been removed or goes up from
\* it: namex and create do not look whether dp still has links.
NlinkCounted == "stray" \notin lapses => LinksCounted

\* The inodes allocated are those that have an entry or that a process has open,
\* is in or is working on, whatever others do between two steps of iput.  None
\* of these is freed, as long as nobody goes on from a directory that has been
\* removed; and no other is left behind, if besides no two processes are both
\* between iput's test and its decrement of ref.
InodesMatch ==
  "stray" \notin lapses =>
    \A i \in Inums :
      /\ Reached(i) => Allocated(i)
      /\ "race" \notin lapses => (Allocated(i) => Reached(i))

\* Where nothing is removed or linked, two processes lock inodes in an order
\* that never leaves them waiting for each other.
NoDeadlockGrowing == ~Removes => NoDeadlock

ProcSymmetry == Permutations(Procs)
AnyCall == FileCalls \cup DirCalls \cup LockCalls \cup AllCalls
=============================================================================
