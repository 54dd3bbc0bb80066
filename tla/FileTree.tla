------------------------------ MODULE FileTree ------------------------------
(***************************************************************************)
(* Inodes, directories and path names (fs.c), and the system calls that    *)
(* create, find, link and remove them (sysfile.c).                         *)
(*                                                                         *)
(* An entry of the inode cache is known by its inode number, so the cache  *)
(* is never too small (panic "iget: no inodes").  Between ilock and        *)
(* iunlock of one inode, with no other lock to wait for, a process takes   *)
(* one step; iput is three: the test, what it frees, and the decrement of  *)
(* ref.  A path is a sequence of names, absolute or not.  The log makes    *)
(* the writes of a call one: see Log.                                      *)
(***************************************************************************)
EXTENDS Naturals, Sequences, FiniteSets, Functions

CONSTANTS
  Procs, NINODES,
  Names,        \* names of directory entries, without "." and ".."
  Calls         \* the system calls that processes make

NoProc == "none"
Inums == 1 .. NINODES
None == 0
Root == 1
Dots == {".", ".."}
Kinds == {"open", "openw", "creat", "mkdir", "unlink", "link", "chdir", "close"}

ASSUME FileTreeAssumption ==
  /\ NINODES \in Nat \ {0} /\ NoProc \notin Procs
  /\ Names \cap Dots = {}
  /\ \A c \in Calls :
       /\ c.kind \in Kinds /\ c.abs \in BOOLEAN /\ c.path \in Seq(Names \cup Dots)
       /\ c.kind = "link" => c.new \in Seq(Names \cup Dots) /\ c.new # <<>>
       /\ c.kind \in {"creat", "mkdir", "unlink"} => c.path # <<>>

VARIABLES
  disk, ents,      \* dinode; the contents of directories
  cache, lock,     \* struct inode; the owner of its sleep lock
  cwd, fd,         \* struct proc: the directory, one open file
  pc, call,        \* where a process is, in which call
  ip, dp, tgt,     \* its inodes: of the walk, the parent, the target of a link
  rest,            \* what namex has yet to resolve
  puts, stage      \* inodes it has yet to iput; how far iput is with the first

tree == <<disk, ents>>
local == <<pc, call, ip, dp, tgt, rest, puts>>
vars == <<tree, cache, lock, cwd, fd, local, stage>>

NoEnts == [n \in Names \cup Dots |-> None]
NoCall == [kind |-> "none", abs |-> FALSE, path |-> <<>>]
Free == [type |-> "none", nlink |-> 0]

\* mkfs makes the root; the first process has it as its directory.
Init ==
  /\ disk = [i \in Inums |-> IF i = Root THEN [type |-> "dir", nlink |-> 1] ELSE Free]
  /\ ents = [i \in Inums |-> [n \in Names \cup Dots |-> IF i = Root /\ n \in Dots THEN Root ELSE None]]
  /\ cache = [i \in Inums |-> [ref |-> IF i = Root THEN Cardinality(Procs) ELSE 0,
                               valid |-> FALSE, type |-> "none", nlink |-> 0]]
  /\ lock = [i \in Inums |-> NoProc]
  /\ cwd = [p \in Procs |-> Root] /\ fd = [p \in Procs |-> None]
  /\ pc = [p \in Procs |-> "user"] /\ call = [p \in Procs |-> NoCall]
  /\ ip = [p \in Procs |-> None] /\ dp = [p \in Procs |-> None] /\ tgt = [p \in Procs |-> None]
  /\ rest = [p \in Procs |-> <<>>]
  /\ puts = [p \in Procs |-> <<>>] /\ stage = [p \in Procs |-> "test"]

-----------------------------------------------------------------------------
\* The inode cache

At(p, place) == pc[p] = place /\ puts[p] = <<>>
Goes(p, to) == pc' = [pc EXCEPT ![p] = to]
Unlocked(i) == lock[i] = NoProc
Stages(p, to) == stage' = [stage EXCEPT ![p] = to]

\* What ilock finds: the cached copy, or that of the disk
Inode(i) == IF cache[i].valid THEN [type |-> cache[i].type, nlink |-> cache[i].nlink] ELSE disk[i]
ilock(i) == Unlocked(i) /\ Inode(i).type # "none"
Loaded(c, i) ==
  [c EXCEPT ![i].valid = TRUE, ![i].type = Inode(i).type, ![i].nlink = Inode(i).nlink]
iget(c, i) == [c EXCEPT ![i].ref = @ + 1, ![i].valid = @ /\ c[i].ref > 0]

\* nlink changed by k, in the copy and, with iupdate, on the disk
Relink(c, i, k) == [c EXCEPT ![i].nlink = @ + k]
iupdate(c, is) == [i \in Inums |-> IF i \in is THEN [type |-> c[i].type, nlink |-> c[i].nlink] ELSE disk[i]]

Start(p, c) == IF c.abs THEN Root ELSE cwd[p]

\* The system call returns; what is left are the inodes it has yet to put.
Return(p) ==
  /\ Goes(p, "user")
  /\ call' = [call EXCEPT ![p] = NoCall] /\ rest' = [rest EXCEPT ![p] = <<>>]
  /\ ip' = [ip EXCEPT ![p] = None] /\ dp' = [dp EXCEPT ![p] = None] /\ tgt' = [tgt EXCEPT ![p] = None]
frame == <<call, ip, dp, tgt, rest>>

Puts(p, is) == puts' = [puts EXCEPT ![p] = is]
Leaves(p) == dp' = [dp EXCEPT ![p] = None]

\* A mutation of Frees: the other references are not asked about.
MutFreesInUse(i) == cache[i].valid /\ cache[i].nlink = 0

\* The last reference to an unlinked inode
Frees(i) == cache[i].valid /\ cache[i].nlink = 0 /\ cache[i].ref = 1

\* iput locks the inode and reads ref; with icache.lock given back it goes on.
IputTest(p) ==
  /\ puts[p] # <<>> /\ stage[p] = "test"
  /\ LET i == Head(puts[p])
     IN  /\ Unlocked(i)
         /\ \/ Frees(i) /\ lock' = [lock EXCEPT ![i] = p] /\ Stages(p, "free")
            \/ ~Frees(i) /\ Stages(p, "ref") /\ UNCHANGED lock
  /\ UNCHANGED <<tree, cache, cwd, fd, local>>

\* itrunc and iupdate of the inode it frees
IputFree(p) ==
  /\ stage[p] = "free"
  /\ LET i == Head(puts[p])
     IN  /\ cache' = [cache EXCEPT ![i].valid = FALSE, ![i].type = "none"]
         /\ disk' = [disk EXCEPT ![i] = Free] /\ ents' = [ents EXCEPT ![i] = NoEnts]
         /\ lock' = [lock EXCEPT ![i] = NoProc]
  /\ Stages(p, "ref")
  /\ UNCHANGED <<cwd, fd, local>>

\* iput after the lock
IputRef(p) ==
  /\ stage[p] = "ref"
  /\ Stages(p, "test")
  /\ cache' = [cache EXCEPT ![Head(puts[p])].ref = @ - 1]
  /\ Puts(p, Tail(puts[p]))
  /\ UNCHANGED <<tree, lock, cwd, fd, pc, call, ip, dp, tgt, rest>>

-----------------------------------------------------------------------------
\* namex

Parent(p) ==
  \/ call[p].kind \in {"creat", "mkdir", "unlink"}
  \/ call[p].kind = "link" /\ tgt[p] # None

LastName(p) == Head(rest[p])

\* What the call does with the inode the path names, or with its parent
After(c, t) ==
  CASE c.kind \in {"open", "openw"} -> "open"
    [] c.kind \in {"creat", "mkdir"} -> "create"
    [] c.kind = "link" -> IF t = None THEN "link" ELSE "link_in"
    [] OTHER -> c.kind

WalkFails(p) ==
  /\ \/ tgt[p] = None /\ Return(p)
     \/ tgt[p] # None /\ Goes(p, "link_bad") /\ UNCHANGED frame
  /\ Puts(p, <<ip[p]>>)

Walk(p) ==
  LET i == ip[p]
  IN  /\ At(p, "walk") /\ ilock(i)
      /\ LET next == ents[i][Head(rest[p])]
             isdir == Inode(i).type = "dir"
         IN  \/ /\ ~isdir \/ (next = None /\ ~(Parent(p) /\ Len(rest[p]) = 1))
                /\ WalkFails(p)
                /\ cache' = Loaded(cache, i)
             \/ /\ isdir /\ Parent(p) /\ Len(rest[p]) = 1
                /\ Goes(p, After(call[p], tgt[p]))
                /\ dp' = [dp EXCEPT ![p] = i] /\ ip' = [ip EXCEPT ![p] = None]
                /\ cache' = Loaded(cache, i)
                /\ UNCHANGED <<call, tgt, rest, puts>>
             \/ /\ isdir /\ next # None /\ ~(Parent(p) /\ Len(rest[p]) = 1)
                /\ ip' = [ip EXCEPT ![p] = next] /\ rest' = [rest EXCEPT ![p] = Tail(@)]
                /\ Goes(p, IF Len(rest[p]) = 1 THEN After(call[p], tgt[p]) ELSE "walk")
                /\ cache' = iget(Loaded(cache, i), next)
                /\ Puts(p, <<i>>)
                /\ UNCHANGED <<call, dp, tgt>>
      /\ UNCHANGED <<tree, lock, cwd, fd, stage>>

-----------------------------------------------------------------------------
\* open, close, chdir

\* Any call but close starts with a path and a reference to the directory.
Call(p, c) ==
  /\ At(p, "user") /\ c.kind # "close"
  /\ c.kind \in {"open", "openw", "creat"} => fd[p] = None
  /\ call' = [call EXCEPT ![p] = c]
  /\ ip' = [ip EXCEPT ![p] = Start(p, c)] /\ rest' = [rest EXCEPT ![p] = c.path]
  /\ cache' = iget(cache, Start(p, c))
  /\ Goes(p, IF c.path = <<>> THEN After(c, None) ELSE "walk")
  /\ UNCHANGED <<tree, lock, cwd, fd, dp, tgt, puts, stage>>

close(p) ==
  /\ At(p, "user") /\ fd[p] # None
  /\ Puts(p, <<fd[p]>>) /\ fd' = [fd EXCEPT ![p] = None]
  /\ UNCHANGED <<tree, cache, lock, cwd, pc, call, ip, dp, tgt, rest, stage>>

sys_open(p) ==
  /\ At(p, "open") /\ ilock(ip[p])
  /\ cache' = Loaded(cache, ip[p])
  /\ IF call[p].kind = "openw" /\ Inode(ip[p]).type = "dir"
     THEN Puts(p, <<ip[p]>>) /\ UNCHANGED fd
     ELSE fd' = [fd EXCEPT ![p] = ip[p]] /\ UNCHANGED puts
  /\ Return(p)
  /\ UNCHANGED <<tree, lock, cwd, stage>>

sys_chdir(p) ==
  /\ At(p, "chdir") /\ ilock(ip[p])
  /\ cache' = Loaded(cache, ip[p])
  /\ IF Inode(ip[p]).type # "dir"
     THEN Puts(p, <<ip[p]>>) /\ UNCHANGED cwd
     ELSE Puts(p, <<cwd[p]>>) /\ cwd' = [cwd EXCEPT ![p] = ip[p]]
  /\ Return(p)
  /\ UNCHANGED <<tree, lock, fd, stage>>

-----------------------------------------------------------------------------
\* create: creat and mkdir

\* A mutation of FoundPuts: dp stays locked.
MutFoundPuts(p, d) == lock' = [lock EXCEPT ![d] = p] /\ UNCHANGED puts

FoundPuts(p, d) == Puts(p, <<d>>) /\ UNCHANGED lock

\* With dp locked: the name is there, or an inode is allocated for it.
CreateIn(p) ==
  LET d == dp[p]
      found == ents[d][LastName(p)]
  IN  /\ At(p, "create") /\ ilock(d)
      /\ \/ /\ found # None
            /\ ip' = [ip EXCEPT ![p] = found]
            /\ cache' = iget(Loaded(cache, d), found)
            /\ FoundPuts(p, d) /\ Leaves(p) /\ Goes(p, "create_found")
            /\ UNCHANGED tree
         \/ /\ found = None
            /\ \E i \in Inums :                                  \* ialloc
                 /\ disk[i].type = "none" /\ \A j \in 1 .. i - 1 : disk[j].type # "none"
                 /\ disk' = [disk EXCEPT ![i].type = IF call[p].kind = "mkdir" THEN "dir" ELSE "file"]
                 /\ ip' = [ip EXCEPT ![p] = i]
                 /\ cache' = iget(Loaded(cache, d), i)
            /\ lock' = [lock EXCEPT ![d] = p] /\ Goes(p, "create_new")
            /\ UNCHANGED <<ents, puts, dp>>
      /\ UNCHANGED <<cwd, fd, call, tgt, rest, stage>>

CreateFound(p) ==
  LET i == ip[p]
  IN  /\ At(p, "create_found") /\ ilock(i)
      /\ cache' = Loaded(cache, i)
      /\ IF call[p].kind = "creat" /\ Inode(i).type = "file"
         THEN fd' = [fd EXCEPT ![p] = i] /\ UNCHANGED puts
         ELSE Puts(p, <<i>>) /\ UNCHANGED fd
      /\ Return(p)
      /\ UNCHANGED <<tree, lock, cwd, stage>>

DotDot(p) == IF call[p].kind = "mkdir" THEN 1 ELSE 0

\* The new inode is filled in and entered; dp is unlocked and put while the new
\* inode stays locked.
CreateNew(p) ==
  LET i == ip[p]
      d == dp[p]
      dir == call[p].kind = "mkdir"
      c == Relink(Relink(Loaded(cache, i), i, 1), d, DotDot(p))
  IN  /\ At(p, "create_new") /\ ilock(i)
      /\ cache' = c /\ disk' = iupdate(c, IF dir THEN {i, d} ELSE {i})
      /\ ents' = [ents EXCEPT ![d][LastName(p)] = i,
                             ![i] = IF dir THEN [@ EXCEPT !["."] = i, ![".."] = d] ELSE @]
      /\ lock' = [lock EXCEPT ![i] = p, ![d] = NoProc]
      /\ Puts(p, <<d>>) /\ Leaves(p) /\ Goes(p, "created")
      /\ UNCHANGED <<cwd, fd, call, ip, tgt, rest, stage>>

\* Back in sys_open or sys_mkdir
Created(p) ==
  /\ At(p, "created")
  /\ lock' = [lock EXCEPT ![ip[p]] = NoProc]
  /\ IF call[p].kind = "creat"
     THEN fd' = [fd EXCEPT ![p] = ip[p]] /\ UNCHANGED puts
     ELSE Puts(p, <<ip[p]>>) /\ UNCHANGED fd
  /\ Return(p)
  /\ UNCHANGED <<tree, cache, cwd, stage>>

-----------------------------------------------------------------------------
\* unlink

UnlinkIn(p) ==
  LET d == dp[p]
      found == ents[d][LastName(p)]
  IN  /\ At(p, "unlink") /\ ilock(d)
      /\ \/ /\ LastName(p) \in Dots \/ found = None
            /\ cache' = Loaded(cache, d)
            /\ Puts(p, <<d>>) /\ Return(p)
            /\ UNCHANGED lock
         \/ /\ LastName(p) \notin Dots /\ found # None
            /\ ip' = [ip EXCEPT ![p] = found]
            /\ cache' = iget(Loaded(cache, d), found)
            /\ lock' = [lock EXCEPT ![d] = p] /\ Goes(p, "unlink_inode")
            /\ UNCHANGED <<call, dp, tgt, rest, puts>>
      /\ UNCHANGED <<tree, cwd, fd, stage>>

isdirempty(i) == \A n \in Names : ents[i][n] = None

\* With both locked the entry goes; dp is unlocked and put while ip stays locked.
UnlinkInode(p) ==
  LET i == ip[p]
      d == dp[p]
      dir == Inode(i).type = "dir"
      c == Relink(Loaded(cache, i), d, 0 - IF dir THEN 1 ELSE 0)
  IN  /\ At(p, "unlink_inode") /\ ilock(i)
      /\ \/ /\ dir /\ ~isdirempty(i)
            /\ cache' = Loaded(cache, i)
            /\ Puts(p, <<i>>) /\ Goes(p, "unlink_bad")
            /\ UNCHANGED <<tree, lock, dp>>
         \/ /\ ~dir \/ isdirempty(i)
            /\ cache' = c /\ disk' = iupdate(c, {d})
            /\ ents' = [ents EXCEPT ![d][LastName(p)] = None]
            /\ lock' = [lock EXCEPT ![i] = p, ![d] = NoProc]
            /\ Puts(p, <<d>>) /\ Leaves(p) /\ Goes(p, "unlinked")
      /\ UNCHANGED <<cwd, fd, call, ip, tgt, rest, stage>>

UnlinkBad(p) ==
  /\ At(p, "unlink_bad")
  /\ lock' = [lock EXCEPT ![dp[p]] = NoProc]
  /\ Puts(p, <<dp[p]>>) /\ Return(p)
  /\ UNCHANGED <<tree, cache, cwd, fd, stage>>

Unlinked(p) ==
  LET c == Relink(cache, ip[p], 0 - 1)
  IN  /\ At(p, "unlinked")
      /\ cache' = c /\ disk' = iupdate(c, {ip[p]})
      /\ lock' = [lock EXCEPT ![ip[p]] = NoProc]
      /\ Puts(p, <<ip[p]>>) /\ Return(p)
      /\ UNCHANGED <<ents, cwd, fd, stage>>

-----------------------------------------------------------------------------
\* link

\* The count goes up first; then the new path is looked for.
LinkInode(p) ==
  LET i == ip[p]
      c == Relink(Loaded(cache, i), i, 1)
  IN  /\ At(p, "link") /\ ilock(i)
      /\ \/ /\ Inode(i).type = "dir"
            /\ cache' = Loaded(cache, i)
            /\ Puts(p, <<i>>) /\ Return(p)
            /\ UNCHANGED disk
         \/ /\ Inode(i).type # "dir"
            /\ cache' = iget(c, Start(p, call[p])) /\ disk' = iupdate(c, {i})
            /\ tgt' = [tgt EXCEPT ![p] = i] /\ ip' = [ip EXCEPT ![p] = Start(p, call[p])]
            /\ rest' = [rest EXCEPT ![p] = call[p].new] /\ Goes(p, "walk")
            /\ UNCHANGED <<call, dp, puts>>
      /\ UNCHANGED <<ents, lock, cwd, fd, stage>>

\* dirlink: a name that is there already is put while dp is locked.
LinkIn(p) ==
  LET d == dp[p]
      found == ents[d][LastName(p)]
  IN  /\ At(p, "link_in") /\ ilock(d)
      /\ \/ /\ found # None
            /\ cache' = iget(Loaded(cache, d), found)
            /\ lock' = [lock EXCEPT ![d] = p]
            /\ Puts(p, <<found>>) /\ Goes(p, "link_exists")
            /\ UNCHANGED <<ents, frame>>
         \/ /\ found = None
            /\ cache' = Loaded(cache, d)
            /\ ents' = [ents EXCEPT ![d][LastName(p)] = tgt[p]]
            /\ Puts(p, <<d, tgt[p]>>) /\ Return(p)
            /\ UNCHANGED lock
      /\ UNCHANGED <<disk, cwd, fd, stage>>

LinkExists(p) ==
  /\ At(p, "link_exists")
  /\ lock' = [lock EXCEPT ![dp[p]] = NoProc]
  /\ Puts(p, <<dp[p]>>) /\ Leaves(p) /\ Goes(p, "link_bad")
  /\ UNCHANGED <<tree, cache, cwd, fd, call, ip, tgt, rest, stage>>

\* A mutation of LinkBad: the count is not taken back.
MutLinkBad(p) ==
  LET c == Relink(Loaded(cache, tgt[p]), tgt[p], 0)
  IN  /\ At(p, "link_bad") /\ ilock(tgt[p])
      /\ cache' = c /\ disk' = iupdate(c, {tgt[p]})
      /\ Puts(p, <<tgt[p]>>) /\ Return(p)
      /\ UNCHANGED <<ents, lock, cwd, fd, stage>>

LinkBad(p) ==
  LET c == Relink(Loaded(cache, tgt[p]), tgt[p], 0 - 1)
  IN  /\ At(p, "link_bad") /\ ilock(tgt[p])
      /\ cache' = c /\ disk' = iupdate(c, {tgt[p]})
      /\ Puts(p, <<tgt[p]>>) /\ Return(p)
      /\ UNCHANGED <<ents, lock, cwd, fd, stage>>

-----------------------------------------------------------------------------
\* The inode that a process waits to lock, if any
Waits(p) ==
  CASE puts[p] # <<>> -> IF stage[p] = "test" THEN Head(puts[p]) ELSE None
    [] pc[p] \in {"walk", "open", "chdir", "create_found", "create_new", "unlink_inode", "link"} -> ip[p]
    [] pc[p] \in {"create", "unlink", "link_in"} -> dp[p]
    [] pc[p] = "link_bad" -> tgt[p]
    [] OTHER -> None

\* ilock of an inode that is free (panic "ilock: no type"): the kernel stops.
NoType(p) ==
  /\ puts[p] = <<>> /\ Waits(p) # None
  /\ Unlocked(Waits(p)) /\ Inode(Waits(p)).type = "none"
  /\ Goes(p, "panic")
  /\ UNCHANGED <<tree, cache, lock, cwd, fd, frame, puts, stage>>
Running == \A p \in Procs : pc[p] # "panic"

Step(p) ==
  \/ IputTest(p) \/ IputFree(p) \/ IputRef(p) \/ NoType(p) \/ Walk(p) \/ sys_open(p) \/ sys_chdir(p)
  \/ CreateIn(p) \/ CreateFound(p) \/ CreateNew(p) \/ Created(p)
  \/ UnlinkIn(p) \/ UnlinkInode(p) \/ UnlinkBad(p) \/ Unlinked(p)
  \/ LinkInode(p) \/ LinkIn(p) \/ LinkExists(p) \/ LinkBad(p)

Next == Running /\ \E p \in Procs : Step(p) \/ close(p) \/ \E c \in Calls : Call(p, c)

Spec == Init /\ [][Next]_vars

-----------------------------------------------------------------------------
\* Properties

Entered(d) == d = Root \/ \E e \in Inums, n \in Names : ents[e][n] = d
Entries(i) ==
  {e \in Inums \X (Names \cup {".."}) : ents[e[1]][e[2]] = i /\ (e[2] = ".." => Entered(e[1]))}
Linking(i) == {p \in Procs : tgt[p] = i /\ (pc[p] = "link_bad" \/ (Parent(p) /\ pc[p] \in {"walk", "link_in", "link_exists"}))}

\* The link count of an inode that nobody is changing, 0 if it is free, is the
\* number of entries for it in directories (a "." does not count, nor does the
\* ".." of a directory that has been removed), and of link calls that have
\* counted it and not yet entered it.
LinksCounted ==
  \A i \in Inums :
    Unlocked(i) /\ (\A p \in Procs : pc[p] = "create_new" => ip[p] # i) =>
      disk[i].nlink = Cardinality(Entries(i)) + Cardinality(Linking(i))

\* The inodes a process has in its hands: all but the one iput has let go of
Uses(p) ==
  {cwd[p], fd[p], ip[p], dp[p], tgt[p]} \cup Range(IF stage[p] = "ref" THEN Tail(puts[p]) ELSE puts[p])
Reached(i) == Entered(i) \/ \E p \in Procs : i \in Uses(p)
Allocated(i) == disk[i].type # "none"

\* Nobody waits for an inode that it has locked itself, nor two processes for
\* each other's.
NoDeadlock ==
  \A p, q \in Procs :
    ~(Waits(p) # None /\ lock[Waits(p)] = q /\ Waits(q) # None /\ lock[Waits(q)] = p)
=============================================================================
