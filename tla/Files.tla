------------------------------- MODULE Files -------------------------------
(***************************************************************************)
(* Open files: the table of file.c, the descriptors of the processes       *)
(* (sysfile.c), and what fork, clone and exit (proc.c) do with both.       *)
(*                                                                         *)
(* A stretch of code under ftable.lock is one action; a process's own      *)
(* descriptors are read and written by nobody else.  What a file refers to *)
(* is an inode or an end of a pipe; of these only the references count.    *)
(***************************************************************************)
EXTENDS Naturals, Sequences, FiniteSets, FiniteSetsExt

CONSTANTS
  NPROC, NOFILE, NFILE,
  Inodes, Pipes,
  Root,          \* the inode of "/"
  NoObj          \* no object: FD_NONE

Slots == 1 .. NPROC
Fds == 1 .. NOFILE
FileIds == 1 .. NFILE
NoFile == 0
initproc == 1
Ends == Pipes \X {"r", "w"}
Objs == Inodes \cup Ends

ASSUME FilesAssumption ==
  /\ NPROC \in Nat \ {0} /\ NOFILE \in Nat /\ NFILE \in Nat
  /\ Root \in Inodes /\ NoObj \notin Objs /\ Inodes \cap Ends = {}

VARIABLES
  ref, obj,              \* struct file: ref, and what type, ip and pipe say
  opens,                 \* references to an inode; is an end of a pipe open
  state, isthread, ofile, cwd,      \* struct proc
  pc,                    \* where the process is in a system call
  todo,                  \* files it has yet to give to fileclose
  gone,                  \* the object of the file it has just closed
  hold,                  \* an inode it has a reference to
  exiting,               \* processes in exit
  threads                \* the program calls clone, not fork, and its threads only exit

files == <<ref, obj>>
procs == <<state, isthread, cwd, exiting, threads>>
vars == <<files, opens, procs, ofile, pc, todo, gone, hold>>

NoFds == [fd \in Fds |-> NoFile]

Init ==
  /\ ref = [f \in FileIds |-> 0] /\ obj = [f \in FileIds |-> NoObj]
  /\ opens = [o \in Objs |-> IF o = Root THEN 1 ELSE 0]
  /\ state = [s \in Slots |-> IF s = initproc THEN "run" ELSE "unused"]
  /\ isthread = [s \in Slots |-> FALSE]
  /\ ofile = [s \in Slots |-> NoFds]
  /\ cwd = [s \in Slots |-> IF s = initproc THEN Root ELSE NoObj]
  /\ pc = [s \in Slots |-> "user"] /\ todo = [s \in Slots |-> <<>>]
  /\ gone = [s \in Slots |-> NoObj] /\ hold = [s \in Slots |-> NoObj]
  /\ exiting = {} /\ threads \in BOOLEAN

Goes(s, from, to) == state[s] = "run" /\ pc[s] = from /\ pc' = [pc EXCEPT ![s] = to]
Get(o) == opens' = [opens EXCEPT ![o] = @ + 1]
MayCall(s) == state[s] = "run" /\ pc[s] = "user" /\ ~isthread[s]
Put(o) == IF o = NoObj THEN UNCHANGED opens ELSE opens' = [opens EXCEPT ![o] = @ - 1]

FreeFds(s) == {fd \in Fds : ofile[s][fd] = NoFile}
FreeFiles == {f \in FileIds : ref[f] = 0}

-----------------------------------------------------------------------------
\* sys_open: an inode from namei or create, a file, a descriptor

sys_open(s, ip) ==
  /\ MayCall(s)
  /\ Goes(s, "user", "filealloc")
  /\ Get(ip) /\ hold' = [hold EXCEPT ![s] = ip]
  /\ UNCHANGED <<files, procs, ofile, todo, gone>>

\* filealloc and fdalloc; on a failure the file is closed and then the inode.
OpenAlloc(s) ==
  /\ \/ /\ FreeFiles = {} /\ Goes(s, "filealloc", "close")
        /\ UNCHANGED <<ref, ofile, todo>>
     \/ /\ FreeFiles # {} /\ FreeFds(s) = {} /\ Goes(s, "filealloc", "close")
        /\ ref' = [ref EXCEPT ![Min(FreeFiles)] = 1]
        /\ todo' = [todo EXCEPT ![s] = <<Min(FreeFiles)>>]
        /\ UNCHANGED ofile
     \/ /\ FreeFiles # {} /\ FreeFds(s) # {} /\ Goes(s, "filealloc", "install")
        /\ ref' = [ref EXCEPT ![Min(FreeFiles)] = 1]
        /\ ofile' = [ofile EXCEPT ![s][Min(FreeFds(s))] = Min(FreeFiles)]
        /\ todo' = [todo EXCEPT ![s] = <<Min(FreeFiles)>>]
  /\ UNCHANGED <<obj, opens, procs, gone, hold>>

\* The last lines of sys_open, with no lock held
Install(s) ==
  /\ Goes(s, "install", "user")
  /\ obj' = [obj EXCEPT ![todo[s][1]] = hold[s]]
  /\ todo' = [todo EXCEPT ![s] = <<>>] /\ hold' = [hold EXCEPT ![s] = NoObj]
  /\ UNCHANGED <<ref, opens, procs, ofile, gone>>

-----------------------------------------------------------------------------
\* sys_close, sys_dup, sys_chdir

sys_close(s, fd) ==
  /\ MayCall(s)
  /\ Goes(s, "user", "close")
  /\ ofile[s][fd] # NoFile
  /\ todo' = [todo EXCEPT ![s] = <<ofile[s][fd]>>]
  /\ ofile' = [ofile EXCEPT ![s][fd] = NoFile]
  /\ UNCHANGED <<files, opens, procs, gone, hold>>

\* A mutation of fileclose: the type of the freed file stays.
MutFileclose(s) ==
  /\ state[s] = "run" /\ pc[s] = "close" /\ todo[s] # <<>>
  /\ LET f == Head(todo[s])
     IN  /\ ref[f] >= 1
         /\ ref' = [ref EXCEPT ![f] = @ - 1]
         /\ \/ ref[f] > 1 /\ UNCHANGED <<gone, pc>>
            \/ /\ ref[f] = 1 /\ Goes(s, "close", "release")
               /\ gone' = [gone EXCEPT ![s] = obj[f]]
  /\ todo' = [todo EXCEPT ![s] = Tail(@)]
  /\ UNCHANGED <<obj, opens, procs, ofile, hold>>

\* fileclose under ftable.lock; the caller's panic is ref[f] < 1.
fileclose(s) ==
  /\ state[s] = "run" /\ pc[s] = "close" /\ todo[s] # <<>>
  /\ LET f == Head(todo[s])
     IN  /\ ref[f] >= 1
         /\ ref' = [ref EXCEPT ![f] = @ - 1]
         /\ \/ ref[f] > 1 /\ UNCHANGED <<obj, gone, pc>>
            \/ /\ ref[f] = 1 /\ Goes(s, "close", "release")
               /\ gone' = [gone EXCEPT ![s] = obj[f]]
               /\ obj' = [obj EXCEPT ![f] = NoObj]
  /\ todo' = [todo EXCEPT ![s] = Tail(@)]
  /\ UNCHANGED <<opens, procs, ofile, hold>>

\* pipeclose or iput of the file's object, after ftable.lock has been released
Release(s) ==
  /\ Goes(s, "release", "close")
  /\ Put(gone[s])
  /\ gone' = [gone EXCEPT ![s] = NoObj]
  /\ UNCHANGED <<files, procs, ofile, todo, hold>>

\* Nothing is left to close: an open that failed gives its inode back, and
\* exit goes on to the next descriptor.
Closed(s) ==
  /\ todo[s] = <<>>
  /\ Goes(s, "close", IF s \in exiting THEN "exit" ELSE "user")
  /\ Put(hold[s])
  /\ hold' = [hold EXCEPT ![s] = NoObj]
  /\ UNCHANGED <<files, procs, ofile, todo, gone>>

sys_dup(s, fd) ==
  /\ MayCall(s)
  /\ ofile[s][fd] # NoFile /\ FreeFds(s) # {}
  /\ ref[ofile[s][fd]] >= 1
  /\ ofile' = [ofile EXCEPT ![s][Min(FreeFds(s))] = ofile[s][fd]]
  /\ ref' = [ref EXCEPT ![ofile[s][fd]] = @ + 1]
  /\ UNCHANGED <<obj, opens, procs, pc, todo, gone, hold>>

\* The reference to the new directory is taken before the old one is put.
sys_chdir(s, ip) ==
  /\ MayCall(s)
  /\ opens' = [[opens EXCEPT ![ip] = @ + 1] EXCEPT ![cwd[s]] = @ - 1]
  /\ cwd' = [cwd EXCEPT ![s] = ip]
  /\ UNCHANGED <<files, state, isthread, exiting, threads, ofile, pc, todo, gone, hold>>

-----------------------------------------------------------------------------
\* sys_pipe

PipeFirst(s) ==
  /\ MayCall(s)
  /\ FreeFiles # {} /\ Goes(s, "user", "pipe")
  /\ ref' = [ref EXCEPT ![Min(FreeFiles)] = 1]
  /\ todo' = [todo EXCEPT ![s] = <<Min(FreeFiles)>>]
  /\ UNCHANGED <<obj, opens, procs, ofile, gone, hold>>

\* kalloc may fail; a page is free when both ends of its pipe are closed.
FreePipes == {q \in Pipes : opens[<<q, "r">>] = 0 /\ opens[<<q, "w">>] = 0}

\* pipealloc's label bad: no second file, or no page
PipeBad(s) ==
  /\ Goes(s, "pipe", "close")
  /\ IF FreeFiles = {} THEN UNCHANGED <<ref, todo>>
     ELSE /\ ref' = [ref EXCEPT ![Min(FreeFiles)] = 1]
          /\ todo' = [todo EXCEPT ![s] = Append(@, Min(FreeFiles))]
  /\ UNCHANGED <<obj, opens, procs, ofile, gone, hold>>

\* sys_pipe's clean-up: there are not two descriptors
PipeFull(s, rf, wf) ==
  /\ Cardinality(FreeFds(s)) < 2 /\ Goes(s, "pipe", "close")
  /\ todo' = [todo EXCEPT ![s] = <<rf, wf>>]
  /\ UNCHANGED ofile

PipeDone(s, rf, wf) ==
  /\ Cardinality(FreeFds(s)) >= 2 /\ Goes(s, "pipe", "user")
  /\ LET fd0 == Min(FreeFds(s)) IN
       ofile' = [ofile EXCEPT ![s] = [@ EXCEPT ![fd0] = rf, ![Min(FreeFds(s) \ {fd0})] = wf]]
  /\ todo' = [todo EXCEPT ![s] = <<>>]

PipeSecond(s) ==
  /\ FreeFiles # {}
  /\ \E q \in FreePipes :
       LET rf == todo[s][1]
           wf == Min(FreeFiles)
       IN  /\ PipeFull(s, rf, wf) \/ PipeDone(s, rf, wf)
           /\ ref' = [ref EXCEPT ![wf] = 1]
           /\ obj' = [obj EXCEPT ![rf] = <<q, "r">>, ![wf] = <<q, "w">>]
           /\ opens' = [opens EXCEPT ![<<q, "r">>] = 1, ![<<q, "w">>] = 1]
  /\ UNCHANGED <<procs, gone, hold>>

-----------------------------------------------------------------------------
\* fork, clone, exit, wait

\* fork sets only the descriptors that its parent has open.
fork(s, c) ==
  /\ MayCall(s) /\ state[c] = "unused"
  /\ state' = [state EXCEPT ![c] = "run"]
  /\ isthread' = [isthread EXCEPT ![c] = FALSE]
  /\ ofile' = [ofile EXCEPT ![c] =
                 [fd \in Fds |-> IF ofile[s][fd] # NoFile THEN ofile[s][fd] ELSE @[fd]]]
  /\ \A fd \in Fds : ofile[s][fd] # NoFile => ref[ofile[s][fd]] >= 1
  /\ ref' = [f \in FileIds |-> ref[f] + Cardinality({fd \in Fds : ofile[s][fd] = f})]
  /\ cwd' = [cwd EXCEPT ![c] = cwd[s]] /\ Get(cwd[s])
  /\ UNCHANGED <<obj, exiting, threads, pc, todo, gone, hold>>

\* clone copies the pointers and takes no reference.
clone(s, c) ==
  /\ MayCall(s) /\ state[c] = "unused"
  /\ state' = [state EXCEPT ![c] = "run"]
  /\ isthread' = [isthread EXCEPT ![c] = TRUE]
  /\ ofile' = [ofile EXCEPT ![c] = ofile[s]]
  /\ cwd' = [cwd EXCEPT ![c] = cwd[s]]
  /\ UNCHANGED <<files, opens, exiting, threads, pc, todo, gone, hold>>

exit(s) ==
  /\ s # initproc /\ Goes(s, "user", "exit")
  /\ exiting' = exiting \cup {s}
  /\ UNCHANGED <<files, opens, threads, state, isthread, cwd, ofile, todo, gone, hold>>

\* A mutation of ExitClose: exit closes the files of a thread too.
MutExitClose(s) ==
  LET open == Fds \ FreeFds(s)
  IN  /\ open # {} /\ Goes(s, "exit", "close")
      /\ todo' = [todo EXCEPT ![s] = <<ofile[s][Min(open)]>>]
      /\ ofile' = [ofile EXCEPT ![s][Min(open)] = NoFile]
      /\ UNCHANGED <<files, opens, procs, gone, hold>>

\* The next open descriptor, unless this is a thread
ExitClose(s) ==
  LET open == Fds \ FreeFds(s)
  IN  /\ ~isthread[s] /\ open # {} /\ Goes(s, "exit", "close")
      /\ todo' = [todo EXCEPT ![s] = <<ofile[s][Min(open)]>>]
      /\ ofile' = [ofile EXCEPT ![s][Min(open)] = NoFile]
      /\ UNCHANGED <<files, opens, procs, gone, hold>>

ExitDone(s) ==
  /\ isthread[s] \/ FreeFds(s) = Fds
  /\ Goes(s, "exit", "user")
  /\ Put(IF isthread[s] THEN NoObj ELSE cwd[s])
  /\ cwd' = [cwd EXCEPT ![s] = NoObj]
  /\ state' = [state EXCEPT ![s] = "zombie"] /\ exiting' = exiting \ {s}
  /\ UNCHANGED <<files, threads, isthread, ofile, todo, gone, hold>>

\* The parent, or init, finds the zombie: the slot is free, its ofile as it was.
wait(s) ==
  /\ state[s] = "zombie"
  /\ state' = [state EXCEPT ![s] = "unused"]
  /\ UNCHANGED <<files, opens, isthread, cwd, exiting, threads, ofile, pc, todo, gone, hold>>

-----------------------------------------------------------------------------
Next ==
  \E s \in Slots :
    \/ \E ip \in Inodes : sys_open(s, ip) \/ sys_chdir(s, ip)
    \/ \E fd \in Fds : sys_close(s, fd) \/ sys_dup(s, fd)
    \/ OpenAlloc(s) \/ Install(s) \/ fileclose(s) \/ Release(s) \/ Closed(s)
    \/ PipeFirst(s) \/ PipeBad(s) \/ PipeSecond(s)
    \/ \E c \in Slots : (~threads /\ fork(s, c)) \/ (threads /\ clone(s, c))
    \/ exit(s) \/ ExitClose(s) \/ ExitDone(s) \/ wait(s)

Spec == Init /\ [][Next]_vars

-----------------------------------------------------------------------------
\* Properties

Descriptors(f) == {d \in Slots \X Fds : ~isthread[d[1]] /\ ofile[d[1]][d[2]] = f}
Pending(f) ==
  {d \in Slots \X (1 .. 2) : d[2] \in DOMAIN todo[d[1]] /\ todo[d[1]][d[2]] = f /\ pc[d[1]] # "install"}

\* The count in struct file is the number of descriptors for it in all the
\* processes (threads have none of their own), and of system calls that still have to close it.
RefsCounted ==
  \A f \in FileIds : ref[f] = Cardinality(Descriptors(f)) + Cardinality(Pending(f))

Users(o) == Cardinality({f \in FileIds : obj[f] = o}) + Cardinality({s \in Slots : gone[s] = o})

\* Every file of an inode, working directory and unfinished system call has its
\* own reference to the inode, and a pipe's end is open as long as a file for
\* it is: iput and pipeclose are called once, however open and pipe end.
ObjectsCounted ==
  /\ \A e \in Ends : opens[e] = Users(e)
  /\ \A ip \in Inodes :
       opens[ip] = Users(ip) + Cardinality({s \in Slots : hold[s] = ip})
                     + Cardinality({s \in Slots : ~isthread[s] /\ cwd[s] = ip})

=============================================================================
