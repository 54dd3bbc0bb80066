---------------------------- MODULE SchedProofs ----------------------------
(***************************************************************************)
(* Proofs about Sched, for every number of CPUs and of processes: IInv is  *)
(* an inductive invariant, and it implies TypeOK, NoPanic, OneStackOneCPU  *)
(* and InterruptsMatchPlace.                                               *)
(*                                                                         *)
(* A step of CPU c changes the place of the stack c is on and c's own      *)
(* variables.  The lemma Others is the frame argument all actions share:   *)
(* what IInv says of another CPU d is kept, because d is on another stack. *)
(* Each action has a lemma of its own.                                     *)
(***************************************************************************)
EXTENDS Sched, TLAPS

USE SchedAssumption DEF Stacks, Locks, Place, AcquirePlaces, TicksPlaces, PtablePlaces,
  ReleasesPtable, ReleasesTicks, SchedPlaces, HoldsPtable, HoldsTicks, IntrOn, WasOn,
  InHandler, SchedulerPlaces, ProcPlaces

CpuInv(c) == LocksInv(c) /\ IntrInv(c) /\ OnCpuInv(c)

\* The step changes nothing that CpuInv(d) is about.
Same(d) ==
  /\ ctx'[d] = ctx[d] /\ cur'[d] = cur[d] /\ spin'[d] = spin[d]
  /\ ncli'[d] = ncli[d] /\ fl'[d] = fl[d] /\ intena'[d] = intena[d]
  /\ pc'[ctx[d]] = pc[ctx[d]] /\ pc'[d] = pc[d]
  /\ lock'["ptable"] = d <=> lock["ptable"] = d
  /\ lock'["tickslock"] = d <=> lock["tickslock"] = d
  /\ ctx[d] \in Procs => state'[ctx[d]] = state[ctx[d]]

\* The frame: a CPU whose variables, stack and process are left alone keeps
\* its part of the invariant.
LEMMA Others ==
  ASSUME NEW d \in CPUs, CpuInv(d), Same(d) PROVE CpuInv(d)'
<1>1. LocksInv(d)' BY DEF CpuInv, LocksInv, Same
<1>2. IntrInv(d)' BY DEF CpuInv, IntrInv, Same
<1>3. OnCpuInv(d)' BY DEF CpuInv, OnCpuInv, Same
<1> QED BY <1>1, <1>2, <1>3 DEF CpuInv

\* Enter: pushcli off, the nesting one deeper.
LEMMA StepEnter ==
  ASSUME IInv, NEW c \in CPUs, Enter(c) PROVE IInv'
<1>1. TypeOK'
  BY DEF IInv, TypeOK, LocksInv, One, Enter, pushcli, stackVars
<1>2. LocksInv(c)'
  BY DEF IInv, TypeOK, LocksInv, One, Enter, pushcli, stackVars
<1>3. IntrInv(c)'
  BY DEF IInv, TypeOK, LocksInv, One, IntrInv, Enter, pushcli, stackVars
<1>4. OnCpuInv(c)'
  BY DEF IInv, OnCpuInv, Enter, pushcli, stackVars
<1>5. ASSUME NEW d \in CPUs, d # c PROVE CpuInv(d)'
  <2>1. Same(d)
    BY <1>5 DEF IInv, TypeOK, Same, Enter, pushcli, stackVars
  <2> QED BY <2>1, Others DEF IInv, CpuInv
<1>6. (\A a, d \in CPUs : ctx[a] = ctx[d] => a = d)'
  BY DEF IInv, Enter, pushcli, stackVars
<1>7. (\A p \in Procs : OffCpuInv(p))'
  BY DEF IInv, OffCpuInv, Enter, pushcli, stackVars
<1>8. (\A e \in Stacks : StackInv(e))'
  BY DEF IInv, StackInv, Enter, pushcli, stackVars
<1> QED BY <1>1, <1>2, <1>3, <1>4, <1>5, <1>6, <1>7, <1>8 DEF IInv, CpuInv

\* Take: the lock found free is taken.
LEMMA StepTake ==
  ASSUME IInv, NEW c \in CPUs, Take(c) PROVE IInv'
<1>1. TypeOK'
  BY DEF IInv, TypeOK, Take, GoTo, LockOf, Then, stackVars
<1>2. LocksInv(c)'
  BY DEF IInv, TypeOK, LocksInv, One, Take, GoTo, LockOf, Then, stackVars
<1>3. IntrInv(c)'
  BY DEF IInv, TypeOK, LocksInv, One, IntrInv, Take, GoTo, LockOf, Then, stackVars
<1>4. OnCpuInv(c)'
  <2>1. pc'[ctx[c]] = Then(pc[ctx[c]]) /\ pc[ctx[c]] \in AcquirePlaces
    BY DEF IInv, TypeOK, LocksInv, Take, GoTo
  <2> QED BY <2>1 DEF IInv, TypeOK, OnCpuInv, Take, GoTo, Then, stackVars
<1>5. ASSUME NEW d \in CPUs, d # c PROVE CpuInv(d)'
  <2>1. Same(d)
    BY <1>5 DEF IInv, TypeOK, OnCpuInv, Same, Take, GoTo, LockOf, Then, stackVars
  <2> QED BY <2>1, Others DEF IInv, CpuInv
<1>6. (\A a, d \in CPUs : ctx[a] = ctx[d] => a = d)'
  BY DEF IInv, Take, GoTo, LockOf, Then, stackVars
<1>7. (\A p \in Procs : OffCpuInv(p))'
  BY DEF IInv, OffCpuInv, Take, GoTo, LockOf, Then, stackVars
<1>8. (\A e \in Stacks : StackInv(e))'
  BY DEF IInv, StackInv, Take, GoTo, LockOf, Then, stackVars
<1> QED BY <1>1, <1>2, <1>3, <1>4, <1>5, <1>6, <1>7, <1>8 DEF IInv, CpuInv

\* Sti: interrupts on at the top of the loop.
LEMMA StepSti ==
  ASSUME IInv, NEW c \in CPUs, Sti(c) PROVE IInv'
<1>1. TypeOK'
  BY DEF IInv, TypeOK, Sti, At, GoTo, stackVars
<1>2. LocksInv(c)'
  BY DEF IInv, LocksInv, Sti, At, GoTo, stackVars
<1>3. IntrInv(c)'
  BY SMTT(30) DEF IInv, TypeOK, LocksInv, One, IntrInv, Sti, At, GoTo, stackVars
<1>4. OnCpuInv(c)'
  BY DEF IInv, OnCpuInv, Sti, At, GoTo, stackVars
<1>5. ASSUME NEW d \in CPUs, d # c PROVE CpuInv(d)'
  <2>1. Same(d)
    BY <1>5 DEF IInv, TypeOK, OnCpuInv, Same, Sti, At, GoTo, stackVars
  <2> QED BY <2>1, Others DEF IInv, CpuInv
<1>6. (\A a, d \in CPUs : ctx[a] = ctx[d] => a = d)'
  BY DEF IInv, Sti, At, GoTo, stackVars
<1>7. (\A p \in Procs : OffCpuInv(p))'
  BY DEF IInv, OffCpuInv, Sti, At, GoTo, stackVars
<1>8. (\A e \in Stacks : StackInv(e))'
  BY DEF IInv, StackInv, Sti, At, GoTo, stackVars
<1> QED BY <1>1, <1>2, <1>3, <1>4, <1>5, <1>6, <1>7, <1>8 DEF IInv, CpuInv

\* SwitchTo: the scheduler goes over to a RUNNABLE process, which no CPU is on.
LEMMA StepSwitchTo ==
  ASSUME IInv, NEW c \in CPUs, SwitchTo(c) PROVE IInv'
<1> PICK p \in Procs : IsNext(c, p) /\ cur' = [cur EXCEPT ![c] = p]
         /\ state' = [state EXCEPT ![p] = "RUNNING"] /\ scan' = [scan EXCEPT ![c] = p]
         /\ ctx' = [ctx EXCEPT ![c] = p]
  BY Zenon DEF SwitchTo
<1>a. /\ ctx[c] = c /\ pc[c] = "scan" /\ state[p] = "RUNNABLE" /\ lock["ptable"] = c
      /\ pc' = [pc EXCEPT ![c] = "back"] /\ UNCHANGED <<saved, isv, cpuVars>>
  BY DEF SwitchTo, IsNext, Candidates, At, IInv, TypeOK, OnCpuInv, LocksInv
<1>b. \A d \in CPUs : ctx[d] # p
  BY <1>a DEF IInv, TypeOK, OnCpuInv, LocksInv
<1>c. pc[p] \in {"forkret", "yielded", "woken"}
  BY <1>a, <1>b DEF IInv, OffCpuInv
<1>1. TypeOK'
  <2>1. p \in 1 .. NPROC + 1 BY DEF Procs
  <2> QED BY <1>a, <2>1 DEF IInv, TypeOK, cpuVars
<1>2. LocksInv(c)'
  BY <1>a, <1>c, SMTT(30) DEF IInv, TypeOK, LocksInv, One, cpuVars
<1>3. IntrInv(c)'
  BY <1>a, <1>c DEF IInv, TypeOK, LocksInv, IntrInv, One, cpuVars
<1>4. OnCpuInv(c)'
  BY <1>a, <1>c DEF IInv, TypeOK, OnCpuInv, cpuVars
<1>5. ASSUME NEW d \in CPUs, d # c PROVE CpuInv(d)'
  <2>1. Same(d)
    BY <1>a, <1>b, <1>5 DEF IInv, TypeOK, OnCpuInv, Same, cpuVars
  <2> QED BY <2>1, Others DEF IInv, CpuInv
<1>6. (\A a, d \in CPUs : ctx[a] = ctx[d] => a = d)'
  BY <1>a, <1>b DEF IInv, TypeOK
<1>7. (\A q \in Procs : OffCpuInv(q))'
  BY <1>a, <1>b DEF IInv, TypeOK, OnCpuInv, OffCpuInv
<1>8. (\A e \in Stacks : StackInv(e))'
  <2>1. p <= NPROC BY DEF Procs
  <2> QED BY <1>a, <2>1 DEF IInv, TypeOK, StackInv, cpuVars
<1> QED BY <1>1, <1>2, <1>3, <1>4, <1>5, <1>6, <1>7, <1>8 DEF IInv, CpuInv

\* SwitchedBack: the scheduler is back on its own stack.
LEMMA StepSwitchedBack ==
  ASSUME IInv, NEW c \in CPUs, SwitchedBack(c) PROVE IInv'
<1>1. TypeOK'
  BY DEF IInv, TypeOK, StackInv, OnCpuInv, SwitchedBack, At, GoTo, cpuVars
<1>2. LocksInv(c)'
  BY DEF IInv, LocksInv, SwitchedBack, At, GoTo, cpuVars
<1>3. IntrInv(c)'
  BY DEF IInv, IntrInv, SwitchedBack, At, GoTo, cpuVars
<1>4. OnCpuInv(c)'
  BY DEF IInv, TypeOK, OnCpuInv, SwitchedBack, At, GoTo, cpuVars
<1>5. ASSUME NEW d \in CPUs, d # c PROVE CpuInv(d)'
  <2>1. Same(d)
    BY <1>5 DEF IInv, TypeOK, OnCpuInv, Same, SwitchedBack, At, GoTo, cpuVars
  <2> QED BY <2>1, Others DEF IInv, CpuInv
<1>6. (\A a, d \in CPUs : ctx[a] = ctx[d] => a = d)'
  BY DEF IInv, SwitchedBack, At, GoTo, cpuVars
<1>7. (\A p \in Procs : OffCpuInv(p))'
  BY DEF IInv, OffCpuInv, SwitchedBack, At, GoTo, cpuVars
<1>8. (\A e \in Stacks : StackInv(e))'
  BY DEF IInv, TypeOK, OnCpuInv, StackInv, SwitchedBack, At, GoTo, cpuVars
<1> QED BY <1>1, <1>2, <1>3, <1>4, <1>5, <1>6, <1>7, <1>8 DEF IInv, CpuInv

\* ScanEnds: the scheduler releases ptable.lock.
LEMMA StepScanEnds ==
  ASSUME IInv, NEW c \in CPUs, ScanEnds(c) PROVE IInv'
<1>a. /\ pc[ctx[c]] = "scan" /\ lock["ptable"] = c /\ lock["tickslock"] # c
      /\ ncli[c] = 1 /\ ~spin[c] /\ ~fl[c]
  BY DEF IInv, TypeOK, LocksInv, One, IntrInv, ScanEnds, At
<1>b. /\ ctx' = ctx /\ pc'[ctx[c]] = "sti" /\ lock'["ptable"] = 0
      /\ lock'["tickslock"] = lock["tickslock"] /\ ncli'[c] = 0 /\ ~spin'[c]
      /\ intena'[c] = intena[c] /\ fl'[c] = intena[c]
  BY <1>a DEF IInv, TypeOK, ScanEnds, GoTo, release, popcli
<1>1. TypeOK'
  BY <1>a DEF IInv, TypeOK, ScanEnds, GoTo, release, popcli
<1>2. LocksInv(c)'
  BY <1>a, <1>b DEF LocksInv, One
<1>3. IntrInv(c)'
  BY <1>a, <1>b DEF IntrInv
<1>4. OnCpuInv(c)'
  BY DEF IInv, OnCpuInv, ScanEnds, At, GoTo, release, popcli
<1>5. ASSUME NEW d \in CPUs, d # c PROVE CpuInv(d)'
  <2>1. Same(d)
    BY <1>5 DEF IInv, TypeOK, LocksInv, OnCpuInv, Same, ScanEnds, At, GoTo, release,
      popcli
  <2> QED BY <2>1, Others DEF IInv, CpuInv
<1>6. (\A a, d \in CPUs : ctx[a] = ctx[d] => a = d)'
  BY DEF IInv, ScanEnds, At, GoTo, release, popcli
<1>7. (\A p \in Procs : OffCpuInv(p))'
  BY DEF IInv, OffCpuInv, ScanEnds, At, GoTo, release, popcli
<1>8. (\A e \in Stacks : StackInv(e))'
  BY DEF IInv, TypeOK, StackInv, ScanEnds, At, GoTo, release, popcli
<1> QED BY <1>1, <1>2, <1>3, <1>4, <1>5, <1>6, <1>7, <1>8 DEF IInv, CpuInv

\* Switch: sched leaves the process's stack, or returns on it.
LEMMA StepSwitch ==
  ASSUME IInv, NEW c \in CPUs, Switch(c) PROVE IInv'
<1>1. TypeOK'
  <2>1. ASSUME NEW from \in SchedPlaces, NEW back \in {"yielded", "woken", "dead"},
               sched(c, from, back)
        PROVE  TypeOK'
    BY <2>1, Zenon DEF IInv, TypeOK, sched, GoTo, cpuVars
  <2>2. ASSUME NEW from \in {"yielded", "woken"}, NEW to \in {"iret", "resleep"},
               Resume(c, from, to)
        PROVE  TypeOK'
    <3>1. ctx[c] \in Procs /\ ncli[c] = 1
      BY <2>2, SMTT(30) DEF IInv, TypeOK, LocksInv, One, OnCpuInv, Resume, At
    <3> QED BY <2>2, <3>1 DEF IInv, TypeOK, Resume, GoTo, release, popcli
  <2> QED BY <2>1, <2>2 DEF Switch
<1>2. LocksInv(c)'
  BY SMTT(30) DEF IInv, TypeOK, LocksInv, One, OffCpuInv, OnCpuInv, Switch, sched, Resume, At,
    GoTo, release, popcli, cpuVars
<1>3. IntrInv(c)'
  BY DEF IInv, TypeOK, LocksInv, One, IntrInv, StackInv, OnCpuInv, Switch, sched,
    Resume, At, GoTo, release, popcli, cpuVars
<1>4. OnCpuInv(c)'
  BY DEF IInv, TypeOK, OnCpuInv, Switch, sched, Resume, At, GoTo, release, popcli,
    cpuVars
<1>5. ASSUME NEW d \in CPUs, d # c PROVE CpuInv(d)'
  <2>1. ctx[d] # ctx[c] /\ ctx[c] # d /\ ctx[c] # c /\ lock["ptable"] = c
    BY <1>5, SMTT(30) DEF IInv, TypeOK, LocksInv, OnCpuInv, Switch, sched, Resume, At
  <2>2. Same(d)
    BY <1>5, <2>1 DEF IInv, TypeOK, Same, Switch, sched, Resume, GoTo, release,
      popcli, cpuVars
  <2> QED BY <2>2, Others DEF IInv, CpuInv
<1>6. (\A a, d \in CPUs : ctx[a] = ctx[d] => a = d)'
  BY DEF IInv, TypeOK, OnCpuInv, Switch, sched, Resume, At, GoTo, release, popcli,
    cpuVars
<1>7. (\A p \in Procs : OffCpuInv(p))'
  BY DEF IInv, TypeOK, OnCpuInv, OffCpuInv, Switch, sched, Resume, At, GoTo, release,
    popcli, cpuVars
<1>8. (\A e \in Stacks : StackInv(e))'
  <2>1. CASE sched(c, "sched_yield", "yielded")
    BY <2>1 DEF IInv, TypeOK, LocksInv, One, IntrInv, OnCpuInv, StackInv, sched, At,
      GoTo
  <2>2. CASE sched(c, "sched_sleep", "woken")
    BY <2>2 DEF IInv, TypeOK, LocksInv, One, IntrInv, OnCpuInv, StackInv, sched, At,
      GoTo
  <2>3. CASE sched(c, "sched_exit", "dead")
    BY <2>3 DEF IInv, TypeOK, OnCpuInv, StackInv, sched, At, GoTo
  <2>4. CASE Resume(c, "yielded", "iret")
    BY <2>4 DEF IInv, TypeOK, StackInv, Resume, At, GoTo
  <2>5. CASE Resume(c, "woken", "resleep")
    BY <2>5 DEF IInv, TypeOK, StackInv, Resume, At, GoTo
  <2> QED BY <2>1, <2>2, <2>3, <2>4, <2>5 DEF Switch
<1> QED BY <1>1, <1>2, <1>3, <1>4, <1>5, <1>6, <1>7, <1>8 DEF IInv, CpuInv

\* ForkRet: a new process releases the scheduler's lock.
LEMMA StepForkRet ==
  ASSUME IInv, NEW c \in CPUs, ForkRet(c) PROVE IInv'
<1>a. /\ pc[ctx[c]] = "forkret" /\ lock["ptable"] = c /\ lock["tickslock"] # c
      /\ ncli[c] = 1 /\ ~spin[c] /\ ~fl[c]
  BY DEF IInv, TypeOK, LocksInv, One, IntrInv, ForkRet, At
<1>b. /\ ctx' = ctx /\ pc'[ctx[c]] = "trapret" /\ lock'["ptable"] = 0
      /\ lock'["tickslock"] = lock["tickslock"] /\ ncli'[c] = 0 /\ ~spin'[c]
      /\ intena'[c] = intena[c] /\ fl'[c] = intena[c]
  BY <1>a DEF IInv, TypeOK, ForkRet, GoTo, release, popcli, stackVars
<1>1. TypeOK'
  BY <1>a DEF IInv, TypeOK, ForkRet, GoTo, release, popcli, stackVars
<1>2. LocksInv(c)'
  BY <1>a, <1>b DEF LocksInv, One
<1>3. IntrInv(c)'
  BY <1>a, <1>b DEF IntrInv
<1>4. OnCpuInv(c)'
  BY DEF IInv, OnCpuInv, ForkRet, At, GoTo, release, popcli, stackVars
<1>5. ASSUME NEW d \in CPUs, d # c PROVE CpuInv(d)'
  <2>1. Same(d)
    BY <1>5 DEF IInv, TypeOK, LocksInv, OnCpuInv, Same, ForkRet, At, GoTo, release,
      popcli, stackVars
  <2> QED BY <2>1, Others DEF IInv, CpuInv
<1>6. (\A a, d \in CPUs : ctx[a] = ctx[d] => a = d)'
  BY DEF IInv, ForkRet, At, GoTo, release, popcli, stackVars
<1>7. (\A p \in Procs : OffCpuInv(p))'
  BY DEF IInv, OffCpuInv, ForkRet, At, GoTo, release, popcli, stackVars
<1>8. (\A e \in Stacks : StackInv(e))'
  BY DEF IInv, StackInv, ForkRet, At, GoTo, release, popcli, stackVars
<1> QED BY <1>1, <1>2, <1>3, <1>4, <1>5, <1>6, <1>7, <1>8 DEF IInv, CpuInv

\* Trapret: a new process enters user space.
LEMMA StepTrapret ==
  ASSUME IInv, NEW c \in CPUs, Trapret(c) PROVE IInv'
<1>1. TypeOK'
  BY DEF IInv, TypeOK, Trapret, At, GoTo, stackVars
<1>2. LocksInv(c)'
  BY DEF IInv, LocksInv, Trapret, At, GoTo, stackVars
<1>3. IntrInv(c)'
  <2>1. ncli[c] = 0 /\ ~spin[c]
    BY SMTT(30) DEF IInv, TypeOK, LocksInv, One, Trapret, At
  <2> QED BY <2>1 DEF IInv, TypeOK, IntrInv, Trapret, GoTo, stackVars
<1>4. OnCpuInv(c)'
  BY DEF IInv, OnCpuInv, Trapret, At, GoTo, stackVars
<1>5. ASSUME NEW d \in CPUs, d # c PROVE CpuInv(d)'
  <2>1. Same(d)
    BY <1>5 DEF IInv, TypeOK, OnCpuInv, Same, Trapret, At, GoTo, stackVars
  <2> QED BY <2>1, Others DEF IInv, CpuInv
<1>6. (\A a, d \in CPUs : ctx[a] = ctx[d] => a = d)'
  BY DEF IInv, Trapret, At, GoTo, stackVars
<1>7. (\A p \in Procs : OffCpuInv(p))'
  BY DEF IInv, OffCpuInv, Trapret, At, GoTo, stackVars
<1>8. (\A e \in Stacks : StackInv(e))'
  BY DEF IInv, StackInv, Trapret, At, GoTo, stackVars
<1> QED BY <1>1, <1>2, <1>3, <1>4, <1>5, <1>6, <1>7, <1>8 DEF IInv, CpuInv

\* Call: a system call is entered, left, or goes on to sleep or exit.
LEMMA StepCall ==
  ASSUME IInv, NEW c \in CPUs, Call(c) PROVE IInv'
<1>1. TypeOK'
  BY DEF IInv, TypeOK, Call, Jump, At, GoTo, stackVars, cpuVars
<1>2. LocksInv(c)'
  BY DEF IInv, TypeOK, LocksInv, One, Call, Jump, At, GoTo, stackVars, cpuVars
<1>3. IntrInv(c)'
  BY DEF IInv, TypeOK, LocksInv, One, IntrInv, Call, Jump, At, GoTo, stackVars, cpuVars
<1>4. OnCpuInv(c)'
  BY SMTT(30) DEF IInv, TypeOK, OnCpuInv, Call, Jump, At, GoTo, stackVars, cpuVars
<1>5. ASSUME NEW d \in CPUs, d # c PROVE CpuInv(d)'
  <2>1. Same(d)
    BY <1>5 DEF IInv, TypeOK, OnCpuInv, Same, Call, Jump, At, GoTo, stackVars, cpuVars
  <2> QED BY <2>1, Others DEF IInv, CpuInv
<1>6. (\A a, d \in CPUs : ctx[a] = ctx[d] => a = d)'
  BY DEF IInv, Call, Jump, At, GoTo, stackVars, cpuVars
<1>7. (\A p \in Procs : OffCpuInv(p))'
  BY DEF IInv, TypeOK, OffCpuInv, Call, Jump, At, GoTo, stackVars, cpuVars
<1>8. (\A e \in Stacks : StackInv(e))'
  BY DEF IInv, TypeOK, StackInv, Call, Jump, At, GoTo, stackVars, cpuVars
<1> QED BY <1>1, <1>2, <1>3, <1>4, <1>5, <1>6, <1>7, <1>8 DEF IInv, CpuInv

\* TicksTest: the loop test of sys_sleep.
LEMMA StepTicksTest ==
  ASSUME IInv, NEW c \in CPUs, TicksTest(c) PROVE IInv'
<1>1. TypeOK'
  <2>1. CASE Jump(c, "ticks_test", "sleep")
    BY <2>1 DEF IInv, TypeOK, Jump, GoTo, stackVars, cpuVars
  <2>2. CASE Jump(c, "ticks_test", "sleep_done")
    BY <2>2 DEF IInv, TypeOK, Jump, GoTo, stackVars, cpuVars
  <2> QED BY <2>1, <2>2 DEF TicksTest
<1>2. LocksInv(c)'
  <2>1. pc[ctx[c]] = "ticks_test" /\ pc'[ctx'[c]] \in {"sleep", "sleep_done"}
    BY DEF IInv, TypeOK, TicksTest, Jump, At, GoTo, stackVars
  <2> QED BY <2>1 DEF IInv, LocksInv, One, TicksTest, Jump, cpuVars
<1>3. IntrInv(c)'
  BY DEF IInv, TypeOK, LocksInv, One, IntrInv, TicksTest, Jump, At, GoTo, stackVars,
    cpuVars
<1>4. OnCpuInv(c)'
  BY SMTT(30) DEF IInv, TypeOK, OnCpuInv, TicksTest, Jump, At, GoTo, stackVars, cpuVars
<1>5. ASSUME NEW d \in CPUs, d # c PROVE CpuInv(d)'
  <2>1. Same(d)
    BY <1>5 DEF IInv, TypeOK, OnCpuInv, Same, TicksTest, Jump, At, GoTo, stackVars,
      cpuVars
  <2> QED BY <2>1, Others DEF IInv, CpuInv
<1>6. (\A a, d \in CPUs : ctx[a] = ctx[d] => a = d)'
  BY DEF IInv, TicksTest, Jump, At, GoTo, stackVars, cpuVars
<1>7. (\A p \in Procs : OffCpuInv(p))'
  BY DEF IInv, TypeOK, OffCpuInv, TicksTest, Jump, At, GoTo, stackVars, cpuVars
<1>8. (\A e \in Stacks : StackInv(e))'
  <2>1. PICK to \in {"sleep", "sleep_done"} : Jump(c, "ticks_test", to)
    BY DEF TicksTest
  <2> QED BY <2>1 DEF IInv, TypeOK, StackInv, Jump, GoTo, stackVars
<1> QED BY <1>1, <1>2, <1>3, <1>4, <1>5, <1>6, <1>7, <1>8 DEF IInv, CpuInv

\* Doze: sleep releases tickslock with ptable.lock held.
LEMMA StepDoze ==
  ASSUME IInv, NEW c \in CPUs, Doze(c) PROVE IInv'
<1>a. /\ pc[ctx[c]] = "doze" /\ lock["tickslock"] = c /\ lock["ptable"] = c
      /\ ncli[c] = 2 /\ ~spin[c] /\ ~fl[c] /\ intena[c] /\ ctx[c] \in Procs
  BY DEF IInv, TypeOK, LocksInv, One, IntrInv, OnCpuInv, Doze, At
<1>b. /\ ctx' = ctx /\ pc'[ctx[c]] = "sched_sleep" /\ lock'["tickslock"] = 0
      /\ lock'["ptable"] = lock["ptable"] /\ ncli'[c] = 1 /\ ~spin'[c]
      /\ intena'[c] = intena[c] /\ fl'[c] = FALSE
  BY <1>a DEF IInv, TypeOK, Doze, GoTo, release, popcli, stackVars
<1>1. TypeOK'
  BY <1>a DEF IInv, TypeOK, Doze, GoTo, release, popcli, stackVars
<1>2. LocksInv(c)'
  BY <1>a, <1>b DEF LocksInv, One
<1>3. IntrInv(c)'
  BY <1>a, <1>b DEF IntrInv
<1>4. OnCpuInv(c)'
  BY SMTT(30) DEF IInv, TypeOK, OnCpuInv, Doze, At, GoTo, release, popcli, stackVars
<1>5. ASSUME NEW d \in CPUs, d # c PROVE CpuInv(d)'
  <2>1. Same(d)
    BY <1>5 DEF IInv, TypeOK, LocksInv, OnCpuInv, Same, Doze, At, GoTo, release,
      popcli, stackVars
  <2> QED BY <2>1, Others DEF IInv, CpuInv
<1>6. (\A a, d \in CPUs : ctx[a] = ctx[d] => a = d)'
  BY DEF IInv, Doze, At, GoTo, release, popcli, stackVars
<1>7. (\A p \in Procs : OffCpuInv(p))'
  BY DEF IInv, OffCpuInv, Doze, At, GoTo, release, popcli, stackVars
<1>8. (\A e \in Stacks : StackInv(e))'
  BY DEF IInv, StackInv, Doze, At, GoTo, release, popcli, stackVars
<1> QED BY <1>1, <1>2, <1>3, <1>4, <1>5, <1>6, <1>7, <1>8 DEF IInv, CpuInv

\* SleepDone: sys_sleep returns.
LEMMA StepSleepDone ==
  ASSUME IInv, NEW c \in CPUs, SleepDone(c) PROVE IInv'
<1>a. /\ pc[ctx[c]] = "sleep_done" /\ lock["tickslock"] = c /\ lock["ptable"] # c
      /\ ncli[c] = 1 /\ ~spin[c] /\ ~fl[c] /\ intena[c]
  BY DEF IInv, TypeOK, LocksInv, One, IntrInv, SleepDone, At
<1>b. /\ ctx' = ctx /\ pc'[ctx[c]] = "sys" /\ lock'["tickslock"] = 0
      /\ lock'["ptable"] = lock["ptable"] /\ ncli'[c] = 0 /\ ~spin'[c]
      /\ intena'[c] = intena[c] /\ fl'[c] = TRUE
  BY <1>a DEF IInv, TypeOK, SleepDone, GoTo, release, popcli, stackVars
<1>1. TypeOK'
  BY <1>a DEF IInv, TypeOK, SleepDone, GoTo, release, popcli, stackVars
<1>2. LocksInv(c)'
  BY <1>a, <1>b DEF LocksInv, One
<1>3. IntrInv(c)'
  BY <1>a, <1>b DEF IntrInv
<1>4. OnCpuInv(c)'
  BY DEF IInv, OnCpuInv, SleepDone, At, GoTo, release, popcli, stackVars
<1>5. ASSUME NEW d \in CPUs, d # c PROVE CpuInv(d)'
  <2>1. Same(d)
    BY <1>5 DEF IInv, TypeOK, LocksInv, OnCpuInv, Same, SleepDone, At, GoTo, release,
      popcli, stackVars
  <2> QED BY <2>1, Others DEF IInv, CpuInv
<1>6. (\A a, d \in CPUs : ctx[a] = ctx[d] => a = d)'
  BY DEF IInv, SleepDone, At, GoTo, release, popcli, stackVars
<1>7. (\A p \in Procs : OffCpuInv(p))'
  BY DEF IInv, OffCpuInv, SleepDone, At, GoTo, release, popcli, stackVars
<1>8. (\A e \in Stacks : StackInv(e))'
  BY DEF IInv, StackInv, SleepDone, At, GoTo, release, popcli, stackVars
<1> QED BY <1>1, <1>2, <1>3, <1>4, <1>5, <1>6, <1>7, <1>8 DEF IInv, CpuInv

\* GiveUp: yield and exit change the state.
LEMMA StepGiveUp ==
  ASSUME IInv, NEW c \in CPUs, GiveUp(c) PROVE IInv'
<1>1. TypeOK'
  <2>1. CASE Leave(c, "give_up", "RUNNABLE", "sched_yield")
    BY <2>1, Zenon DEF IInv, TypeOK, Leave, GoTo, stackVars, cpuVars
  <2>2. CASE Leave(c, "zombie", "ZOMBIE", "sched_exit")
    BY <2>2, Zenon DEF IInv, TypeOK, Leave, GoTo, stackVars, cpuVars
  <2> QED BY <2>1, <2>2 DEF GiveUp
<1>2. LocksInv(c)'
  BY SMTT(30) DEF IInv, TypeOK, LocksInv, One, GiveUp, Leave, At, GoTo, stackVars, cpuVars
<1>3. IntrInv(c)'
  <2>1. ncli[c] = 1 /\ ~fl[c]
    BY DEF IInv, TypeOK, LocksInv, One, IntrInv, GiveUp, Leave, At
  <2> QED BY <2>1 DEF IInv, TypeOK, IntrInv, GiveUp, Leave, At, GoTo, stackVars, cpuVars
<1>4. OnCpuInv(c)'
  BY DEF IInv, TypeOK, OnCpuInv, GiveUp, Leave, At, GoTo, stackVars, cpuVars
<1>5. ASSUME NEW d \in CPUs, d # c PROVE CpuInv(d)'
  <2>1. Same(d)
    BY <1>5 DEF IInv, TypeOK, OnCpuInv, Same, GiveUp, Leave, At, GoTo, stackVars,
      cpuVars
  <2> QED BY <2>1, Others DEF IInv, CpuInv
<1>6. (\A a, d \in CPUs : ctx[a] = ctx[d] => a = d)'
  BY DEF IInv, GiveUp, Leave, At, GoTo, stackVars, cpuVars
<1>7. (\A p \in Procs : OffCpuInv(p))'
  BY DEF IInv, TypeOK, OffCpuInv, GiveUp, Leave, At, GoTo, stackVars, cpuVars
<1>8. (\A e \in Stacks : StackInv(e))'
  BY DEF IInv, TypeOK, StackInv, GiveUp, Leave, At, GoTo, stackVars, cpuVars
<1> QED BY <1>1, <1>2, <1>3, <1>4, <1>5, <1>6, <1>7, <1>8 DEF IInv, CpuInv

\* Timer: the interrupt turns interrupts off.
LEMMA StepTimer ==
  ASSUME IInv, NEW c \in CPUs, Timer(c) PROVE IInv'
<1>a. /\ ncli[c] = 0 /\ ~spin[c] /\ fl[c]
      /\ pc[ctx[c]] \in {"sti", "scheduler", "user", "sys", "sys_sleep", "resleep",
                        "exit", "trapret"}
      /\ ctx[c] = c => pc[c] \in {"sti", "scheduler"}
      /\ ctx[c] # c => pc[ctx[c]] \notin {"sti", "scheduler"}
  BY DEF IInv, TypeOK, LocksInv, One, IntrInv, OnCpuInv, Timer
<1>1. TypeOK'
  BY DEF IInv, TypeOK, Timer, GoTo
<1>2. LocksInv(c)'
  BY DEF IInv, TypeOK, LocksInv, One, OnCpuInv, OffCpuInv, StackInv, IntrInv, Timer,
    GoTo
<1>3. IntrInv(c)'
  <2>1. ~fl'[c] /\ ncli'[c] = 0 /\ pc'[ctx'[c]] \in {"tick", "trap_tail"}
    BY <1>a DEF IInv, TypeOK, Timer, GoTo
  <2> QED BY <2>1 DEF IntrInv
<1>4. OnCpuInv(c)'
  BY <1>a DEF IInv, TypeOK, OnCpuInv, Timer, GoTo
<1>5. ASSUME NEW d \in CPUs, d # c PROVE CpuInv(d)'
  <2>1. Same(d)
    BY <1>5 DEF IInv, TypeOK, OnCpuInv, Same, Timer, GoTo
  <2> QED BY <2>1, Others DEF IInv, CpuInv
<1>6. (\A a, d \in CPUs : ctx[a] = ctx[d] => a = d)'
  BY DEF IInv, Timer, GoTo
<1>7. (\A p \in Procs : OffCpuInv(p))'
  BY DEF IInv, OffCpuInv, Timer, GoTo
<1>8. ASSUME NEW e \in Stacks PROVE StackInv(e)'
  <2>1. CASE e # ctx[c]
    BY <2>1 DEF IInv, TypeOK, StackInv, Timer, GoTo
  <2>2. CASE e = ctx[c]
    <3>1. /\ saved'[e] = pc[e] /\ pc'[e] \in {"tick", "trap_tail"}
          /\ e \in CPUs <=> e = c
      BY <2>2 DEF IInv, TypeOK, OnCpuInv, Timer, GoTo
    <3> QED BY <1>a, <2>2, <3>1 DEF StackInv
  <2> QED BY <2>1, <2>2
<1> QED BY <1>1, <1>2, <1>3, <1>4, <1>5, <1>6, <1>7, <1>8 DEF IInv, CpuInv

\* Wakeup: every SLEEPING process, none of which is on a CPU, becomes RUNNABLE.
LEMMA StepWakeup ==
  ASSUME IInv, NEW c \in CPUs, Wakeup(c) PROVE IInv'
<1>a. /\ pc[ctx[c]] = "wakeup1" /\ lock["ptable"] = c /\ lock["tickslock"] = c
      /\ ncli[c] = 2 /\ ~spin[c] /\ ~fl[c] /\ ~intena[c]
  BY DEF IInv, TypeOK, LocksInv, One, IntrInv, Wakeup, At
<1>b. /\ ctx' = ctx /\ pc'[ctx[c]] = "tick_done" /\ lock'["ptable"] = 0
      /\ lock'["tickslock"] = lock["tickslock"] /\ ncli'[c] = 1 /\ ~spin'[c]
      /\ intena'[c] = intena[c] /\ fl'[c] = FALSE
  BY <1>a DEF IInv, TypeOK, Wakeup, GoTo, release, popcli, stackVars
<1>1. TypeOK'
  BY <1>a DEF IInv, TypeOK, Wakeup, GoTo, release, popcli, stackVars
<1>2. LocksInv(c)'
  BY <1>a, <1>b DEF LocksInv, One
<1>3. IntrInv(c)'
  BY <1>a, <1>b DEF IntrInv
<1>4. OnCpuInv(c)'
  BY DEF IInv, OnCpuInv, Wakeup, At, GoTo, release, popcli, stackVars
<1>5. ASSUME NEW d \in CPUs, d # c PROVE CpuInv(d)'
  <2>1. ctx[d] \in Procs => state[ctx[d]] # "SLEEPING"
    BY <1>a, <1>5 DEF IInv, LocksInv, OnCpuInv
  <2>2. ctx[d] # ctx[c] /\ ctx[c] # d
    BY <1>5 DEF IInv, TypeOK, OnCpuInv
  <2>3. Same(d)
    BY <1>a, <1>5, <2>1, <2>2 DEF IInv, TypeOK, Same, Wakeup, GoTo, release, popcli,
      stackVars
  <2> QED BY <2>3, Others DEF IInv, CpuInv
<1>6. (\A a, d \in CPUs : ctx[a] = ctx[d] => a = d)'
  BY DEF IInv, Wakeup, At, GoTo, release, popcli, stackVars
<1>7. (\A p \in Procs : OffCpuInv(p))'
  BY DEF IInv, OffCpuInv, Wakeup, At, GoTo, release, popcli, stackVars
<1>8. (\A e \in Stacks : StackInv(e))'
  BY DEF IInv, StackInv, Wakeup, At, GoTo, release, popcli, stackVars
<1> QED BY <1>1, <1>2, <1>3, <1>4, <1>5, <1>6, <1>7, <1>8 DEF IInv, CpuInv

\* TickDone: the handler releases tickslock.
LEMMA StepTickDone ==
  ASSUME IInv, NEW c \in CPUs, TickDone(c) PROVE IInv'
<1>a. /\ pc[ctx[c]] = "tick_done" /\ lock["tickslock"] = c /\ lock["ptable"] # c
      /\ ncli[c] = 1 /\ ~spin[c] /\ ~fl[c] /\ ~intena[c]
  BY SMTT(30) DEF IInv, TypeOK, LocksInv, One, IntrInv, TickDone, At
<1>b. /\ ctx' = ctx /\ pc'[ctx[c]] = "trap_tail" /\ lock'["tickslock"] = 0
      /\ lock'["ptable"] = lock["ptable"] /\ ncli'[c] = 0 /\ ~spin'[c]
      /\ intena'[c] = intena[c] /\ fl'[c] = FALSE
  BY <1>a DEF IInv, TypeOK, TickDone, GoTo, release, popcli, stackVars
<1>1. TypeOK'
  BY <1>a DEF IInv, TypeOK, TickDone, GoTo, release, popcli, stackVars
<1>2. LocksInv(c)'
  BY <1>a, <1>b DEF LocksInv, One
<1>3. IntrInv(c)'
  BY <1>a, <1>b DEF IntrInv
<1>4. OnCpuInv(c)'
  BY DEF IInv, OnCpuInv, TickDone, At, GoTo, release, popcli, stackVars
<1>5. ASSUME NEW d \in CPUs, d # c PROVE CpuInv(d)'
  <2>1. Same(d)
    BY <1>5 DEF IInv, TypeOK, LocksInv, OnCpuInv, Same, TickDone, At, GoTo, release,
      popcli, stackVars
  <2> QED BY <2>1, Others DEF IInv, CpuInv
<1>6. (\A a, d \in CPUs : ctx[a] = ctx[d] => a = d)'
  BY DEF IInv, TickDone, At, GoTo, release, popcli, stackVars
<1>7. (\A p \in Procs : OffCpuInv(p))'
  BY DEF IInv, OffCpuInv, TickDone, At, GoTo, release, popcli, stackVars
<1>8. (\A e \in Stacks : StackInv(e))'
  BY DEF IInv, StackInv, TickDone, At, GoTo, release, popcli, stackVars
<1> QED BY <1>1, <1>2, <1>3, <1>4, <1>5, <1>6, <1>7, <1>8 DEF IInv, CpuInv

\* TrapTail: the end of trap decides whether to yield.
LEMMA StepTrapTail ==
  ASSUME IInv, NEW c \in CPUs, TrapTail(c) PROVE IInv'
<1>1. TypeOK'
  BY DEF IInv, TypeOK, TrapTail, At, GoTo, stackVars, cpuVars
<1>2. LocksInv(c)'
  BY DEF IInv, LocksInv, TrapTail, At, GoTo, stackVars, cpuVars
<1>3. IntrInv(c)'
  BY DEF IInv, IntrInv, TrapTail, At, GoTo, stackVars, cpuVars
<1>4. OnCpuInv(c)'
  BY DEF IInv, OnCpuInv, TrapTail, At, GoTo, stackVars, cpuVars
<1>5. ASSUME NEW d \in CPUs, d # c PROVE CpuInv(d)'
  <2>1. Same(d)
    BY <1>5 DEF IInv, TypeOK, OnCpuInv, Same, TrapTail, At, GoTo, stackVars, cpuVars
  <2> QED BY <2>1, Others DEF IInv, CpuInv
<1>6. (\A a, d \in CPUs : ctx[a] = ctx[d] => a = d)'
  BY DEF IInv, TrapTail, At, GoTo, stackVars, cpuVars
<1>7. (\A p \in Procs : OffCpuInv(p))'
  BY DEF IInv, OffCpuInv, TrapTail, At, GoTo, stackVars, cpuVars
<1>8. (\A e \in Stacks : StackInv(e))'
  BY DEF IInv, StackInv, TrapTail, At, GoTo, stackVars, cpuVars
<1> QED BY <1>1, <1>2, <1>3, <1>4, <1>5, <1>6, <1>7, <1>8 DEF IInv, CpuInv

\* Iret: back to the interrupted code.
LEMMA StepIret ==
  ASSUME IInv, NEW c \in CPUs, Iret(c) PROVE IInv'
<1>a. /\ ncli[c] = 0 /\ ~spin[c] /\ lock["ptable"] # c /\ lock["tickslock"] # c
      /\ saved[ctx[c]] \in {"sti", "scheduler", "user", "sys", "sys_sleep", "resleep",
                           "exit", "trapret"}
      /\ ctx[c] = c => saved[c] \in {"sti", "scheduler"}
      /\ ctx[c] # c => saved[ctx[c]] \notin {"sti", "scheduler"}
  <2>1. pc[ctx[c]] = "iret" /\ ctx[c] \in Stacks /\ (ctx[c] # c => ctx[c] \in Procs)
    BY DEF IInv, TypeOK, OnCpuInv, Iret, At
  <2>2. ncli[c] = 0 /\ ~spin[c] /\ lock["ptable"] # c /\ lock["tickslock"] # c
    BY <2>1, SMTT(30) DEF IInv, TypeOK, LocksInv, One
  <2> QED BY <2>1, <2>2 DEF IInv, StackInv
<1>b. pc'[ctx'[c]] = saved[ctx[c]] /\ fl'[c]
  BY DEF IInv, TypeOK, Iret, GoTo
<1>1. TypeOK'
  BY <1>a DEF IInv, TypeOK, Iret, GoTo
<1>2. LocksInv(c)'
  BY <1>a, <1>b DEF LocksInv, One, Iret
<1>3. IntrInv(c)'
  BY <1>a, <1>b DEF IntrInv, Iret
<1>4. OnCpuInv(c)'
  BY DEF IInv, TypeOK, StackInv, OnCpuInv, Iret, At, GoTo
<1>5. ASSUME NEW d \in CPUs, d # c PROVE CpuInv(d)'
  <2>1. Same(d)
    BY <1>5 DEF IInv, TypeOK, OnCpuInv, Same, Iret, At, GoTo
  <2> QED BY <2>1, Others DEF IInv, CpuInv
<1>6. (\A a, d \in CPUs : ctx[a] = ctx[d] => a = d)'
  BY DEF IInv, Iret, At, GoTo
<1>7. (\A p \in Procs : OffCpuInv(p))'
  BY DEF IInv, OffCpuInv, Iret, At, GoTo
<1>8. (\A e \in Stacks : StackInv(e))'
  BY DEF IInv, TypeOK, StackInv, Iret, At, GoTo
<1> QED BY <1>1, <1>2, <1>3, <1>4, <1>5, <1>6, <1>7, <1>8 DEF IInv, CpuInv

\* Every step of every CPU preserves the invariant.
LEMMA StepIInv ==
  IInv /\ [Next]_vars => IInv'
<1> SUFFICES ASSUME IInv, [Next]_vars PROVE IInv'
  OBVIOUS
<1>1. CASE UNCHANGED vars
  <2>1. TypeOK'
    BY <1>1 DEF vars, IInv, TypeOK
  <2>2. (\A c \in CPUs : CpuInv(c))'
    BY <1>1, Others DEF vars, IInv, CpuInv, Same
  <2>3. (\A p \in Procs : OffCpuInv(p))' /\ (\A e \in Stacks : StackInv(e))'
    BY <1>1 DEF vars, IInv, OffCpuInv, StackInv
  <2> QED BY <1>1, <2>1, <2>2, <2>3 DEF vars, IInv, CpuInv
<1>2. ASSUME NEW c \in CPUs, Run(c) PROVE IInv'
  <2>1. CASE Enter(c) \/ Take(c) \/ Switch(c)
    BY <2>1, StepEnter, StepTake, StepSwitch
  <2>2. CASE Schedule(c)
    BY <2>2, StepSti, StepSwitchTo, StepSwitchedBack, StepScanEnds DEF Schedule
  <2>3. CASE Process(c)
    BY <2>3, StepCall, StepTicksTest, StepDoze, StepSleepDone, StepGiveUp, StepForkRet,
       StepTrapret DEF Process
  <2>4. CASE Handler(c)
    BY <2>4, StepWakeup, StepTickDone, StepTrapTail, StepIret DEF Handler
  <2> QED BY <1>2, <2>1, <2>2, <2>3, <2>4 DEF Run
<1>3. ASSUME NEW c \in CPUs, Timer(c) PROVE IInv'
  BY <1>3, StepTimer
<1> QED BY <1>1, <1>2, <1>3 DEF Next

\* The machine starts in it.
LEMMA InitIInv ==
  Init => IInv
<1> SUFFICES ASSUME Init PROVE IInv
  OBVIOUS
<1>1. TypeOK
  BY DEF Init, TypeOK
<1>2. ASSUME NEW c \in CPUs PROVE LocksInv(c) /\ IntrInv(c) /\ OnCpuInv(c)
  <2>1. /\ ctx[c] = c /\ pc[ctx[c]] = "sti" /\ cur[c] = 0 /\ ncli[c] = 0
        /\ ~fl[c] /\ ~spin[c] /\ lock["ptable"] # c /\ lock["tickslock"] # c
    BY <1>2 DEF Init
  <2>2. LocksInv(c)
    BY <2>1 DEF LocksInv, One
  <2>3. IntrInv(c)
    BY <2>1 DEF IntrInv
  <2>4. OnCpuInv(c)
    BY <2>1 DEF OnCpuInv
  <2> QED BY <2>2, <2>3, <2>4
<1>3. \A p \in Procs : OffCpuInv(p)
  BY DEF Init, OffCpuInv
<1>4. \A e \in Stacks : StackInv(e)
  BY DEF Init, StackInv
<1> QED BY <1>1, <1>2, <1>3, <1>4 DEF Init, IInv

\* IInv is an invariant of the scheduler.
LEMMA SpecIInv ==
  Spec => []IInv
BY InitIInv, StepIInv, PTL DEF Spec

-----------------------------------------------------------------------------
\* Type correctness of the scheduler model.
THEOREM SchedTyped ==
  Spec => []TypeOK
<1>1. IInv => TypeOK
  BY DEF IInv
<1> QED BY <1>1, SpecIInv, PTL

\* No panic of acquire, release, popcli, sched and exit is reachable, with any
\* number of CPUs and processes.
THEOREM SchedNeverPanics ==
  Spec => []NoPanic
<1>1. IInv => NoPanic
  <2> SUFFICES ASSUME IInv, NEW c \in CPUs PROVE NoPanic!(c)
    BY DEF NoPanic
  <2> DEFINE place == pc[ctx[c]]
  <2>1. place \in AcquirePlaces /\ ~spin[c] => lock[LockOf(place)] # c
    BY DEF IInv, LocksInv, LockOf
  <2>2. /\ place \in ReleasesPtable => lock["ptable"] = c
        /\ place \in ReleasesTicks => lock["tickslock"] = c
    BY DEF IInv, LocksInv
  <2>3. place \in ReleasesPtable \cup ReleasesTicks => ~fl[c] /\ ncli[c] >= 1
    BY DEF IInv, TypeOK, LocksInv, One, IntrInv
  <2>4. place \in SchedPlaces =>
          lock["ptable"] = c /\ ncli[c] = 1 /\ ~fl[c] /\ state[ctx[c]] # "RUNNING"
    BY SMTT(30) DEF IInv, TypeOK, LocksInv, One, IntrInv, OnCpuInv
  <2>5. place # "dead"
    BY DEF IInv, OnCpuInv
  <2> QED BY <2>1, <2>2, <2>3, <2>4, <2>5
<1> QED BY <1>1, SpecIInv, PTL

\* Two CPUs never run on the same kernel stack.
THEOREM StacksAreExclusive ==
  Spec => []OneStackOneCPU
<1>1. IInv => OneStackOneCPU
  <2> SUFFICES ASSUME IInv PROVE OneStackOneCPU
    OBVIOUS
  <2>1. \A p \in Procs : state[p] = "RUNNING" => \E c \in CPUs : ctx[c] = p
    BY DEF IInv, OffCpuInv
  <2>2. ASSUME NEW c \in CPUs, ctx[c] \in Procs, lock["ptable"] # c
        PROVE  state[ctx[c]] = "RUNNING" /\ cur[c] = ctx[c]
    BY <2>2 DEF IInv, LocksInv, OnCpuInv
  <2> QED BY <2>1, <2>2 DEF IInv, OneStackOneCPU
<1> QED BY <1>1, SpecIInv, PTL

\* Interrupts are on in user space and in system calls, and off in handlers
\* and wherever a spinlock is held.
THEOREM InterruptsAreRight ==
  Spec => []InterruptsMatchPlace
<1>1. IInv => InterruptsMatchPlace
  <2> SUFFICES ASSUME IInv, NEW c \in CPUs PROVE InterruptsMatchPlace!(c)
    BY DEF InterruptsMatchPlace
  <2>1. At(c, "user") \/ At(c, "sys") => fl[c]
    BY DEF IInv, LocksInv, IntrInv, At
  <2>2. At(c, "tick") \/ At(c, "trap_tail") \/ At(c, "yield") \/ At(c, "iret") => ~fl[c]
    BY DEF IInv, IntrInv, At
  <2>3. (\E l \in Locks : lock[l] = c) => ~fl[c]
    BY DEF IInv, TypeOK, LocksInv, One, IntrInv
  <2> QED BY <2>1, <2>2, <2>3
<1> QED BY <1>1, SpecIInv, PTL
=============================================================================
