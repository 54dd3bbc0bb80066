------------------------------- MODULE Sched -------------------------------
(***************************************************************************)
(* The per-CPU scheduler and how processes enter and leave it: scheduler,  *)
(* sched, yield, sleep, wakeup, forkret and the end of exit (proc.c), the  *)
(* timer interrupt (trap.c), sys_sleep (sysproc.c), and the spinlocks and  *)
(* the nesting of interrupt disabling (spinlock.c) that all of them use.   *)
(*                                                                         *)
(* A CPU executes on the stack of its scheduler or of a process; a stack   *)
(* is named by the CPU or by the process, and keeps its own place in the   *)
(* code, pc, while no CPU is on it.  ptable.lock is taken on one stack and *)
(* released on another: swtch happens with the lock held.                  *)
(*                                                                         *)
(* acquire is two steps, pushcli and the xchg that succeeds; what a CPU    *)
(* does with a lock held and interrupts off is one step up to the next     *)
(* acquire, release or swtch.                                              *)
(***************************************************************************)
EXTENDS Integers

CONSTANTS
  CPUs,       \* the processors
  BootCPU,    \* the one whose timer interrupts count ticks (cpuid() == 0)
  NPROC       \* slots of the process table

Procs == 1 .. NPROC

ASSUME SchedAssumption ==
  /\ NPROC \in Nat
  /\ BootCPU \in CPUs
  /\ CPUs \cap Procs = {}
  /\ 0 \notin CPUs

VARIABLES
  state,     \* state[p]: p->state
  pc,        \* pc[e]: where the code on stack e is
  saved,     \* saved[e]: the place a timer interrupt on stack e returns to
  isv,       \* isv[p]: the local variable intena of p's call of sched
  scan,      \* scan[c]: the scheduler's loop variable p
  ctx,       \* ctx[c]: the stack CPU c is on
  cur,       \* cur[c]: cpus[c].proc, 0 for none
  ncli,      \* ncli[c]: depth of pushcli nesting
  intena,    \* intena[c]: were interrupts enabled before pushcli?
  fl,        \* fl[c]: FL_IF of CPU c
  spin,      \* spin[c]: CPU c is in acquire, past pushcli
  lock       \* lock[l]: the CPU that holds spinlock l, 0 for none

vars == <<state, pc, saved, isv, scan, ctx, cur, ncli, intena, fl, spin, lock>>
cpuVars == <<ncli, intena, fl, spin, lock>>
stackVars == <<saved, isv, scan, ctx, cur>>

Stacks == CPUs \cup Procs
Locks == {"ptable", "tickslock"}

\* The places that acquire a lock: which lock, and where the code is then.
TicksPlaces == {"sys_sleep", "resleep", "tick"}
PtablePlaces == {"scheduler", "yield", "sleep", "exit", "wakeup"}
AcquirePlaces == TicksPlaces \cup PtablePlaces

LockOf(place) == IF place \in TicksPlaces THEN "tickslock" ELSE "ptable"

Then(place) ==
  CASE place = "scheduler" -> "scan"
    [] place = "yield" -> "give_up"
    [] place = "sleep" -> "doze"
    [] place = "exit" -> "zombie"
    [] place = "wakeup" -> "wakeup1"
    [] place = "tick" -> "wakeup"
    [] OTHER -> "ticks_test"

\* The places that release a lock, and the calls of sched.
ReleasesPtable == {"scan", "yielded", "woken", "forkret", "wakeup1"}
ReleasesTicks == {"doze", "sleep_done", "tick_done"}
SchedPlaces == {"sched_yield", "sched_sleep", "sched_exit"}

Place == AcquirePlaces \cup ReleasesPtable \cup ReleasesTicks \cup SchedPlaces \cup
  {"sti", "back", "user", "sys", "ticks_test", "give_up", "zombie", "dead",
   "trapret", "trap_tail", "iret"}

Init ==
  /\ state = [p \in Procs |-> "RUNNABLE"]
  /\ pc = [e \in Stacks |-> IF e \in CPUs THEN "sti" ELSE "forkret"]
  /\ saved = [e \in Stacks |-> "sti"]
  /\ isv = [p \in Procs |-> FALSE]
  /\ scan = [c \in CPUs |-> 1]
  /\ ctx = [c \in CPUs |-> c]
  /\ cur = [c \in CPUs |-> 0]
  /\ ncli = [c \in CPUs |-> 0]
  /\ intena = [c \in CPUs |-> FALSE]
  /\ fl = [c \in CPUs |-> FALSE]
  /\ spin = [c \in CPUs |-> FALSE]
  /\ lock = [l \in Locks |-> 0]

At(c, place) == pc[ctx[c]] = place
GoTo(c, place) == pc' = [pc EXCEPT ![ctx[c]] = place]

-----------------------------------------------------------------------------
\* spinlock.c

\* Only the outermost pushcli records whether interrupts were on.
pushcli(c) ==
  /\ intena' = [intena EXCEPT ![c] = IF ncli[c] = 0 THEN fl[c] ELSE @]
  /\ ncli' = [ncli EXCEPT ![c] = @ + 1]
  /\ fl' = [fl EXCEPT ![c] = FALSE]

\* popcli with the flag ena in intena: the last one turns interrupts on again.
popcli(c, ena) ==
  /\ ncli' = [ncli EXCEPT ![c] = @ - 1]
  /\ fl' = [fl EXCEPT ![c] = @ \/ (ncli[c] = 1 /\ ena)]

Enter(c) ==
  /\ pc[ctx[c]] \in AcquirePlaces /\ ~spin[c]
  /\ pushcli(c)
  /\ spin' = [spin EXCEPT ![c] = TRUE]
  /\ UNCHANGED <<state, pc, lock, stackVars>>

\* The xchg that finds the lock free.
Take(c) ==
  /\ spin[c] /\ lock[LockOf(pc[ctx[c]])] = 0
  /\ lock' = [lock EXCEPT ![LockOf(pc[ctx[c]])] = c]
  /\ spin' = [spin EXCEPT ![c] = FALSE]
  /\ GoTo(c, Then(pc[ctx[c]]))
  /\ UNCHANGED <<state, ncli, intena, fl, stackVars>>

\* release(l) on CPU c, whose intena is ena by then
release(c, l, ena) ==
  /\ lock' = [lock EXCEPT ![l] = 0]
  /\ intena' = [intena EXCEPT ![c] = ena]
  /\ popcli(c, ena)
  /\ UNCHANGED spin

-----------------------------------------------------------------------------
\* scheduler

Sti(c) ==
  /\ At(c, "sti") /\ ~spin[c]
  /\ fl' = [fl EXCEPT ![c] = TRUE]
  /\ GoTo(c, "scheduler")
  /\ UNCHANGED <<state, ncli, intena, spin, lock, stackVars>>

\* From slot scan[c] on, the next process that is RUNNABLE.
Candidates(c) == {p \in scan[c] .. NPROC : state[p] = "RUNNABLE"}
IsNext(c, p) == p \in Candidates(c) /\ \A q \in Candidates(c) : p <= q

MutSwitchToNotRunning(c) ==
  /\ At(c, "scan")
  /\ \E p \in Procs :
       /\ IsNext(c, p)
       /\ cur' = [cur EXCEPT ![c] = p]
       /\ scan' = [scan EXCEPT ![c] = p]
       /\ ctx' = [ctx EXCEPT ![c] = p]
  /\ pc' = [pc EXCEPT ![c] = "back"]
  /\ UNCHANGED <<state, saved, isv, cpuVars>>

SwitchTo(c) ==
  /\ At(c, "scan")
  /\ \E p \in Procs :
       /\ IsNext(c, p)
       /\ cur' = [cur EXCEPT ![c] = p]
       /\ state' = [state EXCEPT ![p] = "RUNNING"]
       /\ scan' = [scan EXCEPT ![c] = p]
       /\ ctx' = [ctx EXCEPT ![c] = p]
  /\ pc' = [pc EXCEPT ![c] = "back"]
  /\ UNCHANGED <<saved, isv, cpuVars>>

MutSwitchedBackRestarts(c) ==
  /\ At(c, "back")
  /\ cur' = [cur EXCEPT ![c] = 0]
  /\ scan' = [scan EXCEPT ![c] = 1]
  /\ GoTo(c, "scan")
  /\ UNCHANGED <<state, saved, isv, ctx, cpuVars>>

\* c->proc = 0, and the scan goes on with the next slot.
SwitchedBack(c) ==
  /\ At(c, "back")
  /\ cur' = [cur EXCEPT ![c] = 0]
  /\ scan' = [scan EXCEPT ![c] = @ + 1]
  /\ GoTo(c, "scan")
  /\ UNCHANGED <<state, saved, isv, ctx, cpuVars>>

ScanEnds(c) ==
  /\ At(c, "scan") /\ Candidates(c) = {}
  /\ release(c, "ptable", intena[c])
  /\ scan' = [scan EXCEPT ![c] = 1]
  /\ GoTo(c, "sti")
  /\ UNCHANGED <<state, saved, isv, ctx, cur>>

-----------------------------------------------------------------------------
\* sched: leave the CPU, and what runs when a scheduler switches back

MutSchedNoSave(c, from, back) ==
  /\ At(c, from)
  /\ GoTo(c, back)
  /\ isv' = [isv EXCEPT ![ctx[c]] = TRUE]
  /\ ctx' = [ctx EXCEPT ![c] = c]
  /\ UNCHANGED <<state, saved, scan, cur, cpuVars>>

sched(c, from, back) ==
  /\ At(c, from)
  /\ GoTo(c, back)
  /\ isv' = [isv EXCEPT ![ctx[c]] = intena[c]]
  /\ ctx' = [ctx EXCEPT ![c] = c]
  /\ UNCHANGED <<state, saved, scan, cur, cpuVars>>

\* mycpu()->intena = intena, then the caller's release of ptable.lock; the
\* local variable is gone.
Resume(c, from, to) ==
  /\ At(c, from)
  /\ release(c, "ptable", isv[ctx[c]])
  /\ GoTo(c, to)
  /\ isv' = [isv EXCEPT ![ctx[c]] = FALSE]
  /\ UNCHANGED <<state, saved, scan, ctx, cur>>

Switch(c) ==
  \/ sched(c, "sched_yield", "yielded")
  \/ sched(c, "sched_sleep", "woken")
  \/ sched(c, "sched_exit", "dead")
  \/ Resume(c, "yielded", "iret")
  \/ Resume(c, "woken", "resleep")

\* The first switch to a process ends in forkret, which has no call of sched
\* to return to, so intena is what the scheduler or the last process left.
ForkRet(c) ==
  /\ At(c, "forkret")
  /\ release(c, "ptable", intena[c])
  /\ GoTo(c, "trapret")
  /\ UNCHANGED <<state, stackVars>>

Trapret(c) ==
  /\ At(c, "trapret")
  /\ fl' = [fl EXCEPT ![c] = TRUE]
  /\ GoTo(c, "user")
  /\ UNCHANGED <<state, ncli, intena, spin, lock, stackVars>>

-----------------------------------------------------------------------------
\* A process: system calls, sys_sleep and exit.  System calls come through a
\* trap gate, which leaves interrupts on.

Jump(c, from, to) ==
  /\ At(c, from)
  /\ GoTo(c, to)
  /\ UNCHANGED <<state, stackVars, cpuVars>>

Call(c) ==
  \/ Jump(c, "user", "sys")
  \/ Jump(c, "sys", "user")
  \/ Jump(c, "sys", "sys_sleep")
  \/ Jump(c, "sys", "exit")

\* while(ticks - ticks0 < n): the number of ticks asked for is any.
TicksTest(c) ==
  \/ Jump(c, "ticks_test", "sleep")
  \/ Jump(c, "ticks_test", "sleep_done")

MutDozeHoldsLk(c) ==
  /\ At(c, "doze")
  /\ state' = [state EXCEPT ![ctx[c]] = "SLEEPING"]
  /\ GoTo(c, "sched_sleep")
  /\ UNCHANGED <<stackVars, cpuVars>>

\* sleep, with ptable.lock held: release tickslock, become SLEEPING.
Doze(c) ==
  /\ At(c, "doze")
  /\ release(c, "tickslock", intena[c])
  /\ state' = [state EXCEPT ![ctx[c]] = "SLEEPING"]
  /\ GoTo(c, "sched_sleep")
  /\ UNCHANGED stackVars

SleepDone(c) ==
  /\ At(c, "sleep_done")
  /\ release(c, "tickslock", intena[c])
  /\ GoTo(c, "sys")
  /\ UNCHANGED <<state, stackVars>>

\* yield and exit, with ptable.lock held, change the state and call sched.
Leave(c, from, newstate, to) ==
  /\ At(c, from)
  /\ state' = [state EXCEPT ![ctx[c]] = newstate]
  /\ GoTo(c, to)
  /\ UNCHANGED <<stackVars, cpuVars>>

GiveUp(c) ==
  \/ Leave(c, "give_up", "RUNNABLE", "sched_yield")
  \/ Leave(c, "zombie", "ZOMBIE", "sched_exit")

-----------------------------------------------------------------------------
\* The timer interrupt comes through an interrupt gate, which turns interrupts
\* off; iret turns them on again.

Timer(c) ==
  /\ fl[c]
  /\ fl' = [fl EXCEPT ![c] = FALSE]
  /\ saved' = [saved EXCEPT ![ctx[c]] = pc[ctx[c]]]
  /\ GoTo(c, IF c = BootCPU THEN "tick" ELSE "trap_tail")
  /\ UNCHANGED <<state, isv, scan, ctx, cur, ncli, intena, spin, lock>>

\* ticks++, and wakeup(&ticks)
Wakeup(c) ==
  /\ At(c, "wakeup1")
  /\ state' = [p \in Procs |-> IF state[p] = "SLEEPING" THEN "RUNNABLE" ELSE state[p]]
  /\ release(c, "ptable", intena[c])
  /\ GoTo(c, "tick_done")
  /\ UNCHANGED stackVars

TickDone(c) ==
  /\ At(c, "tick_done")
  /\ release(c, "tickslock", intena[c])
  /\ GoTo(c, "trap_tail")
  /\ UNCHANGED <<state, stackVars>>

\* yield if there is a process and it is RUNNING
TrapTail(c) ==
  /\ At(c, "trap_tail")
  /\ GoTo(c, IF cur[c] # 0 /\ state[cur[c]] = "RUNNING" THEN "yield" ELSE "iret")
  /\ UNCHANGED <<state, stackVars, cpuVars>>

Iret(c) ==
  /\ At(c, "iret")
  /\ fl' = [fl EXCEPT ![c] = TRUE]
  /\ GoTo(c, saved[ctx[c]])
  /\ saved' = [saved EXCEPT ![ctx[c]] = "sti"]
  /\ UNCHANGED <<state, isv, scan, ctx, cur, ncli, intena, spin, lock>>

-----------------------------------------------------------------------------
Schedule(c) == Sti(c) \/ SwitchTo(c) \/ SwitchedBack(c) \/ ScanEnds(c)
Process(c) == Call(c) \/ TicksTest(c) \/ Doze(c) \/ SleepDone(c) \/ GiveUp(c)
                \/ ForkRet(c) \/ Trapret(c)
Handler(c) == Wakeup(c) \/ TickDone(c) \/ TrapTail(c) \/ Iret(c)

Run(c) == Enter(c) \/ Take(c) \/ Schedule(c) \/ Switch(c) \/ Process(c) \/ Handler(c)

Next == \E c \in CPUs : Run(c) \/ Timer(c)

Spec == Init /\ [][Next]_vars

-----------------------------------------------------------------------------
TypeOK ==
  /\ state \in [Procs -> {"RUNNABLE", "RUNNING", "SLEEPING", "ZOMBIE"}]
  /\ pc \in [Stacks -> Place]
  /\ saved \in [Stacks -> Place]
  /\ isv \in [Procs -> BOOLEAN]
  /\ scan \in [CPUs -> 1 .. NPROC + 1]
  /\ ctx \in [CPUs -> Stacks]
  /\ cur \in [CPUs -> {0} \cup Procs]
  /\ ncli \in [CPUs -> 0 .. 2]
  /\ intena \in [CPUs -> BOOLEAN]
  /\ fl \in [CPUs -> BOOLEAN]
  /\ spin \in [CPUs -> BOOLEAN]
  /\ lock \in [Locks -> {0} \cup CPUs]

\* None of the panics of acquire, release, popcli, sched and exit is reached:
\* no CPU acquires a lock it holds, a lock is released by the CPU that holds
\* it with interrupts off, sched is entered with ptable.lock and only it held
\* and with the state changed, and a process that has exited is never resumed.
NoPanic ==
  \A c \in CPUs :
    LET place == pc[ctx[c]] IN
    /\ place \in AcquirePlaces /\ ~spin[c] => lock[LockOf(place)] # c
    /\ place \in ReleasesPtable => lock["ptable"] = c
    /\ place \in ReleasesTicks => lock["tickslock"] = c
    /\ place \in ReleasesPtable \cup ReleasesTicks => ~fl[c] /\ ncli[c] >= 1
    /\ place \in SchedPlaces =>
         lock["ptable"] = c /\ ncli[c] = 1 /\ ~fl[c] /\ state[ctx[c]] # "RUNNING"
    /\ place # "dead"

\* A kernel stack is used by one CPU at a time, and outside the hand-over that
\* ptable.lock covers, a process is RUNNING exactly when some CPU is on its
\* stack; that CPU's proc field names it.
OneStackOneCPU ==
  /\ \A c, d \in CPUs : ctx[c] = ctx[d] => c = d
  /\ \A p \in Procs : state[p] = "RUNNING" => \E c \in CPUs : ctx[c] = p
  /\ \A c \in CPUs : ctx[c] \in Procs /\ lock["ptable"] # c =>
       state[ctx[c]] = "RUNNING" /\ cur[c] = ctx[c]

\* A process in user space or in a system call outside any lock has interrupts
\* on, also after it was moved to another CPU; in an interrupt handler, and
\* with a lock held, they are off, so interrupts do not nest.
InterruptsMatchPlace ==
  \A c \in CPUs :
    /\ At(c, "user") \/ At(c, "sys") => fl[c]
    /\ At(c, "tick") \/ At(c, "trap_tail") \/ At(c, "yield") \/ At(c, "iret") => ~fl[c]
    /\ (\E l \in Locks : lock[l] = c) => ~fl[c]

-----------------------------------------------------------------------------
\* The inductive invariant behind the three, proved in SchedProofs: what each
\* place implies about locks, interrupts and the process's state.

HoldsPtable == ReleasesPtable \cup SchedPlaces \cup {"back", "doze", "give_up", "zombie"}
HoldsTicks == ReleasesTicks \cup {"ticks_test", "sleep", "wakeup", "wakeup1"}

\* Interrupts are on; in system calls, they were on before the first lock.
IntrOn == {"user", "sys", "scheduler", "sys_sleep", "resleep", "exit"}
WasOn == {"sys_sleep", "resleep", "ticks_test", "sleep", "doze", "sleep_done", "sched_sleep"}
InHandler == {"tick", "wakeup", "wakeup1", "tick_done", "trap_tail", "yield", "give_up",
              "sched_yield", "yielded", "iret"}

SchedulerPlaces == {"sti", "scheduler", "scan", "back", "tick", "wakeup", "wakeup1",
                    "tick_done", "trap_tail", "iret"}
ProcPlaces == Place \ {"sti", "scheduler", "scan", "back", "dead"}

One(b) == IF b THEN 1 ELSE 0

LocksInv(c) ==
  LET place == pc[ctx[c]] IN
  /\ lock["ptable"] = c <=> place \in HoldsPtable
  /\ lock["tickslock"] = c <=> place \in HoldsTicks
  /\ spin[c] => place \in AcquirePlaces
  /\ ncli[c] = One(place \in HoldsPtable) + One(place \in HoldsTicks) + One(spin[c])

IntrInv(c) ==
  LET place == pc[ctx[c]] IN
  /\ fl[c] => ncli[c] = 0 /\ place \notin InHandler
  /\ place \in IntrOn /\ ~spin[c] => fl[c]
  /\ place \in WasOn /\ ncli[c] > 0 => intena[c]
  /\ place \in InHandler /\ place # "yielded" /\ ncli[c] > 0 => ~intena[c]

OnCpuInv(c) ==
  LET place == pc[ctx[c]] IN
  IF ctx[c] = c
    THEN place \in SchedulerPlaces /\ (place # "back" => cur[c] = 0)
    ELSE /\ ctx[c] \in Procs /\ cur[c] = ctx[c] /\ pc[c] = "back"
         /\ place \in ProcPlaces
         /\ state[ctx[c]] = CASE place = "sched_yield" -> "RUNNABLE"
                             [] place = "sched_sleep" -> "SLEEPING"
                             [] place = "sched_exit" -> "ZOMBIE"
                             [] OTHER -> "RUNNING"

OffCpuInv(p) ==
  (\A c \in CPUs : ctx[c] # p) =>
    \/ pc[p] \in {"forkret", "yielded", "woken"} /\ state[p] = "RUNNABLE"
    \/ pc[p] = "woken" /\ state[p] = "SLEEPING"
    \/ pc[p] = "dead" /\ state[p] = "ZOMBIE"

StackInv(e) ==
  /\ pc[e] \in InHandler =>
       saved[e] \in IF e \in CPUs THEN {"sti", "scheduler"}
                    ELSE {"user", "sys", "sys_sleep", "resleep", "exit", "trapret"}
  /\ e \in CPUs /\ pc[e] = "back" => scan[e] <= NPROC
  /\ e \in Procs /\ pc[e] = "woken" => isv[e]
  /\ e \in Procs /\ pc[e] = "yielded" => ~isv[e]

IInv ==
  /\ TypeOK
  /\ \A c, d \in CPUs : ctx[c] = ctx[d] => c = d
  /\ \A c \in CPUs : LocksInv(c) /\ IntrInv(c) /\ OnCpuInv(c)
  /\ \A p \in Procs : OffCpuInv(p)
  /\ \A e \in Stacks : StackInv(e)
=============================================================================
