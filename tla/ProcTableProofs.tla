-------------------------- MODULE ProcTableProofs --------------------------
(***************************************************************************)
(* Proofs about ProcTable, for any number of slots, CPUs and page tables   *)
(* and any workload.                                                       *)
(***************************************************************************)
EXTENDS ProcTable, TLAPS

-----------------------------------------------------------------------------
\* The inductive invariant

Making(p) == at[p] \in {"fork", "fork_made", "clone", "clone_made"}
Made(p) == at[p] \in {"fork_made", "clone_made"}

\* Who is in fork or clone runs and has a slot of its own in np.
Slots ==
  /\ \A p \in Procs :
       Making(p) => state[p] \in {"RUNNABLE", "RUNNING"} /\ np[p] \in Procs /\ state[np[p]] = "EMBRYO"
  /\ \A p, q \in Procs : Making(p) /\ Making(q) /\ np[p] = np[q] => p = q

\* Where a process can be asleep, and where one can have exited.
Sleepers ==
  \A p \in Procs :
    /\ state[p] = "SLEEPING" => at[p] \in {"wait", "sleep"} /\ (at[p] = "wait" => chan[p] = p)
    /\ state[p] = "ZOMBIE" => at[p] = "exit"

\* init stays; a parent is alive and is older than its children.
Family ==
  /\ Alive(initproc) /\ at[initproc] # "exit" /\ parent[initproc] = NoProc /\ ~isthread[initproc]
  /\ \A p \in Procs :
       /\ parent[p] # NoProc => Alive(parent[p]) /\ pid[parent[p]] < pid[p]
       /\ Exists(p) /\ p # initproc => parent[p] # NoProc
       /\ state[p] = "UNUSED" => parent[p] = NoProc
       /\ at[p] \in {"fork", "clone"} => parent[np[p]] = NoProc /\ pid[p] < pid[np[p]]
       /\ Made(p) => parent[np[p]] = p

\* Pids are given out in order and once.
Pids ==
  /\ pid[initproc] = 1
  /\ \A p \in Procs : pid[p] < nextpid /\ (state[p] # "UNUSED" => pid[p] # 0)
  /\ PidsDistinct

\* fork and clone set isthread before they make the process RUNNABLE; without
\* clone there are no threads.
Flags ==
  \A p \in Procs :
    /\ at[p] = "fork_made" => ~isthread[np[p]]
    /\ at[p] = "clone_made" => isthread[np[p]]
    /\ "clone" \notin work.calls => at[p] \notin {"clone", "clone_made"} /\ (Exists(p) => ~isthread[p])

\* Page tables have one owner each.
Tables ==
  ~({"clone", "exec"} \subseteq work.calls) =>
    /\ live = {pgdir[p] : p \in Owners}
    /\ \A p, q \in Owners : pgdir[p] = pgdir[q] => p = q

\* A thread has its parent's page table, and a parent does not exit before it.
Threads ==
  /\ "kill" \notin work.calls => \A p \in Procs : ~killed[p]
  /\ ThreadsAreJoined /\ "clone" \in work.calls =>
       \A p \in Procs :
         /\ at[p] = "exit" => Children(p) = {}
         /\ Exists(p) /\ isthread[p] => pgdir[parent[p]] = pgdir[p]
         /\ at[p] = "clone_made" => pgdir[np[p]] = pgdir[p]

IInv == TypeOK /\ Slots /\ Sleepers /\ Family /\ Pids /\ NoMissedExit /\ Flags /\ Tables /\ Threads

-----------------------------------------------------------------------------
\* What an action does, for the proofs below: the workload is one of Workloads.
LEMMA WorkTyped ==
  ASSUME TypeOK
  PROVE  /\ NPROC \in Nat \ {0} /\ NDIR \in Nat \ {0} /\ initproc \in Procs
         /\ Procs \subseteq Channels /\ NoProc \notin Procs
         /\ work.maxpid \in Nat \ {0} /\ work.slots \in 1 .. NPROC
  BY ProcAssumption DEF TypeOK, initproc, Procs, Channels, NoProc

\* wakeup1 changes SLEEPING to RUNNABLE and nothing else.
LEMMA WakeupTyped ==
  ASSUME NEW s \in [Procs -> States], NEW c
  PROVE  /\ wakeup1(s, c) \in [Procs -> States]
         /\ \A q \in Procs : /\ wakeup1(s, c)[q] # s[q] => s[q] = "SLEEPING" /\ wakeup1(s, c)[q] = "RUNNABLE"
                             /\ chan[q] = c => wakeup1(s, c)[q] # "SLEEPING"
  BY Zenon DEF wakeup1, States

\* The clock wakes sleepers.
LEMMA TickEffect ==
  ASSUME TypeOK, Tick
  PROVE  /\ UNCHANGED <<work, pid, parent, killed, isthread, pgdir, chan, at, np, nextpid, live>>
         /\ \A q \in Procs : state'[q] # state[q] => state[q] = "SLEEPING" /\ state'[q] = "RUNNABLE"
         /\ \A q \in Procs : Exists(q)' <=> Exists(q)
<1>1. \A q \in Procs : state'[q] # state[q] => state[q] = "SLEEPING" /\ state'[q] = "RUNNABLE"
  <2>1. state \in [Procs -> States] /\ state' = wakeup1(state, ticks)
    BY Zenon DEF Tick, TypeOK, ControlTypes
  <2>2. \A q \in Procs : wakeup1(state, ticks)[q] # state[q]
          => state[q] = "SLEEPING" /\ wakeup1(state, ticks)[q] = "RUNNABLE"
    BY <2>1, WakeupTyped, Zenon
  <2> QED
    BY <2>1, <2>2
<1>2. ASSUME NEW q \in Procs PROVE Exists(q)' <=> Exists(q)
  BY <1>1, Zenon DEF Exists, Alive
<1> QED
  BY <1>1, <1>2, Zenon DEF Tick

\* exit: p is a ZOMBIE, its parent does not sleep on, nor does init if it gets
\* a ZOMBIE, and p's children are init's.
LEMMA ExitEffect ==
  ASSUME TypeOK, NEW p \in Procs, Exit(p)
  PROVE  /\ UNCHANGED <<work, pid, killed, isthread, pgdir, chan, at, np, nextpid, live>>
         /\ at[p] = "exit" /\ state[p] = "RUNNING"
         /\ state' \in [Procs -> States] /\ state'[p] = "ZOMBIE"
         /\ parent' \in [Procs -> {NoProc} \cup Procs]
         /\ \A q \in Procs : parent'[q] = IF parent[q] = p THEN initproc ELSE parent[q]
         /\ \A q \in Procs \ {p} :
              /\ state'[q] # state[q] => state[q] = "SLEEPING" /\ state'[q] = "RUNNABLE"
              /\ chan[q] = parent[p] => state'[q] # "SLEEPING"
              /\ chan[q] = initproc /\ Zombies(p) # {} => state'[q] # "SLEEPING"
<1> DEFINE woken == wakeup1(state, parent[p])
           adopted == IF Zombies(p) # {} THEN wakeup1(woken, initproc) ELSE woken
<1>1. state' = [adopted EXCEPT ![p] = "ZOMBIE"]
  BY Zenon DEF Exit, Zombies
<1>2. woken \in [Procs -> States]
      /\ \A q \in Procs : /\ woken[q] # state[q] => state[q] = "SLEEPING" /\ woken[q] = "RUNNABLE"
                          /\ chan[q] = parent[p] => woken[q] # "SLEEPING"
  BY WakeupTyped, Zenon DEF TypeOK, ControlTypes
<1> HIDE DEF woken
<1>3. adopted \in [Procs -> States]
      /\ \A q \in Procs : /\ adopted[q] # woken[q] => woken[q] = "SLEEPING" /\ adopted[q] = "RUNNABLE"
                          /\ chan[q] = initproc /\ Zombies(p) # {} => adopted[q] # "SLEEPING"
  BY <1>2, WakeupTyped
<1> HIDE DEF adopted
<1>4. /\ state' \in [Procs -> States] /\ state'[p] = "ZOMBIE"
      /\ \A q \in Procs \ {p} : state'[q] = adopted[q]
  BY <1>1, <1>3, Zenon DEF States
<1>5. parent' = [q \in Procs |-> IF parent[q] = p THEN initproc ELSE parent[q]]
  BY Zenon DEF Exit
<1>6. /\ parent' \in [Procs -> {NoProc} \cup Procs]
      /\ \A q \in Procs : parent'[q] = IF parent[q] = p THEN initproc ELSE parent[q]
  BY <1>5, WorkTyped, Zenon DEF TypeOK, KinTypes
<1>7. \A q \in Procs \ {p} :
        /\ state'[q] # state[q] => state[q] = "SLEEPING" /\ state'[q] = "RUNNABLE"
        /\ chan[q] = parent[p] => state'[q] # "SLEEPING"
        /\ chan[q] = initproc /\ Zombies(p) # {} => state'[q] # "SLEEPING"
  BY <1>2, <1>3, <1>4, Zenon
<1> QED
  BY <1>4, <1>6, <1>7, Zenon DEF Exit

LEMMA TypeInit == Init => TypeOK
  BY ProcAssumption
     DEF Init, TypeOK, ControlTypes, KinTypes, MemoryTypes, PageDirs, NoProc, States, Places, Channels

\* Every action keeps the variables in their types.
LEMMA TypeStep == TypeOK /\ Slots /\ [Next]_vars => TypeOK'
<1> SUFFICES ASSUME TypeOK, Slots, [Next]_vars PROVE TypeOK'
  BY Zenon
<1>1. CASE UNCHANGED vars
  BY <1>1, Zenon DEF vars, TypeOK, ControlTypes, KinTypes, MemoryTypes
<1>2. CASE Tick
  BY <1>2, WakeupTyped, Zenon DEF Tick, TypeOK, ControlTypes, KinTypes, MemoryTypes
<1>3. ASSUME NEW p \in Procs, Dispatch(p) \/ Yield(p) PROVE TypeOK'
  BY <1>3 DEF Dispatch, Yield, TypeOK, ControlTypes, KinTypes, MemoryTypes, States
<1>4. ASSUME NEW p \in Procs, Forking(p) PROVE TypeOK'
  <2>1. ASSUME NEW call \in {"fork", "clone"}, allocproc(p, call) PROVE TypeOK'
    BY <2>1, WorkTyped DEF allocproc, GoTo, TypeOK, ControlTypes, KinTypes, MemoryTypes, States, Places
  <2>2. CASE AllocFails(p)
    BY <2>2, Zenon DEF AllocFails, GoTo, Slots, Making, TypeOK, ControlTypes, KinTypes, MemoryTypes, States, Places
  <2>3. CASE ForkCopies(p)
    BY <2>3 DEF ForkCopies, GoTo, Slots, Making, TypeOK, ControlTypes, KinTypes, MemoryTypes, Places
  <2>4. CASE CloneShares(p)
    BY <2>4, Zenon DEF CloneShares, GoTo, Slots, Making, TypeOK, ControlTypes, KinTypes, MemoryTypes, Places
  <2>5. CASE MakeRunnable(p)
    BY <2>5, Zenon DEF MakeRunnable, Slots, Making, TypeOK, ControlTypes, KinTypes, MemoryTypes, States, Places
  <2> QED
    BY <1>4, <2>1, <2>2, <2>3, <2>4, <2>5, Zenon DEF Forking
<1>5. ASSUME NEW p \in Procs, exec(p) PROVE TypeOK'
  BY <1>5 DEF exec, TypeOK, ControlTypes, KinTypes, MemoryTypes
<1>6. ASSUME NEW p \in Procs, Waiting(p) PROVE TypeOK'
  <2>1. CASE CallWait(p) \/ WaitFails(p)
    BY <2>1, WorkTyped
       DEF CallWait, WaitFails, GoTo, TypeOK, ControlTypes, KinTypes, MemoryTypes, Places, NoProc, Channels
  <2>2. CASE Reap(p)
    BY <2>2, WorkTyped
       DEF Reap, GoTo, Zombies, Children, TypeOK, ControlTypes, KinTypes, MemoryTypes, States, Places,
           NoProc, Channels
  <2>3. CASE WaitSleeps(p)
    BY <2>3, WorkTyped, Zenon DEF WaitSleeps, SleepOn, TypeOK, ControlTypes, KinTypes, MemoryTypes, States
  <2> QED
    BY <1>6, <2>1, <2>2, <2>3, Zenon DEF Waiting
<1>7. ASSUME NEW p \in Procs, Sleeping(p) PROVE TypeOK'
  BY <1>7, WorkTyped
     DEF Sleeping, sys_sleep, SleepLoop, Doze, SleepOn, GoTo, ticks, TypeOK, ControlTypes, KinTypes, MemoryTypes,
         States, Places, NoProc, Channels
<1>8. ASSUME NEW p \in Procs, Exiting(p) PROVE TypeOK'
  <2>1. CASE CallExit(p) \/ Die(p)
    BY <2>1, Zenon DEF CallExit, Die, GoTo, TypeOK, ControlTypes, KinTypes, MemoryTypes, Places
  <2>2. CASE Exit(p)
    BY <2>2, WakeupTyped, WorkTyped DEF Exit, TypeOK, ControlTypes, KinTypes, MemoryTypes, States
  <2> QED
    BY <1>8, <2>1, <2>2, Zenon DEF Exiting
<1>9. ASSUME NEW p \in Procs, kill(p) PROVE TypeOK'
  BY <1>9 DEF kill, TypeOK, ControlTypes, KinTypes, MemoryTypes, States
<1> QED
  BY <1>1, <1>2, <1>3, <1>4, <1>5, <1>6, <1>7, <1>8, <1>9, Zenon DEF Next

-----------------------------------------------------------------------------
LEMMA SlotsInit == Init => Slots
  BY Zenon DEF Init, Slots, Making

\* fork and clone take a slot that is UNUSED, which is nobody's.
LEMMA SlotsStep == TypeOK /\ Slots /\ Sleepers /\ [Next]_vars => Slots'
<1> SUFFICES ASSUME TypeOK, Slots, Sleepers, [Next]_vars PROVE Slots'
  BY Zenon
<1>1. CASE UNCHANGED vars
  BY <1>1, Zenon DEF vars, Slots, Making
<1>2. CASE Tick
  BY <1>2, WakeupTyped DEF Tick, TypeOK, ControlTypes, Slots, Making
<1>3. ASSUME NEW p \in Procs, Dispatch(p) \/ Yield(p) PROVE Slots'
  BY <1>3 DEF Dispatch, Yield, TypeOK, ControlTypes, Slots, Making
<1>4. ASSUME NEW p \in Procs, Forking(p) PROVE Slots'
  <2>1. ASSUME NEW call \in {"fork", "clone"}, allocproc(p, call) PROVE Slots'
    BY <2>1 DEF allocproc, GoTo, Calls, TypeOK, ControlTypes, Slots, Making
  <2>2. CASE AllocFails(p)
    BY <2>2 DEF AllocFails, GoTo, TypeOK, ControlTypes, Slots, Making
  <2>3. CASE ForkCopies(p)
    BY <2>3 DEF ForkCopies, GoTo, Slots, Making
  <2>4. CASE CloneShares(p)
    BY <2>4 DEF CloneShares, GoTo, Slots, Making
  <2>5. CASE MakeRunnable(p)
    BY <2>5 DEF MakeRunnable, TypeOK, ControlTypes, Slots, Making
  <2> QED
    BY <1>4, <2>1, <2>2, <2>3, <2>4, <2>5, Zenon DEF Forking
<1>5. ASSUME NEW p \in Procs, exec(p) PROVE Slots'
  BY <1>5, Zenon DEF exec, Slots, Making
<1>6. ASSUME NEW p \in Procs, Waiting(p) PROVE Slots'
  <2>1. CASE CallWait(p) \/ WaitFails(p)
    BY <2>1 DEF CallWait, WaitFails, GoTo, TypeOK, ControlTypes, Slots, Making
  <2>2. CASE Reap(p)
    BY <2>2 DEF Reap, GoTo, Zombies, Slots, Making
  <2>3. CASE WaitSleeps(p)
    BY <2>3 DEF WaitSleeps, SleepOn, Slots, Making
  <2> QED
    BY <1>6, <2>1, <2>2, <2>3, Zenon DEF Waiting
<1>7. ASSUME NEW p \in Procs, Sleeping(p) PROVE Slots'
  BY <1>7 DEF Sleeping, sys_sleep, SleepLoop, Doze, SleepOn, GoTo, Calls, TypeOK, ControlTypes, Slots, Making
<1>8. ASSUME NEW p \in Procs, Exiting(p) PROVE Slots'
  <2>1. CASE CallExit(p) \/ Die(p)
    BY <2>1 DEF CallExit, Die, GoTo, TypeOK, ControlTypes, Slots, Making
  <2>2. CASE Exit(p)
    BY <2>2, ExitEffect DEF Slots, Making
  <2> QED
    BY <1>8, <2>1, <2>2, Zenon DEF Exiting
<1>9. ASSUME NEW p \in Procs, kill(p) PROVE Slots'
  BY <1>9 DEF kill, Slots, Making
<1> QED
  BY <1>1, <1>2, <1>3, <1>4, <1>5, <1>6, <1>7, <1>8, <1>9, Zenon DEF Next

LEMMA SleepersInit == Init => Sleepers
  BY Zenon DEF Init, Sleepers

\* Only wait and sleep put a process to sleep; only exit makes it a ZOMBIE.
LEMMA SleepersStep == TypeOK /\ Slots /\ Sleepers /\ [Next]_vars => Sleepers'
<1> SUFFICES ASSUME TypeOK, Slots, Sleepers, [Next]_vars PROVE Sleepers'
  BY Zenon
<1>1. CASE UNCHANGED vars
  BY <1>1, Zenon DEF vars, Sleepers
<1>2. CASE Tick
  BY <1>2, TickEffect, Zenon DEF Sleepers
<1>3. ASSUME NEW p \in Procs, Dispatch(p) \/ Yield(p) PROVE Sleepers'
  BY <1>3, Zenon DEF Dispatch, Yield, TypeOK, ControlTypes, Sleepers
<1>4. ASSUME NEW p \in Procs, Forking(p) PROVE Sleepers'
  <2>1. ASSUME NEW call \in {"fork", "clone"}, allocproc(p, call) PROVE Sleepers'
    BY <2>1 DEF allocproc, GoTo, Calls, Sleepers
  <2>2. CASE AllocFails(p)
    BY <2>2 DEF AllocFails, GoTo, Sleepers
  <2>3. CASE ForkCopies(p)
    BY <2>3 DEF ForkCopies, GoTo, Sleepers
  <2>4. CASE CloneShares(p)
    BY <2>4 DEF CloneShares, GoTo, Sleepers
  <2>5. CASE MakeRunnable(p)
    BY <2>5, Zenon DEF MakeRunnable, TypeOK, ControlTypes, Sleepers
  <2> QED
    BY <1>4, <2>1, <2>2, <2>3, <2>4, <2>5, Zenon DEF Forking
<1>5. ASSUME NEW p \in Procs, exec(p) PROVE Sleepers'
  BY <1>5, Zenon DEF exec, Sleepers
<1>6. ASSUME NEW p \in Procs, Waiting(p) PROVE Sleepers'
  <2>1. CASE CallWait(p) \/ WaitFails(p)
    BY <2>1, Zenon DEF CallWait, WaitFails, GoTo, Calls, TypeOK, ControlTypes, Sleepers
  <2>2. CASE Reap(p)
    BY <2>2 DEF Reap, GoTo, Sleepers
  <2>3. CASE WaitSleeps(p)
    BY <2>3, Zenon DEF WaitSleeps, SleepOn, TypeOK, ControlTypes, Sleepers
  <2> QED
    BY <1>6, <2>1, <2>2, <2>3, Zenon DEF Waiting
<1>7. ASSUME NEW p \in Procs, Sleeping(p) PROVE Sleepers'
  BY <1>7 DEF Sleeping, sys_sleep, SleepLoop, Doze, SleepOn, GoTo, Calls, TypeOK, ControlTypes, Sleepers
<1>8. ASSUME NEW p \in Procs, Exiting(p) PROVE Sleepers'
  <2>1. CASE CallExit(p) \/ Die(p)
    BY <2>1, Zenon DEF CallExit, Die, GoTo, Calls, TypeOK, ControlTypes, Sleepers
  <2>2. CASE Exit(p)
    BY <2>2, WakeupTyped DEF Exit, TypeOK, ControlTypes, Sleepers
  <2> QED
    BY <1>8, <2>1, <2>2, Zenon DEF Exiting
<1>9. ASSUME NEW p \in Procs, kill(p) PROVE Sleepers'
  BY <1>9 DEF kill, Sleepers
<1> QED
  BY <1>1, <1>2, <1>3, <1>4, <1>5, <1>6, <1>7, <1>8, <1>9, Zenon DEF Next

LEMMA PidsInit == Init => Pids
  BY ProcAssumption DEF Init, Pids, PidsDistinct, Procs, initproc

\* A pid is nextpid when it is given out, and nextpid grows.
LEMMA PidsStep == TypeOK /\ Slots /\ Family /\ Pids /\ [Next]_vars => Pids'
<1> SUFFICES ASSUME TypeOK, Slots, Family, Pids, [Next]_vars PROVE Pids'
  BY Zenon
<1>1. CASE UNCHANGED vars
  BY <1>1, Zenon DEF vars, Pids, PidsDistinct
<1>2. CASE Tick
  BY <1>2, WakeupTyped DEF Tick, TypeOK, ControlTypes, Pids, PidsDistinct
<1>3. ASSUME NEW p \in Procs, Dispatch(p) \/ Yield(p) PROVE Pids'
  BY <1>3 DEF Dispatch, Yield, TypeOK, ControlTypes, Pids, PidsDistinct
<1>4. ASSUME NEW p \in Procs, Forking(p) PROVE Pids'
  <2>1. ASSUME NEW call \in {"fork", "clone"}, allocproc(p, call) PROVE Pids'
    BY <2>1 DEF allocproc, TypeOK, KinTypes, Family, Alive, Pids, PidsDistinct
  <2>2. CASE AllocFails(p)
    BY <2>2 DEF AllocFails, Pids, PidsDistinct
  <2>3. CASE ForkCopies(p)
    BY <2>3, Zenon DEF ForkCopies, Pids, PidsDistinct
  <2>4. CASE CloneShares(p)
    BY <2>4, Zenon DEF CloneShares, Pids, PidsDistinct
  <2>5. CASE MakeRunnable(p)
    BY <2>5 DEF MakeRunnable, Slots, Making, Pids, PidsDistinct
  <2> QED
    BY <1>4, <2>1, <2>2, <2>3, <2>4, <2>5, Zenon DEF Forking
<1>5. ASSUME NEW p \in Procs, exec(p) PROVE Pids'
  BY <1>5, Zenon DEF exec, Pids, PidsDistinct
<1>6. ASSUME NEW p \in Procs, Waiting(p) PROVE Pids'
  <2>1. CASE CallWait(p) \/ WaitFails(p)
    BY <2>1, Zenon DEF CallWait, WaitFails, Pids, PidsDistinct
  <2>2. CASE Reap(p)
    BY <2>2 DEF Reap, Zombies, TypeOK, ControlTypes, KinTypes, Family, Alive, Pids, PidsDistinct
  <2>3. CASE WaitSleeps(p)
    BY <2>3 DEF WaitSleeps, SleepOn, Pids, PidsDistinct
  <2> QED
    BY <1>6, <2>1, <2>2, <2>3, Zenon DEF Waiting
<1>7. ASSUME NEW p \in Procs, Sleeping(p) PROVE Pids'
  BY <1>7 DEF Sleeping, sys_sleep, SleepLoop, Doze, SleepOn, Calls, TypeOK, ControlTypes, Pids, PidsDistinct
<1>8. ASSUME NEW p \in Procs, Exiting(p) PROVE Pids'
  <2>1. CASE CallExit(p) \/ Die(p)
    BY <2>1, Zenon DEF CallExit, Die, Pids, PidsDistinct
  <2>2. CASE Exit(p)
    BY <2>2, ExitEffect DEF Pids, PidsDistinct
  <2> QED
    BY <1>8, <2>1, <2>2, Zenon DEF Exiting
<1>9. ASSUME NEW p \in Procs, kill(p) PROVE Pids'
  BY <1>9 DEF kill, Pids, PidsDistinct
<1> QED
  BY <1>1, <1>2, <1>3, <1>4, <1>5, <1>6, <1>7, <1>8, <1>9, Zenon DEF Next

LEMMA FamilyInit == Init => Family
  BY ProcAssumption DEF Init, Family, Alive, Exists, Made, Procs, initproc

\* exit gives the children to init, and wait frees a slot nobody is a child of.
LEMMA FamilyStep == TypeOK /\ Slots /\ Sleepers /\ Pids /\ Family /\ [Next]_vars => Family'
<1> SUFFICES ASSUME TypeOK, Slots, Sleepers, Pids, Family, [Next]_vars PROVE Family'
  BY Zenon
<1>1. CASE UNCHANGED vars
  BY <1>1, Zenon DEF vars, Family, Alive, Exists, Made
<1>2. CASE Tick
  BY <1>2, WakeupTyped, WorkTyped DEF Tick, TypeOK, ControlTypes, KinTypes, Family, Alive, Exists, Made
<1>3. ASSUME NEW p \in Procs, Dispatch(p) \/ Yield(p) PROVE Family'
  BY <1>3, WorkTyped DEF Dispatch, Yield, TypeOK, ControlTypes, KinTypes, Family, Alive, Exists, Made
<1>4. ASSUME NEW p \in Procs, Forking(p) PROVE Family'
  <2>1. ASSUME NEW call \in {"fork", "clone"}, allocproc(p, call) PROVE Family'
    BY <2>1
       DEF allocproc, GoTo, Calls, TypeOK, ControlTypes, KinTypes, Slots, Making, Pids, Family, Alive,
           Exists, Made
  <2>2. CASE AllocFails(p)
    BY <2>2 DEF AllocFails, GoTo, TypeOK, ControlTypes, Slots, Making, Family, Alive, Exists, Made
  <2>3. CASE ForkCopies(p)
    <3>1. np[p] \in Procs /\ state[np[p]] = "EMBRYO" /\ state[p] = "RUNNING" /\ at[p] = "fork"
      BY <2>3, Zenon DEF ForkCopies, Slots, Making
    <3>2. UNCHANGED <<state, pid, np>> /\ isthread' = [isthread EXCEPT ![np[p]] = FALSE]
          /\ parent' = [parent EXCEPT ![np[p]] = p] /\ at' = [at EXCEPT ![p] = "fork_made"]
      BY <2>3, Zenon DEF ForkCopies, GoTo
    <3> QED
      BY <3>1, <3>2 DEF TypeOK, ControlTypes, KinTypes, Slots, Making, Family, Alive, Exists, Made
  <2>4. CASE CloneShares(p)
    <3>1. np[p] \in Procs /\ state[np[p]] = "EMBRYO" /\ state[p] = "RUNNING" /\ at[p] = "clone"
      BY <2>4, Zenon DEF CloneShares, Slots, Making
    <3>2. UNCHANGED <<state, pid, np>> /\ isthread' = [isthread EXCEPT ![np[p]] = TRUE]
          /\ parent' = [parent EXCEPT ![np[p]] = p] /\ at' = [at EXCEPT ![p] = "clone_made"]
      BY <2>4, Zenon DEF CloneShares, GoTo
    <3> QED
      BY <3>1, <3>2 DEF TypeOK, ControlTypes, KinTypes, Slots, Making, Family, Alive, Exists, Made
  <2>5. CASE MakeRunnable(p)
    BY <2>5, WorkTyped DEF MakeRunnable, TypeOK, ControlTypes, Family, Alive, Exists, Made
  <2> QED
    BY <1>4, <2>1, <2>2, <2>3, <2>4, <2>5, Zenon DEF Forking
<1>5. ASSUME NEW p \in Procs, exec(p) PROVE Family'
  BY <1>5, Zenon DEF exec, Family, Alive, Exists, Made
<1>6. ASSUME NEW p \in Procs, Waiting(p) PROVE Family'
  <2>1. CASE CallWait(p) \/ WaitFails(p)
    BY <2>1, WorkTyped DEF CallWait, WaitFails, GoTo, TypeOK, ControlTypes, Family, Alive, Exists, Made
  <2>2. CASE Reap(p)
    BY <2>2
       DEF Reap, GoTo, Zombies, TypeOK, ControlTypes, KinTypes, Slots, Making, Family, Alive, Exists, Made
  <2>3. CASE WaitSleeps(p)
    BY <2>3 DEF WaitSleeps, SleepOn, Family, Alive, Exists, Made
  <2> QED
    BY <1>6, <2>1, <2>2, <2>3, Zenon DEF Waiting
<1>7. ASSUME NEW p \in Procs, Sleeping(p) PROVE Family'
  <2>1. UNCHANGED <<parent, pid, isthread, np>> /\ at[p] \in {"user", "sleep", "doze"} /\ state[p] = "RUNNING"
        /\ (\E s \in {"RUNNING", "SLEEPING"} : state' = [state EXCEPT ![p] = s])
        /\ (\E a \in {"user", "sleep", "doze"} : at' = [at EXCEPT ![p] = a])
    BY <1>7 DEF Sleeping, sys_sleep, SleepLoop, Doze, SleepOn, GoTo, Calls, TypeOK, ControlTypes
  <2> QED
    BY <2>1 DEF Family, Alive, Exists, Made
<1>8. ASSUME NEW p \in Procs, Exiting(p) PROVE Family'
  <2>1. CASE CallExit(p) \/ Die(p)
    BY <2>1, WorkTyped DEF CallExit, Die, GoTo, Calls, TypeOK, ControlTypes, Family, Alive, Exists, Made
  <2>2. CASE Exit(p)
    <3>1. UNCHANGED <<pid, isthread, at, np>> /\ at[p] = "exit" /\ p # initproc
      BY <2>2, ExitEffect, Zenon DEF Family
    <3>2. \A q \in Procs \ {p} : Alive(q) => Alive(q)'
      BY <2>2, ExitEffect, Zenon DEF Alive
    <3>3. \A q \in Procs : parent[q] # NoProc => initproc # q /\ pid[initproc] < pid[q]
      BY DEF TypeOK, KinTypes, Pids, Family, Exists
    <3>4. Alive(initproc)' /\ parent'[initproc] = NoProc
      <4>1. initproc \in Procs \ {p} /\ Alive(initproc) /\ parent[initproc] = NoProc /\ NoProc # p
        BY <3>1, WorkTyped, Zenon DEF Family
      <4>2. parent'[initproc] = NoProc
        BY <2>2, <4>1, ExitEffect, Zenon
      <4> QED
        BY <3>2, <4>1, <4>2, Zenon
    <3>5. ASSUME NEW q \in Procs, parent'[q] # NoProc PROVE (Alive(parent[q]) /\ pid[parent[q]] < pid[q])'
      <4>1. CASE parent[q] = p
        BY <2>2, <3>1, <3>3, <3>4, <4>1, ExitEffect
      <4>2. CASE parent[q] # p
        BY <2>2, <3>1, <3>2, <3>5, <4>2, ExitEffect, ZenonT(30) DEF Family
      <4> QED
        BY <4>1, <4>2, Zenon
    <3>6. ASSUME NEW q \in Procs PROVE (/\ Exists(q) /\ q # initproc => parent[q] # NoProc
                                        /\ state[q] = "UNUSED" => parent[q] = NoProc)'
      BY <2>2, ExitEffect, WorkTyped DEF Family, Alive, Exists
    <3>7. ASSUME NEW q \in Procs PROVE (/\ at[q] \in {"fork", "clone"} => parent[np[q]] = NoProc /\ pid[q] < pid[np[q]]
                                        /\ Made(q) => parent[np[q]] = q)'
      BY <2>2, <3>1, ExitEffect, WorkTyped DEF Slots, Making, Family, Made
    <3>8. (at[initproc] # "exit" /\ ~isthread[initproc])'
      BY <3>1, Zenon DEF Family
    <3> QED
      BY <3>4, <3>5, <3>6, <3>7, <3>8, Zenon DEF Family
  <2> QED
    BY <1>8, <2>1, <2>2, Zenon DEF Exiting
<1>9. ASSUME NEW p \in Procs, kill(p) PROVE Family'
  BY <1>9 DEF kill, Family, Alive, Exists, Made
<1> QED
  BY <1>1, <1>2, <1>3, <1>4, <1>5, <1>6, <1>7, <1>8, <1>9, Zenon DEF Next

LEMMA NoMissedExitInit == Init => NoMissedExit
  BY Zenon DEF Init, NoMissedExit

\* wait looks and goes to sleep under ptable.lock, and exit wakes the parent
\* and init under it.
LEMMA NoMissedExitStep == TypeOK /\ Slots /\ Sleepers /\ Family /\ NoMissedExit /\ [Next]_vars => NoMissedExit'
<1> SUFFICES ASSUME TypeOK, Slots, Sleepers, Family, NoMissedExit, [Next]_vars PROVE NoMissedExit'
  BY Zenon
<1>1. CASE UNCHANGED vars
  BY <1>1, Zenon DEF vars, NoMissedExit, Children, Zombies
<1>2. CASE Tick
  BY <1>2, WakeupTyped DEF Tick, TypeOK, ControlTypes, NoMissedExit, Children, Zombies
<1>3. ASSUME NEW p \in Procs, Dispatch(p) \/ Yield(p) PROVE NoMissedExit'
  BY <1>3 DEF Dispatch, Yield, TypeOK, ControlTypes, NoMissedExit, Children, Zombies
<1>4. ASSUME NEW p \in Procs, Forking(p) PROVE NoMissedExit'
  <2>1. ASSUME NEW call \in {"fork", "clone"}, allocproc(p, call) PROVE NoMissedExit'
    BY <2>1 DEF allocproc, GoTo, NoMissedExit, Children, Zombies
  <2>2. CASE AllocFails(p)
    BY <2>2 DEF AllocFails, GoTo, NoMissedExit, Children, Zombies
  <2>3. CASE ForkCopies(p)
    <3>1. /\ np[p] \in Procs /\ parent[np[p]] = NoProc /\ state[p] = "RUNNING"
          /\ parent' = [parent EXCEPT ![np[p]] = p] /\ UNCHANGED <<state, killed>>
          /\ \A r \in Procs : r # p => at'[r] = at[r]
      BY <2>3 DEF ForkCopies, GoTo, Slots, Making, Family
    <3>2. \A r \in Procs : r # p => Children(r)' = Children(r)
      BY <3>1, WorkTyped DEF Children
    <3> QED
      BY <3>1, <3>2, Zenon DEF NoMissedExit, Zombies
  <2>4. CASE CloneShares(p)
    <3>1. /\ np[p] \in Procs /\ parent[np[p]] = NoProc /\ state[p] = "RUNNING"
          /\ parent' = [parent EXCEPT ![np[p]] = p] /\ UNCHANGED <<state, killed>>
          /\ \A r \in Procs : r # p => at'[r] = at[r]
      BY <2>4 DEF CloneShares, GoTo, Slots, Making, Family
    <3>2. \A r \in Procs : r # p => Children(r)' = Children(r)
      BY <3>1, WorkTyped DEF Children
    <3> QED
      BY <3>1, <3>2, Zenon DEF NoMissedExit, Zombies
  <2>5. CASE MakeRunnable(p)
    <3>1. /\ UNCHANGED <<parent, killed>>
          /\ \A q \in Procs : state'[q] = state[q] \/ state'[q] = "RUNNABLE"
          /\ \A q \in Procs : at'[q] = at[q] \/ at'[q] = "user"
      BY <2>5, Zenon DEF MakeRunnable, TypeOK, ControlTypes
    <3>2. ASSUME NEW r \in Procs, state'[r] = "SLEEPING", at'[r] = "wait"
          PROVE  ~killed'[r] /\ Children(r)' # {} /\ Zombies(r)' = {}
      <4>1. state[r] = "SLEEPING" /\ at[r] = "wait"
        BY <3>1, <3>2, Zenon
      <4>2. ~killed'[r] /\ Children(r) # {} /\ Zombies(r) = {}
        BY <3>1, <4>1, Zenon DEF NoMissedExit
      <4>3. Children(r)' = Children(r)
        BY <3>1, Zenon DEF Children
      <4>4. Zombies(r)' \subseteq Zombies(r)
        BY <3>1, <4>3 DEF Zombies, Children
      <4> QED
        BY <4>2, <4>3, <4>4, Zenon
    <3> QED
      BY <3>2, Zenon DEF NoMissedExit
  <2> QED
    BY <1>4, <2>1, <2>2, <2>3, <2>4, <2>5, Zenon DEF Forking
<1>5. ASSUME NEW p \in Procs, exec(p) PROVE NoMissedExit'
  BY <1>5, Zenon DEF exec, NoMissedExit, Children, Zombies
<1>6. ASSUME NEW p \in Procs, Waiting(p) PROVE NoMissedExit'
  <2>1. CASE CallWait(p) \/ WaitFails(p)
    BY <2>1 DEF CallWait, WaitFails, GoTo, Calls, TypeOK, ControlTypes, NoMissedExit, Children, Zombies
  <2>2. CASE Reap(p)
    BY <2>2, WorkTyped DEF Reap, GoTo, NoMissedExit, Children, Zombies
  <2>3. CASE WaitSleeps(p)
    BY <2>3 DEF WaitSleeps, SleepOn, NoMissedExit, Children, Zombies
  <2> QED
    BY <1>6, <2>1, <2>2, <2>3, Zenon DEF Waiting
<1>7. ASSUME NEW p \in Procs, Sleeping(p) PROVE NoMissedExit'
  BY <1>7
     DEF Sleeping, sys_sleep, SleepLoop, Doze, SleepOn, GoTo, TypeOK, ControlTypes, NoMissedExit, Children, Zombies
<1>8. ASSUME NEW p \in Procs, Exiting(p) PROVE NoMissedExit'
  <2>1. CASE CallExit(p) \/ Die(p)
    BY <2>1 DEF CallExit, Die, GoTo, TypeOK, ControlTypes, NoMissedExit, Children, Zombies
  <2>2. CASE Exit(p)
    <3> SUFFICES ASSUME NEW r \in Procs, (state[r] = "SLEEPING" /\ at[r] = "wait")'
                 PROVE  (~killed[r] /\ Children(r) # {} /\ Zombies(r) = {})'
      BY Zenon DEF NoMissedExit
    <3>1. r # p /\ state[r] = "SLEEPING" /\ at[r] = "wait" /\ chan[r] = r
      BY <2>2, ExitEffect, Zenon DEF Sleepers
    <3>2. ~killed'[r] /\ Children(r) # {} /\ Zombies(r) = {}
      BY <2>2, <3>1, ExitEffect, Zenon DEF NoMissedExit
    <3>3. Children(r) \subseteq Children(r)' /\ parent[p] # r
      BY <2>2, <3>1, ExitEffect, Zenon DEF Children
    <3>4. ASSUME NEW q \in Zombies(r)' PROVE FALSE
      <4>1. q \in Procs /\ parent'[q] = r /\ state'[q] = "ZOMBIE"
        BY <3>4, Zenon DEF Children, Zombies
      <4>2. CASE q = p
        <5>1. parent[p] # p
          BY WorkTyped DEF Family, TypeOK, KinTypes
        <5> QED
          BY <2>2, <3>3, <4>1, <4>2, <5>1, ExitEffect, Zenon
      <4>3. CASE q # p /\ parent[q] = p
        BY <2>2, <3>1, <4>1, <4>3, ExitEffect DEF Children, Zombies
      <4>4. CASE q # p /\ parent[q] # p
        BY <2>2, <3>2, <4>1, <4>4, ExitEffect DEF Children, Zombies
      <4> QED
        BY <4>2, <4>3, <4>4, Zenon
    <3> QED
      BY <3>2, <3>3, <3>4, Zenon
  <2> QED
    BY <1>8, <2>1, <2>2, Zenon DEF Exiting
<1>9. ASSUME NEW p \in Procs, kill(p) PROVE NoMissedExit'
  BY <1>9 DEF kill, TypeOK, ControlTypes, NoMissedExit, Children, Zombies
<1> QED
  BY <1>1, <1>2, <1>3, <1>4, <1>5, <1>6, <1>7, <1>8, <1>9, Zenon DEF Next

LEMMA TablesInit == Init => Flags /\ Tables
<1> SUFFICES ASSUME Init PROVE Flags /\ Tables
  BY Zenon
<1>1. Flags
  BY Zenon DEF Init, Flags
<1>2. Owners = {initproc} /\ pgdir[initproc] = 1 /\ live = {1}
  BY ProcAssumption DEF Init, Owners, Exists, Alive, Procs, initproc
<1> QED
  BY <1>1, <1>2, Zenon DEF Tables

\* Where the owners and their page tables stay as they are, so does the match.
LEMMA TablesKept ==
  ASSUME Tables, Owners' = Owners, UNCHANGED <<work, live>>,
         \A q \in Owners : pgdir'[q] = pgdir[q]
  PROVE  Tables'
<1>1. {pgdir'[q] : q \in Owners} = {pgdir[q] : q \in Owners}
  BY Zenon
<1>2. \A p, q \in Owners : pgdir'[p] = pgdir'[q] <=> pgdir[p] = pgdir[q]
  BY Zenon
<1> QED
  BY <1>1, <1>2 DEF Tables

\* The two ways to be an owner.
LEMMA OwnersAre ==
  ASSUME NEW q
  PROVE  q \in Owners <=> \/ q \in Procs /\ Exists(q) /\ ~isthread[q]
                          \/ \E r \in Procs : at[r] = "fork_made" /\ np[r] = q
  BY Zenon DEF Owners

LEMMA OwnersKept ==
  ASSUME \A q \in Procs : Exists(q)' /\ ~isthread'[q] <=> Exists(q) /\ ~isthread[q],
         \A q \in Procs : at'[q] = "fork_made" <=> at[q] = "fork_made",
         \A q \in Procs : at[q] = "fork_made" => np'[q] = np[q]
  PROVE  Owners' = Owners
  BY Zenon DEF Owners

\* np is nobody else's while fork and clone set its flag.
LEMMA FlagsStep == TypeOK /\ Slots /\ Sleepers /\ Flags /\ [Next]_vars => Flags'
<1> SUFFICES ASSUME TypeOK, Slots, Sleepers, Flags, [Next]_vars PROVE Flags'
  BY Zenon
<1>1. CASE UNCHANGED vars
  BY <1>1, Zenon DEF vars, Flags, Exists, Alive
<1>2. CASE Tick
  BY <1>2, TickEffect, Zenon DEF Flags
<1>3. ASSUME NEW p \in Procs, Dispatch(p) \/ Yield(p) PROVE Flags'
  BY <1>3 DEF Dispatch, Yield, TypeOK, ControlTypes, Flags, Exists, Alive
<1>4. ASSUME NEW p \in Procs, Forking(p) PROVE Flags'
  <2>1. ASSUME NEW call \in {"fork", "clone"}, allocproc(p, call) PROVE Flags'
    BY <2>1 DEF allocproc, GoTo, Calls, Flags, Exists, Alive
  <2>2. CASE AllocFails(p)
    BY <2>2 DEF AllocFails, GoTo, Flags, Exists, Alive
  <2>3. CASE ForkCopies(p)
    BY <2>3 DEF ForkCopies, GoTo, TypeOK, MemoryTypes, Slots, Making, Flags, Exists, Alive
  <2>4. CASE CloneShares(p)
    BY <2>4 DEF CloneShares, GoTo, TypeOK, MemoryTypes, Slots, Making, Flags
  <2>5. CASE MakeRunnable(p)
    BY <2>5, Zenon DEF MakeRunnable, TypeOK, ControlTypes, Flags, Exists, Alive
  <2> QED
    BY <1>4, <2>1, <2>2, <2>3, <2>4, <2>5, Zenon DEF Forking
<1>5. ASSUME NEW p \in Procs, exec(p) PROVE Flags'
  BY <1>5, Zenon DEF exec, Flags, Exists, Alive
<1>6. ASSUME NEW p \in Procs, Waiting(p) PROVE Flags'
  <2>1. CASE CallWait(p) \/ WaitFails(p)
    BY <2>1 DEF CallWait, WaitFails, GoTo, TypeOK, ControlTypes, Flags, Exists, Alive
  <2>2. CASE Reap(p)
    BY <2>2 DEF Reap, GoTo, Flags, Exists, Alive
  <2>3. CASE WaitSleeps(p)
    BY <2>3 DEF WaitSleeps, SleepOn, Flags, Exists, Alive
  <2> QED
    BY <1>6, <2>1, <2>2, <2>3, Zenon DEF Waiting
<1>7. ASSUME NEW p \in Procs, Sleeping(p) PROVE Flags'
  BY <1>7 DEF Sleeping, sys_sleep, SleepLoop, Doze, SleepOn, GoTo, Calls, TypeOK, ControlTypes, Flags, Exists, Alive
<1>8. ASSUME NEW p \in Procs, Exiting(p) PROVE Flags'
  <2>1. CASE CallExit(p) \/ Die(p)
    BY <2>1 DEF CallExit, Die, GoTo, TypeOK, ControlTypes, Flags, Exists, Alive
  <2>2. CASE Exit(p)
    BY <2>2, WakeupTyped DEF Exit, TypeOK, ControlTypes, Flags, Exists, Alive
  <2> QED
    BY <1>8, <2>1, <2>2, Zenon DEF Exiting
<1>9. ASSUME NEW p \in Procs, kill(p) PROVE Flags'
  BY <1>9 DEF kill, Flags, Exists, Alive
<1> QED
  BY <1>1, <1>2, <1>3, <1>4, <1>5, <1>6, <1>7, <1>8, <1>9, Zenon DEF Next

\* Owners and page tables change together: in fork, exec and wait.
LEMMA TablesStep == TypeOK /\ Slots /\ Sleepers /\ Family /\ Flags /\ Tables /\ [Next]_vars => Tables'
<1> SUFFICES ASSUME TypeOK, Slots, Sleepers, Family, Flags, Tables, [Next]_vars PROVE Tables'
  BY Zenon
<1>a. ASSUME UNCHANGED <<work, live, pgdir>>, Owners' = Owners PROVE Tables'
  BY <1>a, TablesKept, Zenon
<1>1. CASE UNCHANGED vars
  BY <1>1, <1>a, OwnersKept, Zenon DEF vars, Exists, Alive
<1>2. CASE Tick
  <2>1. Owners' = Owners
    BY <1>2, TickEffect, OwnersKept, Zenon
  <2> QED
    BY <1>2, <2>1, <1>a, TickEffect, Zenon
<1>3. ASSUME NEW p \in Procs, Dispatch(p) \/ Yield(p) PROVE Tables'
  <2>1. \A q \in Procs : Exists(q)' <=> Exists(q)
    BY <1>3, Zenon DEF Dispatch, Yield, TypeOK, ControlTypes, Exists, Alive
  <2>2. Owners' = Owners
    BY <1>3, <2>1, OwnersKept, Zenon DEF Dispatch, Yield
  <2> QED
    BY <1>3, <2>2, <1>a, Zenon DEF Dispatch, Yield
<1>4. ASSUME NEW p \in Procs, Forking(p) PROVE Tables'
  <2>1. ASSUME NEW call \in {"fork", "clone"}, allocproc(p, call) PROVE Tables'
    BY <2>1, <1>a, OwnersKept DEF allocproc, GoTo, Calls, Exists, Alive
  <2>2. CASE AllocFails(p)
    BY <2>2, <1>a, OwnersKept DEF AllocFails, GoTo, Slots, Making, Exists, Alive
  <2>3. CASE ForkCopies(p)
    <3>1. PICK d \in PageDirs : d \notin live /\ pgdir' = [pgdir EXCEPT ![np[p]] = d] /\ live' = live \cup {d}
      BY <2>3, Zenon DEF ForkCopies, IsNewDir
    <3>2. /\ np[p] \in Procs /\ state[np[p]] = "EMBRYO" /\ at[p] = "fork" /\ UNCHANGED <<work, state, np>>
          /\ at' = [at EXCEPT ![p] = "fork_made"] /\ isthread' = [isthread EXCEPT ![np[p]] = FALSE]
      BY <2>3, Zenon DEF ForkCopies, GoTo, Slots, Making
    <3>3. np[p] \notin Owners /\ Owners' = Owners \cup {np[p]}
      BY <3>2 DEF TypeOK, ControlTypes, Slots, Making, Owners, Exists, Alive
    <3>4. np[p] \in DOMAIN pgdir /\ Owners \subseteq DOMAIN pgdir
      BY <3>2 DEF TypeOK, MemoryTypes, Owners, Slots, Making
    <3> QED
      BY <3>1, <3>2, <3>3, <3>4 DEF Tables
  <2>4. CASE CloneShares(p)
    <3>1. /\ np[p] \in Procs /\ state[np[p]] = "EMBRYO" /\ at[p] = "clone" /\ UNCHANGED <<work, live, state, np>>
          /\ at' = [at EXCEPT ![p] = "clone_made"] /\ isthread' = [isthread EXCEPT ![np[p]] = TRUE]
          /\ pgdir' = [pgdir EXCEPT ![np[p]] = pgdir[p]]
      BY <2>4, Zenon DEF CloneShares, GoTo, Slots, Making
    <3>2. Owners' = Owners /\ np[p] \notin Owners
      BY <3>1 DEF Slots, Making, Owners, Exists, Alive
    <3> QED
      BY <3>1, <3>2, TablesKept
  <2>5. CASE MakeRunnable(p)
    <3>1. /\ np[p] \in Procs /\ state[np[p]] = "EMBRYO" /\ np[p] # p /\ at[p] \in {"fork_made", "clone_made"}
          /\ isthread[np[p]] <=> at[p] = "clone_made"
      BY <2>5, Zenon DEF MakeRunnable, Slots, Making, Flags
    <3>2. ASSUME NEW q PROVE q \in Owners' <=> q \in Owners
      <4>1. /\ isthread' = isthread /\ state' = [state EXCEPT ![np[p]] = "RUNNABLE"]
            /\ at' = [at EXCEPT ![p] = "user", ![np[p]] = "user"]
            /\ np' = [np EXCEPT ![p] = NoProc]
        BY <2>5, Zenon DEF MakeRunnable
      <4>2. CASE q = np[p]
        BY <3>1, <4>1, <4>2 DEF Owners, TypeOK, ControlTypes, Slots, Making, Exists, Alive
      <4>3. CASE q # np[p]
        BY <3>1, <4>1, <4>3 DEF Owners, TypeOK, ControlTypes, Slots, Making, Exists, Alive
      <4> QED
        BY <4>2, <4>3, Zenon
    <3> QED
      BY <2>5, <3>2, <1>a, Zenon
  <2> QED
    BY <1>4, <2>1, <2>2, <2>3, <2>4, <2>5, Zenon DEF Forking
<1>5. ASSUME NEW p \in Procs, exec(p) PROVE Tables'
  <2>1. PICK d \in PageDirs : /\ d \notin live /\ live' = (live \cup {d}) \ {pgdir[p]}
                              /\ pgdir' = [pgdir EXCEPT ![p] = d]
    BY <1>5, Zenon DEF exec, IsNewDir
  <2>2. Owners' = Owners /\ work' = work /\ "exec" \in work.calls
    BY <1>5, OwnersKept, Zenon DEF exec, Calls, Exists, Alive
  <2>3. CASE "clone" \in work.calls
    BY <2>2, <2>3, Zenon DEF Tables
  <2>4. CASE "clone" \notin work.calls
    <3>1. p \in Owners
      BY <1>5, <2>4, OwnersAre, Zenon DEF exec, Calls, Flags, Exists, Alive
    <3>2. Owners \subseteq DOMAIN pgdir
      BY DEF TypeOK, MemoryTypes, Owners, Slots, Making
    <3> QED
      BY <2>1, <2>2, <2>4, <3>1, <3>2 DEF Tables
  <2> QED
    BY <2>3, <2>4, Zenon
<1>6. ASSUME NEW p \in Procs, Waiting(p) PROVE Tables'
  <2>1. CASE CallWait(p) \/ WaitFails(p)
    BY <2>1, <1>a, OwnersKept, Zenon DEF CallWait, WaitFails, GoTo, Calls, TypeOK, ControlTypes, Exists, Alive
  <2>2. CASE Reap(p)
    <3>1. PICK q \in Procs : /\ state[q] = "ZOMBIE"
                             /\ live' = IF isthread[q] THEN live ELSE live \ {pgdir[q]}
                             /\ pgdir' = [pgdir EXCEPT ![q] = NoDir]
                             /\ state' = [state EXCEPT ![q] = "UNUSED"]
      BY <2>2, Zenon DEF Reap, Zombies, Children
    <3>2. at[p] = "wait" /\ at' = [at EXCEPT ![p] = "user"] /\ UNCHANGED <<work, isthread, np>>
      BY <2>2, Zenon DEF Reap, GoTo
    <3>3. Owners' = Owners \ {q} /\ (q \in Owners <=> ~isthread[q])
      BY <3>1, <3>2 DEF TypeOK, ControlTypes, Slots, Making, Owners, Exists, Alive
    <3>4. Owners \subseteq DOMAIN pgdir
      BY DEF TypeOK, MemoryTypes, Owners, Slots, Making
    <3> QED
      BY <3>1, <3>2, <3>3, <3>4, ZenonT(30) DEF Tables
  <2>3. CASE WaitSleeps(p)
    BY <2>3, <1>a, OwnersKept DEF WaitSleeps, SleepOn, Exists, Alive
  <2> QED
    BY <1>6, <2>1, <2>2, <2>3, Zenon DEF Waiting
<1>7. ASSUME NEW p \in Procs, Sleeping(p) PROVE Tables'
  BY <1>7, <1>a, OwnersKept
    , Zenon DEF Sleeping, sys_sleep, SleepLoop, Doze, SleepOn, GoTo, Calls, TypeOK, ControlTypes, Exists, Alive
<1>8. ASSUME NEW p \in Procs, Exiting(p) PROVE Tables'
  <2>1. CASE CallExit(p) \/ Die(p)
    BY <2>1, <1>a, OwnersKept, Zenon DEF CallExit, Die, GoTo, Calls, TypeOK, ControlTypes, Exists, Alive
  <2>2. CASE Exit(p)
    BY <2>2, <1>a, OwnersKept, ExitEffect, Zenon DEF Exists, Alive
  <2> QED
    BY <1>8, <2>1, <2>2, Zenon DEF Exiting
<1>9. ASSUME NEW p \in Procs, kill(p) PROVE Tables'
  BY <1>9, <1>a, OwnersKept DEF kill, Exists, Alive
<1> QED
  BY <1>1, <1>2, <1>3, <1>4, <1>5, <1>6, <1>7, <1>8, <1>9, Zenon DEF Next

LEMMA ThreadsInit == Init => Threads
  BY Zenon DEF Init, Threads

\* With kill left out nobody is killed, so that who exits has chosen to, and
\* has no children: nobody is given to init, and nobody's parent changes.
LEMMA ThreadsStep == TypeOK /\ Slots /\ Sleepers /\ Family /\ Flags /\ Threads /\ [Next]_vars => Threads'
<1> SUFFICES ASSUME TypeOK, Slots, Sleepers, Family, Flags, Threads, [Next]_vars PROVE Threads'
  BY Zenon
<1>a. UNCHANGED work
  BY ZenonT(30)
     DEF vars, Next, Tick, Dispatch, Yield, Forking, allocproc, AllocFails, ForkCopies, CloneShares,
         MakeRunnable, exec, Waiting, CallWait, Reap, WaitFails, WaitSleeps, Sleeping, sys_sleep, SleepLoop, Doze,
         Exiting, CallExit, Die, Exit, kill
<1>b. "kill" \notin work.calls => (\A p \in Procs : ~killed[p])'
  <2>1. CASE UNCHANGED killed
    BY <1>a, <2>1, Zenon DEF Threads
  <2>2. ASSUME NEW p \in Procs, Reap(p) PROVE "kill" \notin work.calls => (\A q \in Procs : ~killed[q])'
    BY <2>2 DEF Reap, Threads
  <2>3. ASSUME NEW p \in Procs, kill(p) PROVE "kill" \in work.calls
    BY <2>3, Zenon DEF kill, Calls
  <2> QED
    BY <2>1, <2>2, <2>3, ZenonT(30)
       DEF vars, Next, Tick, Dispatch, Yield, Forking, allocproc, AllocFails, ForkCopies, CloneShares,
           MakeRunnable, exec, Waiting, CallWait, WaitFails, WaitSleeps, Sleeping, sys_sleep, SleepLoop, Doze,
           Exiting, CallExit, Die, Exit
<1> DEFINE Joined ==
             \A p \in Procs :
               /\ at[p] = "exit" => Children(p) = {}
               /\ Exists(p) /\ isthread[p] => pgdir[parent[p]] = pgdir[p]
               /\ at[p] = "clone_made" => pgdir[np[p]] = pgdir[p]
<1> SUFFICES ASSUME ThreadsAreJoined, "clone" \in work.calls PROVE Joined'
  BY <1>a, <1>b, Zenon DEF Threads, ThreadsAreJoined
<1>c. Joined /\ "kill" \notin work.calls /\ work.joins /\ "exec" \notin work.calls /\ \A p \in Procs : ~killed[p]
  BY Zenon DEF Threads, ThreadsAreJoined
<1>x. \A q \in Procs : at[q] = "exit" => \A u \in Procs : parent[u] # q
  BY <1>c, Zenon DEF Children
<1>s. \A q \in Procs : Exists(q) /\ isthread[q] => pgdir[parent[q]] = pgdir[q]
  BY <1>c, Zenon
<1>m. \A q \in Procs : at[q] = "clone_made" => pgdir[np[q]] = pgdir[q]
  BY <1>c, Zenon
<1>j. ASSUME \A q \in Procs : at'[q] = "exit" => \A u \in Procs : parent'[u] # q,
             \A q \in Procs : Exists(q)' /\ isthread'[q] => pgdir'[parent'[q]] = pgdir'[q],
             \A q \in Procs : at'[q] = "clone_made" => pgdir'[np'[q]] = pgdir'[q]
      PROVE  Joined'
  <2>1. \A q \in Procs : at'[q] = "exit" => Children(q)' = {}
    BY <1>j, Zenon DEF Children
  <2> QED
    BY <1>j, <2>1, Zenon
<1> HIDE DEF Joined
<1>d. ASSUME UNCHANGED <<parent, isthread, pgdir>>,
             \A q \in Procs : /\ Exists(q)' => Exists(q)
                              /\ at'[q] = "exit" => at[q] = "exit"
                              /\ at'[q] = "clone_made" => at[q] = "clone_made" /\ np'[q] = np[q]
      PROVE  Joined'
  <2>1. \A q \in Procs : at'[q] = "exit" => \A u \in Procs : parent'[u] # q
    BY <1>d, <1>x
  <2>2. \A q \in Procs : Exists(q)' /\ isthread'[q] => pgdir'[parent'[q]] = pgdir'[q]
    BY <1>d, <1>s
  <2>3. \A q \in Procs : at'[q] = "clone_made" => pgdir'[np'[q]] = pgdir'[q]
    BY <1>d, <1>m
  <2> QED
    BY <1>j, <2>1, <2>2, <2>3, Zenon
<1>e. \A q \in Procs : Exists(q) /\ isthread[q] => parent[q] \in Procs /\ Alive(parent[q])
  BY Zenon DEF Family, TypeOK, KinTypes
<1>f. ASSUME NEW p \in Procs, Making(p)
      PROVE  /\ np[p] \in Procs /\ np[p] # p /\ ~Exists(np[p]) /\ ~Alive(np[p])
             /\ \A q \in Procs : Making(q) /\ q # p => np[q] # np[p] /\ q # np[p]
  <2>1. /\ np[p] \in Procs /\ state[np[p]] = "EMBRYO"
        /\ \A q \in Procs : Making(q) => state[q] # "EMBRYO"
        /\ \A q \in Procs : Making(q) /\ q # p => np[q] # np[p]
    BY <1>f, Zenon DEF Slots
  <2>2. ~Exists(np[p]) /\ ~Alive(np[p])
    BY <2>1, Zenon DEF Exists, Alive
  <2> QED
    BY <1>f, <2>1, <2>2, Zenon
<1>1. CASE UNCHANGED vars
  BY <1>1, <1>d, Zenon DEF vars, Exists, Alive
<1>2. CASE Tick
  BY <1>2, <1>d, TickEffect, Zenon
<1>3. ASSUME NEW p \in Procs, Dispatch(p) \/ Yield(p) PROVE Joined'
  <2>1. \A q \in Procs : Exists(q)' => Exists(q)
    BY <1>3, Zenon DEF Dispatch, Yield, TypeOK, ControlTypes, Exists, Alive
  <2> QED
    BY <1>3, <1>d, <2>1, Zenon DEF Dispatch, Yield
<1>4. ASSUME NEW p \in Procs, Forking(p) PROVE Joined'
  <2>1. ASSUME NEW call \in {"fork", "clone"}, allocproc(p, call) PROVE Joined'
    <3>1. \A q \in Procs : Exists(q)' => Exists(q)
      BY <2>1, Zenon DEF allocproc, TypeOK, ControlTypes, Exists, Alive
    <3>2. \A q \in Procs : /\ at'[q] = IF q = p THEN call ELSE at[q]
                           /\ q # p => np'[q] = np[q]
      BY <2>1, Zenon DEF allocproc, GoTo, TypeOK, ControlTypes
    <3> QED
      BY <2>1, <3>1, <3>2, <1>d, Zenon DEF allocproc
  <2>2. CASE AllocFails(p)
    <3>1. \A q \in Procs : Exists(q)' => Exists(q)
      BY <2>2, Zenon DEF AllocFails, TypeOK, ControlTypes, Exists, Alive
    <3>2. \A q \in Procs : /\ at'[q] = IF q = p THEN "user" ELSE at[q]
                           /\ q # p => np'[q] = np[q]
      BY <2>2, Zenon DEF AllocFails, GoTo, TypeOK, ControlTypes
    <3> QED
      BY <2>2, <3>1, <3>2, <1>d, Zenon DEF AllocFails
  <2>3. CASE ForkCopies(p) \/ CloneShares(p)
    <3>1. Making(p)
      BY <2>3, Zenon DEF ForkCopies, CloneShares, Making
    <3>2. /\ UNCHANGED <<state, np>>
          /\ \A q \in Procs : parent'[q] = IF q = np[p] THEN p ELSE parent[q]
          /\ \A q \in Procs \ {np[p]} : pgdir'[q] = pgdir[q] /\ isthread'[q] = isthread[q]
      <4>1. /\ UNCHANGED <<state, np>>
            /\ parent' = [parent EXCEPT ![np[p]] = p]
            /\ \E d, i : pgdir' = [pgdir EXCEPT ![np[p]] = d] /\ isthread' = [isthread EXCEPT ![np[p]] = i]
        BY <2>3, Zenon DEF ForkCopies, CloneShares
      <4> QED
        BY <4>1, ZenonT(30) DEF TypeOK, KinTypes, MemoryTypes
    <3>3. /\ \A q \in Procs : q # p => at'[q] = at[q]
          /\ at'[p] \in {"fork_made", "clone_made"}
          /\ at'[p] = "clone_made" => pgdir'[np[p]] = pgdir[p]
      <4>1. CASE ForkCopies(p)
        BY <4>1, Zenon DEF ForkCopies, GoTo, TypeOK, ControlTypes
      <4>2. CASE CloneShares(p)
        BY <3>1, <4>2, <1>f, Zenon DEF CloneShares, GoTo, TypeOK, ControlTypes, MemoryTypes
      <4> QED
        BY <2>3, <4>1, <4>2, Zenon
    <3>4. ASSUME NEW q \in Procs, at'[q] = "exit" PROVE \A u \in Procs : parent'[u] # q
      BY <3>2, <3>3, <3>4, <1>x, Zenon
    <3>5. ASSUME NEW q \in Procs, Exists(q)', isthread'[q] PROVE pgdir'[parent'[q]] = pgdir'[q]
      <4>1. Exists(q) /\ q # np[p]
        BY <3>1, <3>2, <3>5, <1>f, Zenon DEF Exists, Alive
      <4>2. isthread[q] /\ parent'[q] = parent[q] /\ pgdir'[q] = pgdir[q]
        BY <3>2, <3>5, <4>1, Zenon
      <4>3. parent[q] \in Procs \ {np[p]}
        BY <3>1, <4>1, <4>2, <1>e, <1>f, Zenon
      <4> QED
        BY <3>2, <4>1, <4>2, <4>3, <1>s
    <3>6. ASSUME NEW q \in Procs, at'[q] = "clone_made" PROVE pgdir'[np'[q]] = pgdir'[q]
      <4>1. CASE q = p
        BY <3>1, <3>2, <3>3, <3>6, <4>1, <1>f, Zenon
      <4>2. CASE q # p
        <5>1. Making(q) /\ at[q] = "clone_made"
          BY <3>3, <3>6, <4>2, Zenon DEF Making
        <5>2. q # np[p] /\ np[q] \in Procs \ {np[p]}
          BY <3>1, <4>2, <5>1, <1>f, Zenon
        <5> QED
          BY <3>2, <5>1, <5>2, <1>m, Zenon
      <4> QED
        BY <4>1, <4>2, Zenon
    <3> QED
      BY <3>4, <3>5, <3>6, <1>j, Zenon
  <2>4. CASE MakeRunnable(p)
    <3>1. Making(p) /\ (isthread[np[p]] => at[p] = "clone_made") /\ parent[np[p]] = p
      BY <2>4, Zenon DEF MakeRunnable, Making, Flags, Family, Made
    <3>2. /\ UNCHANGED <<parent, isthread, pgdir>>
          /\ \A q \in Procs : q # p => np'[q] = np[q]
          /\ \A q \in Procs \ {np[p]} : state'[q] = state[q]
          /\ \A q \in Procs : at'[q] = IF q = p \/ q = np[p] THEN "user" ELSE at[q]
      BY <2>4, <3>1, <1>f, Zenon DEF MakeRunnable, TypeOK, ControlTypes
    <3>3. ASSUME NEW q \in Procs, Exists(q)', isthread[q] PROVE pgdir[parent[q]] = pgdir[q]
      <4>1. CASE q = np[p]
        BY <3>1, <3>3, <4>1, <1>m, Zenon
      <4>2. CASE q # np[p]
        BY <3>2, <3>3, <4>2, <1>s, ZenonT(30) DEF Exists, Alive
      <4> QED
        BY <4>1, <4>2, Zenon
    <3>4. \A q \in Procs : at'[q] = "exit" => \A u \in Procs : parent'[u] # q
      BY <3>2, <1>x, Zenon
    <3>5. \A q \in Procs : at'[q] = "clone_made" => pgdir'[np'[q]] = pgdir'[q]
      BY <3>2, <1>m, Zenon
    <3> QED
      BY <3>2, <3>3, <3>4, <3>5, <1>j, Zenon
  <2> QED
    BY <1>4, <2>1, <2>2, <2>3, <2>4, Zenon DEF Forking
<1>5. ASSUME NEW p \in Procs, exec(p) PROVE Joined'
  BY <1>5, <1>c, Zenon DEF exec, Calls
<1>6. ASSUME NEW p \in Procs, Waiting(p) PROVE Joined'
  <2>1. CASE CallWait(p) \/ WaitFails(p)
    <3>1. \A q \in Procs : at'[q] = at[q] \/ at'[q] \in {"wait", "user"}
      BY <2>1, Zenon DEF CallWait, WaitFails, GoTo, TypeOK, ControlTypes
    <3> QED
      BY <2>1, <3>1, <1>d, Zenon DEF CallWait, WaitFails, Exists, Alive
  <2>2. CASE Reap(p)
    <3>1. PICK z \in Procs : /\ state[z] = "ZOMBIE"
                             /\ pgdir' = [pgdir EXCEPT ![z] = NoDir]
                             /\ state' = [state EXCEPT ![z] = "UNUSED"]
                             /\ parent' = [parent EXCEPT ![z] = NoProc]
      BY <2>2, Zenon DEF Reap, Zombies, Children
    <3>2. /\ UNCHANGED <<isthread, np>> /\ parent'[z] = NoProc /\ ~Exists(z)'
          /\ \A q \in Procs \ {z} : pgdir'[q] = pgdir[q] /\ state'[q] = state[q] /\ parent'[q] = parent[q]
          /\ \A q \in Procs : at'[q] = IF q = p THEN "user" ELSE at[q]
      <4>1. /\ UNCHANGED <<isthread, np>>
            /\ \A q \in Procs : at'[q] = IF q = p THEN "user" ELSE at[q]
        <5>1. UNCHANGED <<isthread, np>> /\ at' = [at EXCEPT ![p] = "user"]
          BY <2>2, Zenon DEF Reap, GoTo
        <5> QED
          BY <5>1, Zenon DEF TypeOK, ControlTypes
      <4>2. /\ parent'[z] = NoProc /\ state'[z] = "UNUSED"
            /\ \A q \in Procs \ {z} : pgdir'[q] = pgdir[q] /\ state'[q] = state[q] /\ parent'[q] = parent[q]
        BY <3>1, Zenon DEF TypeOK, ControlTypes, KinTypes, MemoryTypes
      <4>3. ~Exists(z)'
        BY <4>2, Zenon DEF Exists, Alive
      <4> QED
        BY <4>1, <4>2, <4>3, Zenon
    <3>3. \A q \in Procs : (Alive(q) => q # z) /\ (Making(q) => q # z /\ np[q] \in Procs \ {z})
      BY <3>1, Zenon DEF Slots, Alive
    <3>4. ASSUME NEW q \in Procs, at'[q] = "exit" PROVE \A u \in Procs : parent'[u] # q
      <4>1. at[q] = "exit" /\ NoProc # q
        BY <3>2, <3>4, WorkTyped, Zenon
      <4> QED
        BY <3>2, <4>1, <1>x, Zenon
    <3>5. ASSUME NEW q \in Procs, Exists(q)', isthread[q] PROVE pgdir'[parent'[q]] = pgdir'[q]
      <4>1. q # z /\ Exists(q)
        BY <3>2, <3>5, Zenon DEF Exists, Alive
      <4>2. parent[q] \in Procs \ {z}
        BY <3>3, <3>5, <4>1, <1>e, Zenon
      <4> QED
        BY <3>2, <3>5, <4>1, <4>2, <1>s
    <3>6. ASSUME NEW q \in Procs, at'[q] = "clone_made" PROVE pgdir'[np'[q]] = pgdir'[q]
      <4>1. at[q] = "clone_made" /\ Making(q)
        BY <3>2, <3>6, Zenon DEF Making
      <4> QED
        BY <3>2, <3>3, <4>1, <1>m, Zenon
    <3> QED
      BY <3>2, <3>4, <3>5, <3>6, <1>j, Zenon
  <2>3. CASE WaitSleeps(p)
    <3>1. \A q \in Procs : Exists(q)' => Exists(q)
      BY <2>3, Zenon DEF WaitSleeps, SleepOn, TypeOK, ControlTypes, Exists, Alive
    <3> QED
      BY <2>3, <3>1, <1>d, Zenon DEF WaitSleeps
  <2> QED
    BY <1>6, <2>1, <2>2, <2>3, Zenon DEF Waiting
<1>7. ASSUME NEW p \in Procs, Sleeping(p) PROVE Joined'
  <2>1. \A q \in Procs : (Exists(q)' => Exists(q)) /\ (at'[q] = at[q] \/ at'[q] \in {"sleep", "doze", "user"})
    BY <1>7, Zenon
       DEF Sleeping, sys_sleep, SleepLoop, Doze, SleepOn, GoTo, Calls, TypeOK, ControlTypes, Exists, Alive
  <2> QED
    BY <1>7, <2>1, <1>d, Zenon DEF Sleeping, sys_sleep, SleepLoop, Doze
<1>8. ASSUME NEW p \in Procs, Exiting(p) PROVE Joined'
  <2>1. CASE CallExit(p) \/ Die(p)
    <3>1. /\ UNCHANGED <<state, parent, isthread, pgdir, np>>
          /\ \A q \in Procs : at'[q] = IF q = p THEN "exit" ELSE at[q]
          /\ \A u \in Procs : parent[u] # p
      BY <2>1, <1>c, Zenon DEF CallExit, Die, GoTo, TypeOK, ControlTypes, Children
    <3>2. \A q \in Procs : at'[q] = "exit" => \A u \in Procs : parent'[u] # q
      BY <3>1, <1>x
    <3>3. \A q \in Procs : Exists(q)' /\ isthread'[q] => pgdir'[parent'[q]] = pgdir'[q]
      BY <3>1, <1>s DEF Exists, Alive
    <3>4. \A q \in Procs : at'[q] = "clone_made" => pgdir'[np'[q]] = pgdir'[q]
      BY <3>1, <1>m
    <3> QED
      BY <3>2, <3>3, <3>4, <1>j, Zenon
  <2>2. CASE Exit(p)
    <3>1. \A q \in Procs : parent'[q] = parent[q]
      BY <2>2, ExitEffect, <1>x, Zenon
    <3>2. /\ UNCHANGED <<isthread, pgdir, at, np>>
          /\ \A q \in Procs : Exists(q)' => Exists(q)
      BY <2>2, ExitEffect, Zenon DEF Exists, Alive
    <3>3. \A q \in Procs : at'[q] = "exit" => \A u \in Procs : parent'[u] # q
      BY <3>1, <3>2, <1>x
    <3>4. \A q \in Procs : Exists(q)' /\ isthread'[q] => pgdir'[parent'[q]] = pgdir'[q]
      BY <3>1, <3>2, <1>s
    <3>5. \A q \in Procs : at'[q] = "clone_made" => pgdir'[np'[q]] = pgdir'[q]
      BY <3>2, <1>m
    <3> QED
      BY <3>3, <3>4, <3>5, <1>j, Zenon
  <2> QED
    BY <1>8, <2>1, <2>2, Zenon DEF Exiting
<1>9. ASSUME NEW p \in Procs, kill(p) PROVE Joined'
  BY <1>9, <1>c, Zenon DEF kill, Calls
<1> QED
  BY <1>1, <1>2, <1>3, <1>4, <1>5, <1>6, <1>7, <1>8, <1>9, Zenon DEF Next

-----------------------------------------------------------------------------
\* The inductive invariant holds in every reachable state.
THEOREM ProcInvariant == Spec => []IInv
<1>1. Init => IInv
  BY TypeInit, SlotsInit, SleepersInit, PidsInit, FamilyInit, NoMissedExitInit, TablesInit, ThreadsInit
    , Zenon DEF IInv
<1>2. IInv /\ [Next]_vars => IInv'
  BY TypeStep, SlotsStep, SleepersStep, PidsStep, FamilyStep, NoMissedExitStep, FlagsStep, TablesStep,
     ThreadsStep
    , Zenon DEF IInv
<1> QED
  BY <1>1, <1>2, PTL DEF Spec

\* Types are kept, in particular no slot, page table or pid is used that is not there.
THEOREM ProcTyped == Spec => []TypeOK
  BY ProcInvariant, PTL DEF IInv

\* wait() and exit(): nobody sleeps in wait with a child to collect, with no
\* child at all or when killed.
THEOREM ExitsAreNoticed == Spec => []NoMissedExit
  BY ProcInvariant, PTL DEF IInv

\* exit(): who has started always has a parent alive to collect it.
THEOREM ParentsOutlive == Spec => []ParentAlive
<1>1. IInv => ParentAlive
  BY Zenon DEF IInv, Family, ParentAlive
<1> QED
  BY <1>1, ProcInvariant, PTL

\* allocproc(): no two slots have the same pid, those left by a failed fork included.
THEOREM PidsAreDistinct == Spec => []PidsDistinct
  BY ProcInvariant, PTL DEF IInv, Pids

\* fork(), exec() and wait(): every page table allocated has exactly one owner,
\* whatever forks, fails, execs, exits and is killed.
THEOREM PageTablesHaveOneOwner == Spec => []PageTablesMatch
  BY ProcInvariant, PTL DEF IInv, Tables, PageTablesMatch

-----------------------------------------------------------------------------
INSTANCE WellFoundedInduction

\* Of the members of a set of processes one has the least pid.
LEMMA OldestExists ==
  ASSUME TypeOK, NEW S \in SUBSET Procs, S # {}
  PROVE  \E p \in S : \A q \in S : ~(pid[q] < pid[p])
<1> DEFINE R == OpToRel(<, Nat)
           T == {pid[p] : p \in S}
<1>1. T \subseteq Nat /\ T # {}
  BY DEF TypeOK, KinTypes
<1> HIDE DEF T
<1>2. IsWellFoundedOn(R, Nat)
  BY NatLessThanWellFounded, Zenon
<1>3. \A i, j \in Nat : i < j => <<i, j>> \in R
  BY Zenon DEF OpToRel
<1> HIDE DEF R
<1>4. PICK x \in T : \A y \in T : ~(<<y, x>> \in R)
  BY <1>1, <1>2, WFMin, Zenon
<1>5. \A y \in T : ~(y < x)
  BY <1>1, <1>3, <1>4, Zenon
<1> QED
  BY <1>4, <1>5, Zenon DEF T

\* clone() and wait(): the page table of a thread is its process's, which does
\* not exit before it; so no page table is freed that somebody can still use.
THEOREM UsedPageTablesAreLive == Spec => []PageTableInUseIsLive
<1>1. IInv => PageTableInUseIsLive
  <2> DEFINE S == {p \in Procs : Exists(p) /\ pgdir[p] \notin live}
  <2> SUFFICES ASSUME IInv, ThreadsAreJoined, S # {} PROVE FALSE
    BY Zenon DEF PageTableInUseIsLive, Exists
  <2>0. S \in SUBSET Procs /\ TypeOK
    BY Zenon DEF IInv
  <2> HIDE DEF S
  <2>1. PICK p \in S : \A q \in S : ~(pid[q] < pid[p])
    BY <2>0, OldestExists, Zenon
  <2>2. \A q \in Procs : Exists(q) /\ ~isthread[q] => pgdir[q] \in live
    BY OwnersAre, Zenon DEF IInv, Tables, ThreadsAreJoined
  <2>3. isthread[p] /\ "clone" \in work.calls
    BY <2>1, <2>2, Zenon DEF IInv, Flags, S
  <2>4. p # initproc
    BY <2>3, Zenon DEF IInv, Family
  <2>5. parent[p] \in Procs /\ Exists(parent[p]) /\ pid[parent[p]] < pid[p]
    BY <2>1, <2>4, Zenon DEF IInv, Family, TypeOK, KinTypes, Exists, S
  <2>6. pgdir[parent[p]] = pgdir[p]
    BY <2>1, <2>3, Zenon DEF IInv, Threads, S
  <2> QED
    BY <2>1, <2>5, <2>6, Zenon DEF S
<1> QED
  BY <1>1, ProcInvariant, PTL
=============================================================================
