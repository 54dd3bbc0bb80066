------------------------------ MODULE MCSched ------------------------------
(***************************************************************************)
(* Sched, model-checked with one processor and with all of them: mpinit    *)
(* decides how many startothers starts.                                    *)
(***************************************************************************)
EXTENDS Sched

VARIABLE online    \* the processors that have been started

mcVars == <<vars, online>>

MCInit == Init /\ online \in {{BootCPU}, CPUs}

MCNext == (\E c \in online : Run(c) \/ Timer(c)) /\ UNCHANGED online

On(c, A) == c \in online /\ A /\ UNCHANGED online

\* Every CPU goes on executing; a timer interrupt stays pending until the CPU
\* takes it; and the interrupted code gets further between two of them.
MCFairSpec ==
  /\ MCInit /\ [][MCNext]_mcVars
  /\ \A c \in CPUs : /\ WF_mcVars(On(c, Run(c))) /\ SF_mcVars(On(c, Timer(c)))
                     /\ SF_mcVars(On(c, fl[c] /\ (Sti(c) \/ Enter(c))))

\* With one processor the scan of the table reaches every process: a RUNNABLE
\* one is run, and one that sleeps on ticks is woken and run.  With several, a
\* processor can lose every xchg on ptable.lock.
EveryoneRuns ==
  \A p \in Procs :
    (online = {BootCPU} /\ state[p] \in {"RUNNABLE", "SLEEPING"}) ~> (state[p] = "RUNNING")
=============================================================================
