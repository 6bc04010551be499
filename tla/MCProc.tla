------------------------------- MODULE MCProc -------------------------------
(***************************************************************************)
(* Workloads for Proc: which calls the program in each slot may issue.     *)
(* Slot 1 is init, which forks and reaps for ever (init.c).                *)
(***************************************************************************)
EXTENDS Proc

Workload(init, others) ==
  [p \in 1..NPROC |-> IF p = 1 THEN init ELSE others]

\* init and its child sleep, yield, kill each other and come and go.
SleepProgram == Workload({"fork", "wait", "sleep"}, {"sleep", "yield", "kill", "exit"})

\* Four generations.  A zombie may go to init from a process that is not init's
\* child, so that nothing but the exit itself tells init of it.
TreeProgram ==
  <<{"fork", "wait"}, {"fork", "wait", "exit"}, {"fork", "fault"}, {"exit"}>>

\* Two processes that only sleep, and a user loop.
TimerProgram == Workload({"fork", "sleep"}, {"sleep"})

\* Processes that kill each other.
KillProgram == Workload({"fork", "wait"}, {"exit", "kill"})
=============================================================================
