------------------------------- MODULE Sched --------------------------------
(***************************************************************************)
(* The scheduler of this kernel: strict priorities 1..3, a time slice of   *)
(* INTERV ticks, promotion of a slot whose queue_time has reached P1TO2 or *)
(* P2TO3, and the system calls that change a priority.  A process here is  *)
(* only what the scheduler sees of it; which process may fork, reap or     *)
(* wake which is Proc's concern, and left open.                            *)
(*                                                                         *)
(* A step that a process takes with ptable.lock held is one action; the    *)
(* release by the thread that a dispatch resumes is part of the dispatch.  *)
(***************************************************************************)
EXTENDS SchedRule

CONSTANTS NPROC, NCPU,
          INTERV,     \* ticks a process is given at each dispatch
          P1TO2, P2TO3, \* thresholds of promotion
          QueueMax,   \* bound: queue_time is counted up to QueueMax
          MaxPid,     \* bound: no fork is issued once nextpid passes it
          Requests    \* priorities user programs ask change_prio for

Slots == 1..NPROC
NoProc == 0
initproc == 1
CPU == 0..NCPU - 1
NoCpu == -1
Priorities == 1..3

ProcState == {"UNUSED", "EMBRYO", "SLEEPING", "RUNNABLE", "RUNNING", "ZOMBIE"}

ASSUME SchedAssumption ==
  /\ NPROC \in Nat \ {0}
  /\ NCPU \in Nat \ {0}
  /\ INTERV \in Nat
  /\ P1TO2 \in Nat \ {0} /\ P2TO3 \in Nat \ {0}
  /\ QueueMax \in Nat /\ P1TO2 <= QueueMax /\ P2TO3 <= QueueMax
  /\ MaxPid \in Nat
  /\ Requests \subseteq Priorities

VARIABLES
  state, pid, priority, queue_time, time_slice,  \* struct proc, per slot
  nextpid,
  lock,      \* CPU that holds ptable.lock, or NoCpu
  proc,      \* proc[c]: struct cpu's proc
  where,     \* where[c]: "top", "scan", "run" or "back" of scheduler()
  pos,       \* pos[c]: the slot scheduler()'s outer loop goes on from
  used       \* used[c]: ticks since the dispatch (not in the code)

cpus == <<proc, where, pos, used>>
vars == <<state, pid, priority, queue_time, time_slice, nextpid, lock, cpus>>

\* After userinit(): init has the priority allocproc() gives.
Init ==
  /\ state = [p \in Slots |-> IF p = initproc THEN "RUNNABLE" ELSE "UNUSED"]
  /\ pid = [p \in Slots |-> IF p = initproc THEN 1 ELSE 0]
  /\ priority = [p \in Slots |-> IF p = initproc THEN 2 ELSE 0]
  /\ queue_time = [p \in Slots |-> 0]
  /\ time_slice = [p \in Slots |-> 0]
  /\ nextpid = 2
  /\ lock = NoCpu
  /\ proc = [c \in CPU |-> NoProc]
  /\ where = [c \in CPU |-> "top"]
  /\ pos = [c \in CPU |-> 1]
  /\ used = [c \in CPU |-> 0]
-----------------------------------------------------------------------------
\* Helpers

Runnable == {q \in Slots : state[q] = "RUNNABLE"}

IsFirst(q, S) == q \in S /\ \A r \in S : q <= r

\* queue_time++; a value past both thresholds is as good as QueueMax.
Count(n) == IF n < QueueMax THEN n + 1 ELSE n

\* CPU c executes p.
Runs(c, p) == where[c] = "run" /\ proc[c] = p

\* sched(): back to CPU c's scheduler, which gets ptable.lock.
Leave(c, p, s) ==
  /\ Runs(c, p)
  /\ lock = NoCpu
  /\ lock' = c
  /\ state' = [state EXCEPT ![p] = s]
  /\ where' = [where EXCEPT ![c] = "back"]
  /\ UNCHANGED <<pid, priority, queue_time, time_slice, nextpid, proc, pos, used>>
-----------------------------------------------------------------------------
\* scheduler()

SchedAcquire(c) ==
  /\ where[c] = "top"
  /\ lock = NoCpu
  /\ lock' = c
  /\ where' = [where EXCEPT ![c] = "scan"]
  /\ UNCHANGED <<state, pid, priority, queue_time, time_slice, nextpid, proc, pos, used>>

Dispatch(c, p) ==
  /\ where[c] = "scan"
  /\ Chosen(Runnable, priority, pos[c], p)
  /\ state' = [state EXCEPT ![p] = "RUNNING"]
  /\ time_slice' = [time_slice EXCEPT ![p] = INTERV]
  /\ queue_time' = [queue_time EXCEPT ![p] = Count(@)]
  /\ proc' = [proc EXCEPT ![c] = p]
  /\ where' = [where EXCEPT ![c] = "run"]
  /\ pos' = [pos EXCEPT ![c] = p]
  /\ used' = [used EXCEPT ![c] = 0]
  /\ lock' = NoCpu
  /\ UNCHANGED <<pid, priority, nextpid>>

\* The outer loop has come to the end of the table; the next one starts over.
SchedRelease(c) ==
  /\ where[c] = "scan"
  /\ \A q \in Runnable : q < pos[c]
  /\ lock' = NoCpu
  /\ where' = [where EXCEPT ![c] = "top"]
  /\ pos' = [pos EXCEPT ![c] = 1]
  /\ UNCHANGED <<state, pid, priority, queue_time, time_slice, nextpid, proc, used>>

\* Mutant: only the slots that wait are looked at.
AgingOfWaiting(q) ==
  /\ state[q] = "RUNNABLE"
  /\ \/ priority[q] = 2 /\ queue_time[q] >= P2TO3
     \/ priority[q] = 1 /\ queue_time[q] >= P1TO2

\* The slot, in use or not, is promoted in the pass over the table that ends
\* a turn.
Aging(q) ==
  \/ priority[q] = 2 /\ queue_time[q] >= P2TO3
  \/ priority[q] = 1 /\ queue_time[q] >= P1TO2

\* Mutant: the scan starts over after every turn.
Rescan(i) == 1

\* p++ in scheduler()'s outer loop.
NextSlot(i) == i + 1

\* The chosen process is back: a slot that has been dispatched often enough
\* is promoted.
SchedBack(c) ==
  /\ where[c] = "back"
  /\ priority' = [q \in Slots |-> IF Aging(q) THEN priority[q] + 1 ELSE priority[q]]
  /\ queue_time' = [q \in Slots |-> IF Aging(q) THEN 0 ELSE queue_time[q]]
  /\ proc' = [proc EXCEPT ![c] = NoProc]
  /\ where' = [where EXCEPT ![c] = "scan"]
  /\ pos' = [pos EXCEPT ![c] = NextSlot(@)]
  /\ UNCHANGED <<state, pid, time_slice, nextpid, lock, used>>
-----------------------------------------------------------------------------
\* trap(): the timer interrupt

\* Mutant: counted down without the test for 0.
TickUntested(c, p) ==
  /\ Runs(c, p)
  /\ time_slice' = [time_slice EXCEPT ![p] = @ - 1]
  /\ used' = [used EXCEPT ![c] = @ + 1]
  /\ UNCHANGED <<state, pid, priority, queue_time, nextpid, lock, proc, where, pos>>

\* The time slice is counted down without ptable.lock.
Tick(c, p) ==
  /\ Runs(c, p)
  /\ time_slice[p] # 0
  /\ time_slice' = [time_slice EXCEPT ![p] = @ - 1]
  /\ used' = [used EXCEPT ![c] = @ + 1]
  /\ UNCHANGED <<state, pid, priority, queue_time, nextpid, lock, proc, where, pos>>

Preempt(c, p) == time_slice[p] = 0 /\ Leave(c, p, "RUNNABLE")
-----------------------------------------------------------------------------
\* What the processes do

Yield2(c, p) == Leave(c, p, "RUNNABLE")

Sleep(c, p) == Leave(c, p, "SLEEPING")

\* init does not exit.
Exit(c, p) == p # initproc /\ Leave(c, p, "ZOMBIE")

\* wakeup(), or kill(), by some process or interrupt.
Wakeup(S) ==
  /\ lock = NoCpu
  /\ S # {} /\ S \subseteq {q \in Slots : state[q] = "SLEEPING"}
  /\ state' = [q \in Slots |-> IF q \in S THEN "RUNNABLE" ELSE state[q]]
  /\ UNCHANGED <<pid, priority, queue_time, time_slice, nextpid, lock, cpus>>

\* allocproc()
Alloc(c, q) ==
  /\ where[c] = "run"
  /\ lock = NoCpu
  /\ nextpid <= MaxPid
  /\ IsFirst(q, {r \in Slots : state[r] = "UNUSED"})
  /\ state' = [state EXCEPT ![q] = "EMBRYO"]
  /\ pid' = [pid EXCEPT ![q] = nextpid]
  /\ nextpid' = nextpid + 1
  /\ priority' = [priority EXCEPT ![q] = 2]
  /\ queue_time' = [queue_time EXCEPT ![q] = 0]
  /\ UNCHANGED <<time_slice, lock, cpus>>

\* allocproc() or copyuvm() fails for want of memory; the pid stays.
ForkFail(c, q) ==
  /\ where[c] = "run"
  /\ state[q] = "EMBRYO"
  /\ state' = [state EXCEPT ![q] = "UNUSED"]
  /\ UNCHANGED <<pid, priority, queue_time, time_slice, nextpid, lock, cpus>>

\* The end of fork() (priority 2) or of set_prio() (a priority from the pid).
ForkReady(c, q, n) ==
  /\ where[c] = "run"
  /\ lock = NoCpu
  /\ state[q] = "EMBRYO"
  /\ n \in {2, (pid[q] % 3) + 1}
  /\ state' = [state EXCEPT ![q] = "RUNNABLE"]
  /\ priority' = [priority EXCEPT ![q] = n]
  /\ UNCHANGED <<pid, queue_time, time_slice, nextpid, lock, cpus>>

\* wait() leaves the priority of the slot it frees; wait2() and wait3() set it.
Reap(c, q, n) ==
  /\ where[c] = "run"
  /\ lock = NoCpu
  /\ state[q] = "ZOMBIE"
  /\ n \in {priority[q], 1}
  /\ state' = [state EXCEPT ![q] = "UNUSED"]
  /\ pid' = [pid EXCEPT ![q] = 0]
  /\ priority' = [priority EXCEPT ![q] = n]
  /\ UNCHANGED <<queue_time, time_slice, nextpid, lock, cpus>>

\* Mutant: the pid is not compared.
FirstInUse(c) == {r \in Slots : pid[r] # 0}

\* The slots with the pid of the process on CPU c.
OwnSlots(c) == {r \in Slots : pid[r] = pid[proc[c]]}

\* change_prio(n), by the process on CPU c: the first slot with its pid.
ChangePrio(c, q, n) ==
  /\ where[c] = "run"
  /\ lock = NoCpu
  /\ IsFirst(q, OwnSlots(c))
  /\ priority' = [priority EXCEPT ![q] = n]
  /\ UNCHANGED <<state, pid, queue_time, time_slice, nextpid, lock, cpus>>
-----------------------------------------------------------------------------
SchedulerStep(c) ==
  \/ SchedAcquire(c) \/ SchedRelease(c) \/ SchedBack(c)
  \/ \E p \in Slots : Dispatch(c, p)

TimerStep(c) == \E p \in Slots : Tick(c, p) \/ Preempt(c, p)

ProcessStep(c) ==
  \E q \in Slots :
    \/ Yield2(c, q) \/ Sleep(c, q) \/ Exit(c, q)
    \/ Alloc(c, q) \/ ForkFail(c, q)
    \/ \E n \in Priorities : ForkReady(c, q, n) \/ Reap(c, q, n)
    \/ \E n \in Requests : ChangePrio(c, q, n)

Next ==
  \/ \E c \in CPU : SchedulerStep(c) \/ TimerStep(c) \/ ProcessStep(c)
  \/ \E S \in SUBSET Slots : Wakeup(S)

Spec == Init /\ [][Next]_vars

\* Every CPU goes on with scheduler(), and its timer goes on interrupting the
\* process it runs.  Nothing is assumed of the processes.
FairSpec ==
  /\ Spec
  /\ \A c \in CPU : WF_vars(SchedulerStep(c)) /\ WF_vars(TimerStep(c))
-----------------------------------------------------------------------------
\* Properties

\* Every variable stays in its range; a slot that was never used has priority 0.
TypeOK ==
  /\ state \in [Slots -> ProcState]
  /\ pid \in [Slots -> Nat]
  /\ priority \in [Slots -> Priorities \cup {0}]
  /\ queue_time \in [Slots -> 0..QueueMax]
  /\ time_slice \in [Slots -> 0..INTERV]
  /\ nextpid \in Nat
  /\ lock \in CPU \cup {NoCpu}
  /\ proc \in [CPU -> Slots \cup {NoProc}]
  /\ where \in [CPU -> {"top", "scan", "run", "back"}]
  /\ pos \in [CPU -> 1..NPROC + 1]
  /\ used \in [CPU -> Nat]

\* Every tick since its dispatch was charged to the time slice of the process
\* that was running, and to no other; trap() never counts a slice below zero, so
\* whoever runs has seen at most INTERV ticks and tick INTERV + 1 preempts it.
SliceCharged ==
  \A c \in CPU : where[c] = "run" =>
    used[c] + time_slice[proc[c]] = INTERV /\ used[c] <= INTERV

\* The process that is dispatched has the highest priority of all the processes
\* that are RUNNABLE at that moment, wherever in the table the scan started.
HighestDispatched ==
  [][\A c \in CPU :
       where[c] = "scan" /\ where'[c] = "run" =>
         \A q \in Runnable : priority[q] <= priority[proc'[c]]]_vars

\* The process has been dispatched as often as its level allows.
Due(q) ==
  \/ priority[q] = 1 /\ queue_time[q] >= P1TO2
  \/ priority[q] = 2 /\ queue_time[q] >= P2TO3

\* No promotion is missed: once a process is off the CPU, and the pass over the
\* table at the end of its turn is over, it is below the threshold of its level.
NoMissedPromotion ==
  \A q \in Slots :
    state[q] \in {"EMBRYO", "RUNNABLE", "SLEEPING", "ZOMBIE"} /\ Due(q) =>
      \E c \in CPU : proc[c] = q

\* Only the process itself lowers its priority, with change_prio: the kernel
\* moves a process up, one level at a time, and a search by pid never meets
\* another process.
OnlySelfDemotes ==
  [][\A q \in Slots :
       state[q] \in {"RUNNABLE", "SLEEPING", "RUNNING"} /\ priority'[q] # priority[q] =>
         priority'[q] = priority[q] + 1 \/ \E c \in CPU : Runs(c, q)]_vars

\* While all RUNNABLE processes have one and the same priority, each of them is
\* dispatched in its turn.
TurnsAmongEquals ==
  <>[](\A p, q \in Runnable : priority[p] = priority[q]) =>
    \A p \in Slots : state[p] = "RUNNABLE" ~> state[p] = "RUNNING"

\* "aumenta a prioridade de um processo caso ele nao tenha sido executado em
\* muito tempo" (report.tex): a process below priority 3 that waits to be
\* dispatched is dispatched or promoted.
WaitingIsPromoted ==
  \A p \in Slots : \A n \in 1..2 :
    state[p] = "RUNNABLE" /\ priority[p] = n ~> state[p] # "RUNNABLE" \/ priority[p] > n

\* "para evitar esse problema" (starvation, report.tex): a RUNNABLE process of
\* the highest priority there is gets a CPU.
TopIsServed ==
  \A p \in Slots : state[p] = "RUNNABLE" /\ priority[p] = 3 ~> state[p] # "RUNNABLE"
=============================================================================
