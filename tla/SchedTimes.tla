----------------------------- MODULE SchedTimes -----------------------------
(***************************************************************************)
(* The times scheduler() keeps for each slot, on top of Sched: rutime at   *)
(* every dispatch; ctime, and retime or stime, in the pass over the table  *)
(* at the end of every turn; the resets of allocproc(), wait2() and        *)
(* wait3().                                                                *)
(***************************************************************************)
EXTENDS Sched

CONSTANT MaxTurns   \* bound: no process is dispatched once init's ctime has
                    \* come to MaxTurns

ASSUME TimesAssumption == MaxTurns \in Nat

VARIABLES ctime, retime, rutime, stime   \* struct proc, per slot

times == <<ctime, retime, rutime, stime>>
tvars == <<vars, times>>

TInit ==
  /\ Init
  /\ ctime = [q \in Slots |-> 0]
  /\ retime = [q \in Slots |-> 0]
  /\ rutime = [q \in Slots |-> 0]
  /\ stime = [q \in Slots |-> 0]
-----------------------------------------------------------------------------
TDispatch(c, p) ==
  /\ ctime[initproc] < MaxTurns
  /\ Dispatch(c, p)
  /\ rutime' = [rutime EXCEPT ![p] = @ + 1]
  /\ UNCHANGED <<ctime, retime, stime>>

\* Mutant: the process that ran is charged too.
WaitedAll(c, q) == TRUE

\* Slot q waited during the turn that ends on CPU c.
Waited(c, q) == pid[q] # pid[proc[c]]

Slept(q) == state[q] = "SLEEPING"

\* A slot that did not just run is charged: as sleep, or else as ready.
TBack(c) ==
  /\ SchedBack(c)
  /\ ctime' = [q \in Slots |-> ctime[q] + 1]
  /\ stime' = [q \in Slots |-> IF Waited(c, q) /\ Slept(q) THEN stime[q] + 1 ELSE stime[q]]
  /\ retime' = [q \in Slots |-> IF Waited(c, q) /\ ~ Slept(q) THEN retime[q] + 1 ELSE retime[q]]
  /\ UNCHANGED rutime

TAlloc(c, q) ==
  /\ Alloc(c, q)
  /\ ctime' = [ctime EXCEPT ![q] = 0]
  /\ retime' = [retime EXCEPT ![q] = 0]
  /\ rutime' = [rutime EXCEPT ![q] = 0]
  /\ stime' = [stime EXCEPT ![q] = 0]

\* wait() leaves the times of the slot it frees.
TWait(c, q) == Reap(c, q, priority[q]) /\ UNCHANGED times

\* wait2() and wait3() clear them, but for ctime.
TWait2(c, q) ==
  /\ Reap(c, q, 1)
  /\ retime' = [retime EXCEPT ![q] = 0]
  /\ rutime' = [rutime EXCEPT ![q] = 0]
  /\ stime' = [stime EXCEPT ![q] = 0]
  /\ UNCHANGED ctime

\* The steps that touch no time.
TOther(c) ==
  /\ \/ SchedAcquire(c) \/ SchedRelease(c) \/ TimerStep(c)
     \/ \E q \in Slots :
          \/ Yield2(c, q) \/ Sleep(c, q) \/ Exit(c, q) \/ ForkFail(c, q)
          \/ \E n \in Priorities : ForkReady(c, q, n)
          \/ \E n \in Requests : ChangePrio(c, q, n)
  /\ UNCHANGED times

TNext ==
  \/ \E c \in CPU :
       \/ TBack(c) \/ TOther(c)
       \/ \E q \in Slots : TDispatch(c, q) \/ TAlloc(c, q) \/ TWait(c, q) \/ TWait2(c, q)
  \/ \E S \in SUBSET Slots : Wakeup(S) /\ UNCHANGED times

TSpec == TInit /\ [][TNext]_tvars
-----------------------------------------------------------------------------
\* Properties

\* A turn in which q runs is still open.
Open(q) == IF \E c \in CPU : proc[c] = q THEN 1 ELSE 0

\* The books of every process balance: each turn that has ended on any CPU since
\* it was created (ctime) was charged to it once, as ready, as sleeping or as
\* running; only a turn of its own that is still open is charged in advance.
BooksBalance ==
  \A q \in Slots :
    state[q] # "UNUSED" => retime[q] + stime[q] + rutime[q] = ctime[q] + Open(q)

\* "Caso READY/RUNNABLE" (proc.c), "Tempo READY(RUNNABLE) time" (proc.h): a turn
\* is charged to the retime of a process only if it is RUNNABLE.
ReadyIsRunnable ==
  [][\A q \in Slots :
       state[q] # "UNUSED" /\ retime'[q] > retime[q] => state[q] = "RUNNABLE"]_tvars
=============================================================================
