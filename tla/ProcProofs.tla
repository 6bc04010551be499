----------------------------- MODULE ProcProofs -----------------------------
(***************************************************************************)
(* The inductive invariant is preserved by exit(), wait(), kill(), yield(),*)
(* sleep() and the interrupt path of trap(), hence by every step of Proc;  *)
(* the theorems that follow.  And nobody sleeps in sys_sleep through the   *)
(* tick that ends the sleep, for any width of the counter: tickslock is    *)
(* held from the test of its loop until ptable.lock is.                    *)
(***************************************************************************)
EXTENDS ProcInvariant

USE DEF attrs, table, cpus, frame, threads, clock, At, Goto
-----------------------------------------------------------------------------
\* exit(), wait(), kill()

\* IInv is preserved: exit() ends in sched().
LEMMA ExitStep ==
  ASSUME IInv, NEW c \in CPU, NEW p \in Slots, Exit(c, p)
  PROVE  IInv'
  <1>0. /\ state[p] = "RUNNING"
        /\ lock = c <=> pc[p] \in Handover
        /\ tickslock = c <=> pc[p] \in {"wake", "sleep.lock"}
    BY OnCpu DEF Exit
  <1>1. TypeOK'
    BY ProcAssumption, Consts DEF IInv, TypeOK, Labels, ProcState, Exit, Sched, ExitStates, Reparent
  <1>2. Switches(c, p, "zombie")
    BY <1>0, Consts DEF IInv, TypeOK, Exit, Sched, Switches, LeavesCpu, Handover,
       ResumeInv, ResumeOK, Handler, ExitStates
  <1> QED BY <1>1, <1>2, SwitchOut

\* IInv is preserved: panic("init exiting").
LEMMA ExitInitStep ==
  ASSUME IInv, NEW c \in CPU, NEW p \in Slots, ExitInit(c, p)
  PROVE  IInv'
  <1>0. /\ state[p] = "RUNNING"
        /\ lock = c <=> pc[p] \in Handover
        /\ tickslock = c <=> pc[p] \in {"wake", "sleep.lock"}
    BY OnCpu DEF ExitInit
  <1>1. TypeOK'
    BY ProcAssumption DEF IInv, TypeOK, Labels, ExitInit
  <1>2. StaysLocal(c, p)
    BY <1>0, Consts DEF IInv, TypeOK, ExitInit, StaysLocal, KeepsCpu, Handover,
       ResumeInv, ResumeOK, Handler
  <1> QED BY <1>1, <1>2, LocalStep

\* IInv is preserved: one round of wait()'s loop, entered with ptable.lock free
\* or handed over.
LEMMA WaitRoundStep ==
  ASSUME IInv, NEW c \in CPU, NEW p \in Slots,
         where[c] = "run", proc[c] = p,
         \/ pc[p] = "wait" /\ lock = NoCpu
         \/ pc[p] = "wait.resume" /\ lock = c,
         WaitRound(c, p),
         UNCHANGED <<nextpid, clock, proc, pos, resume, child, until>>
  PROVE  IInv'
  <1>0. /\ state[p] = "RUNNING"
        /\ \A q \in Slots : child[q] # p
        /\ tickslock # c
        /\ resume[p] = "none"
    BY OnCpu DEF IInv, ResumeInv, ResumeOK, Handler
  <1>a. ASSUME NEW q \in Slots, Reap(p, q),
               chan' = [chan EXCEPT ![p] = 0],
               pc' = [pc EXCEPT ![p] = "return"],
               lock' = NoCpu, UNCHANGED where
        PROVE  IInv'
    <2>0. /\ state[q] = "ZOMBIE"
          /\ state' = [state EXCEPT ![q] = "UNUSED"]
          /\ pid' = [pid EXCEPT ![q] = 0]
          /\ parent' = [parent EXCEPT ![q] = NoProc]
          /\ killed' = [killed EXCEPT ![q] = FALSE]
      BY <1>a DEF Reap, IsFirst, ZombieChildren
    <2>1. TypeOK'
      BY <1>a, <2>0 DEF IInv, TypeOK, ProcState, Labels
    <2>2. KeepsCpu(c, p)
      BY <1>0, <1>a, <2>0, Consts DEF IInv, TypeOK, KeepsCpu, Handover
    <2>3. ResumeInv'
      BY <1>0, <1>a DEF IInv, TypeOK, ResumeInv, ResumeOK
    <2>4. ThreadInv'
      BY <1>0, <1>a, <2>0 DEF IInv, TypeOK, ThreadInv, Handover
    <2>5. ChildInv'
      BY <2>0 DEF IInv, TypeOK, ChildInv
    <2>6. ForkInv'
      BY <1>0, <1>a DEF IInv, TypeOK, ForkInv, ForkOK
    <2> QED BY <2>1, <2>2, <2>3, <2>4, <2>5, <2>6, StayOnCpu DEF IInv
  <1>b. CASE /\ chan' = [chan EXCEPT ![p] = 0]
             /\ pc' = [pc EXCEPT ![p] = "return"]
             /\ lock' = NoCpu
             /\ UNCHANGED <<state, pid, parent, killed, where>>
    <2>1. TypeOK'
      BY <1>b DEF IInv, TypeOK, Labels
    <2>2. StaysLocal(c, p)
      BY <1>0, <1>b, Consts, SMTT(20) DEF IInv, TypeOK, StaysLocal, KeepsCpu, Handover,
         ResumeOK
    <2> QED BY <2>1, <2>2, LocalStep
  <1>c. CASE /\ chan' = [chan EXCEPT ![p] = p]
             /\ state' = [state EXCEPT ![p] = "SLEEPING"]
             /\ Sched(c, p, "wait.resume")
             /\ UNCHANGED <<pid, parent, killed>>
    <2>1. TypeOK'
      BY <1>c DEF IInv, TypeOK, ProcState, Labels, Sched
    <2>2. Switches(c, p, "wait.resume")
      BY <1>0, <1>c, Consts, SMTT(20) DEF IInv, TypeOK, Switches, LeavesCpu, Handover,
         ResumeOK
    <2> QED BY <2>1, <2>2, SwitchOut
  <1> QED BY <1>a, <1>b, <1>c DEF WaitRound

\* IInv is preserved: wait() takes the lock.
LEMMA WaitStep ==
  ASSUME IInv, NEW c \in CPU, NEW p \in Slots, Wait(c, p)
  PROVE  IInv'
  BY WaitRoundStep DEF Wait

\* IInv is preserved: wait() goes on after sleep().
LEMMA WaitResumeStep ==
  ASSUME IInv, NEW c \in CPU, NEW p \in Slots, WaitResume(c, p)
  PROVE  IInv'
  <1>1. lock = c
    BY OnCpu DEF WaitResume, Handover
  <1> QED BY <1>1, WaitRoundStep DEF WaitResume

\* IInv is preserved: kill() wakes a sleeper.
LEMMA KillStep ==
  ASSUME IInv, NEW c \in CPU, NEW p \in Slots, Kill(c, p)
  PROVE  IInv'
  <1>0. /\ state[p] = "RUNNING"
        /\ lock = c <=> pc[p] \in Handover
        /\ tickslock = c <=> pc[p] \in {"wake", "sleep.lock"}
    BY OnCpu DEF Kill
  <1>a. PICK q \in Slots :
          \/ UNCHANGED <<state, killed>>
          \/ /\ killed' = [killed EXCEPT ![q] = TRUE]
             /\ state' = [state EXCEPT ![q] =
                            IF state[q] = "SLEEPING" THEN "RUNNABLE" ELSE state[q]]
    BY Zenon DEF Kill
  <1>b. /\ At(c, p, "kill") /\ lock = NoCpu
        /\ pc' = [pc EXCEPT ![p] = "return"]
        /\ UNCHANGED <<pid, parent, chan, nextpid, lock, clock, cpus, resume, frame>>
    BY DEF Kill
  <1>c. /\ state' \in [Slots -> ProcState] /\ killed' \in [Slots -> BOOLEAN]
        /\ \A r \in Slots : \/ state'[r] = state[r]
                            \/ state[r] = "SLEEPING" /\ state'[r] = "RUNNABLE"
    <2>0. state \in [Slots -> ProcState] /\ killed \in [Slots -> BOOLEAN]
      BY DEF IInv, TypeOK
    <2>1. CASE UNCHANGED <<state, killed>> BY <2>0, <2>1
    <2>2. CASE /\ killed' = [killed EXCEPT ![q] = TRUE]
               /\ state' = [state EXCEPT ![q] =
                              IF state[q] = "SLEEPING" THEN "RUNNABLE" ELSE state[q]]
      BY <2>0, <2>2 DEF ProcState
    <2> QED BY <1>a, <2>1, <2>2
  <1>1. TypeOK'
    BY <1>b, <1>c, ProcAssumption, Zenon DEF IInv, TypeOK, Labels
  <1>2. StaysLocal(c, p)
    BY <1>0, <1>b, <1>c, Consts, SMTT(20) DEF IInv, TypeOK, StaysLocal, KeepsCpu, Handover,
       ResumeInv, ResumeOK, Handler
  <1> QED BY <1>1, <1>2, LocalStep

-----------------------------------------------------------------------------
\* yield(), sleep()

\* IInv is preserved: yield() ends in sched().
LEMMA YieldStep ==
  ASSUME IInv, NEW c \in CPU, NEW p \in Slots, Yield(c, p)
  PROVE  IInv'
  <1>0. /\ state[p] = "RUNNING"
        /\ lock = c <=> pc[p] \in Handover
        /\ tickslock = c <=> pc[p] \in {"wake", "sleep.lock"}
    BY OnCpu DEF Yield
  <1>1. TypeOK'
    BY ProcAssumption, Consts DEF IInv, TypeOK, Labels, ProcState, Yield, Sched
  <1>2. Switches(c, p, "yield.resume")
    BY <1>0, Consts DEF IInv, TypeOK, Yield, Sched, Switches, LeavesCpu, Handover,
       ResumeInv, ResumeOK, Handler
  <1> QED BY <1>1, <1>2, SwitchOut

\* IInv is preserved: yield() releases the lock it was handed.
LEMMA YieldResumeStep ==
  ASSUME IInv, NEW c \in CPU, NEW p \in Slots, YieldResume(c, p)
  PROVE  IInv'
  <1>0. /\ state[p] = "RUNNING"
        /\ lock = c <=> pc[p] \in Handover
        /\ tickslock = c <=> pc[p] \in {"wake", "sleep.lock"}
    BY OnCpu DEF YieldResume
  <1>1. TypeOK'
    BY ProcAssumption DEF IInv, TypeOK, Labels, YieldResume
  <1>2. StaysLocal(c, p)
    BY <1>0, Consts DEF IInv, TypeOK, YieldResume, StaysLocal, KeepsCpu, Handover,
       ResumeInv, ResumeOK, Handler
  <1> QED BY <1>1, <1>2, LocalStep

\* The test of sys_sleep's loop leaves a well-formed frame.
LEMMA SleepTestTypes ==
  ASSUME TypeOK, NEW c \in CPU, NEW p \in Slots,
         NEW t \in 0..TickMod - 1, NEW n \in Nat, SleepTest(c, p, t, n)
  PROVE  /\ pc' \in [Slots -> Labels]
         /\ until' \in [Slots -> (0..TickMod - 1) \X Nat]
  <1>1. <<t, n>> \in (0..TickMod - 1) \X Nat /\ <<0, 0>> \in (0..TickMod - 1) \X Nat
    BY ProcAssumption
  <1>2. PICK u \in (0..TickMod - 1) \X Nat, l \in {"sleep.lock", "return"} :
          until' = [until EXCEPT ![p] = u] /\ pc' = [pc EXCEPT ![p] = l]
    BY <1>1 DEF SleepTest
  <1> QED BY <1>2 DEF TypeOK, Labels

\* IInv is preserved: sys_sleep() takes tickslock and tests.
LEMMA SysSleepStep ==
  ASSUME IInv, NEW c \in CPU, NEW p \in Slots, SysSleep(c, p)
  PROVE  IInv'
  <1>0. /\ state[p] = "RUNNING"
        /\ lock = c <=> pc[p] \in Handover
        /\ tickslock = c <=> pc[p] \in {"wake", "sleep.lock"}
    BY OnCpu DEF SysSleep
  <1>a. PICK n \in SleepTicks : SleepTest(c, p, ticks, n)
    BY DEF SysSleep
  <1>b. n \in Nat /\ ticks \in 0..TickMod - 1
    BY ProcAssumption DEF IInv, TypeOK
  <1>c. pc' \in [Slots -> Labels] /\ until' \in [Slots -> (0..TickMod - 1) \X Nat]
    BY <1>a, <1>b, SleepTestTypes DEF IInv
  <1>d. \/ pc' = [pc EXCEPT ![p] = "sleep.lock"] /\ tickslock' = c
        \/ pc' = [pc EXCEPT ![p] = "return"] /\ tickslock' = NoCpu
    BY <1>a DEF SleepTest
  <1>1. TypeOK'
    BY <1>c, <1>d, Consts DEF IInv, TypeOK, SysSleep
  <1>2. StaysLocal(c, p)
    BY <1>0, <1>d, Consts, SMTT(30) DEF IInv, TypeOK, SysSleep, StaysLocal, KeepsCpu, Handover,
       ResumeInv, ResumeOK, Handler
  <1> QED BY <1>1, <1>2, LocalStep

\* IInv is preserved: sleep() exchanges tickslock for ptable.lock and ends in sched().
LEMMA SleepStep ==
  ASSUME IInv, NEW c \in CPU, NEW p \in Slots, Sleep(c, p)
  PROVE  IInv'
  <1>0. /\ state[p] = "RUNNING"
        /\ lock = c <=> pc[p] \in Handover
        /\ tickslock = c <=> pc[p] \in {"wake", "sleep.lock"}
    BY OnCpu DEF Sleep
  <1>1. TypeOK'
    BY ProcAssumption, Consts DEF IInv, TypeOK, Labels, ProcState, Sleep, Sched
  <1>2. Switches(c, p, "sleep.resume")
    BY <1>0, Consts, SMTT(20) DEF IInv, TypeOK, Sleep, Sched, Switches, LeavesCpu, Handover,
       ResumeInv, ResumeOK, Handler
  <1> QED BY <1>1, <1>2, SwitchOut

\* IInv is preserved: sleep() releases the lock it was handed.
LEMMA SleepResumeStep ==
  ASSUME IInv, NEW c \in CPU, NEW p \in Slots, SleepResume(c, p)
  PROVE  IInv'
  <1>0. /\ state[p] = "RUNNING"
        /\ lock = c <=> pc[p] \in Handover
        /\ tickslock = c <=> pc[p] \in {"wake", "sleep.lock"}
    BY OnCpu DEF SleepResume
  <1>1. TypeOK'
    BY ProcAssumption DEF IInv, TypeOK, Labels, SleepResume
  <1>2. StaysLocal(c, p)
    BY <1>0, Consts, SMTT(30) DEF IInv, TypeOK, SleepResume, StaysLocal, KeepsCpu, Handover,
       ResumeInv, ResumeOK, Handler
  <1> QED BY <1>1, <1>2, LocalStep

\* IInv is preserved: sleep() takes tickslock back.
LEMMA SleepRelockStep ==
  ASSUME IInv, NEW c \in CPU, NEW p \in Slots, SleepRelock(c, p)
  PROVE  IInv'
  <1>0. /\ state[p] = "RUNNING"
        /\ lock = c <=> pc[p] \in Handover
        /\ tickslock = c <=> pc[p] \in {"wake", "sleep.lock"}
    BY OnCpu DEF SleepRelock
  <1>a. SleepTest(c, p, until[p][1], until[p][2])
    BY DEF SleepRelock
  <1>b. until[p][1] \in 0..TickMod - 1 /\ until[p][2] \in Nat
    BY DEF IInv, TypeOK
  <1>c. pc' \in [Slots -> Labels] /\ until' \in [Slots -> (0..TickMod - 1) \X Nat]
    BY <1>a, <1>b, SleepTestTypes DEF IInv
  <1>d. \/ pc' = [pc EXCEPT ![p] = "sleep.lock"] /\ tickslock' = c
        \/ pc' = [pc EXCEPT ![p] = "return"] /\ tickslock' = NoCpu
    BY <1>a DEF SleepTest
  <1>1. TypeOK'
    BY <1>c, <1>d, Consts DEF IInv, TypeOK, SleepRelock
  <1>2. StaysLocal(c, p)
    BY <1>0, <1>d, Consts, SMTT(30) DEF IInv, TypeOK, SleepRelock, StaysLocal, KeepsCpu, Handover,
       ResumeInv, ResumeOK, Handler
  <1> QED BY <1>1, <1>2, LocalStep

-----------------------------------------------------------------------------
\* The timer interrupt

\* IInv is preserved: an interrupt of an idle CPU.
LEMMA TimerIdleStep ==
  ASSUME IInv, NEW c \in CPU, TimerIdle(c)
  PROVE  IInv'
  <1> USE Consts DEF IInv, TimerIdle, InterruptsOn
  <1>1. TypeOK'
    BY ProcAssumption DEF TypeOK, ProcState
  <1>2. LockHandover'
    BY DEF TypeOK, LockHandover, HoldsPtable, HoldsTicks
  <1>3. RunsOnOneCpu'
    BY DEF TypeOK, RunsOnOneCpu
  <1>4. CpuInv'
    BY DEF TypeOK, CpuInv
  <1>5. ResumeInv' /\ ThreadInv' /\ ChildInv' /\ ForkInv'
    BY DEF TypeOK, ResumeInv, ThreadInv, ChildInv, ForkInv
  <1> QED BY <1>1, <1>2, <1>3, <1>4, <1>5, Zenon

\* IInv is preserved: an interrupt of a process.
LEMMA TimerStep ==
  ASSUME IInv, NEW c \in CPU, NEW p \in Slots, ~ panicked, Timer(c, p)
  PROVE  IInv'
  <1>0. /\ state[p] = "RUNNING"
        /\ lock = c <=> pc[p] \in Handover
        /\ tickslock = c <=> pc[p] \in {"wake", "sleep.lock"}
    BY OnCpu DEF Timer
  <1>l. pc[p] \in Interruptible
    BY <1>0, Consts DEF IInv, TypeOK, Timer, InterruptsOn, panicked, Labels, Handover,
       ThreadInv, ResumeInv, ResumeOK, Interruptible
  <1>1. TypeOK'
    BY <1>l, ProcAssumption DEF IInv, TypeOK, Labels, Timer
  <1>2. StaysLocal(c, p)
    BY <1>0, <1>l, Consts DEF IInv, TypeOK, Timer, StaysLocal, KeepsCpu, Handover,
       ResumeInv, ResumeOK, Handler, InterruptsOn, Interruptible
  <1> QED BY <1>1, <1>2, LocalStep

\* IInv is preserved: ticks++ on an idle CPU.
LEMMA IdleTickStep ==
  ASSUME IInv, NEW c \in CPU, IdleTick(c)
  PROVE  IInv'
  <1> USE Consts DEF IInv, IdleTick, TickCount
  <1>1. TypeOK'
    BY ProcAssumption DEF TypeOK, ProcState
  <1>2. LockHandover'
    BY DEF TypeOK, LockHandover, HoldsPtable, HoldsTicks
  <1>3. RunsOnOneCpu'
    BY DEF TypeOK, RunsOnOneCpu
  <1>4. CpuInv'
    BY DEF TypeOK, CpuInv
  <1>5. ResumeInv' /\ ThreadInv' /\ ChildInv' /\ ForkInv'
    BY DEF TypeOK, ResumeInv, ThreadInv, ChildInv, ForkInv
  <1> QED BY <1>1, <1>2, <1>3, <1>4, <1>5

\* IInv is preserved: wakeup(&ticks) on an idle CPU.
LEMMA IdleWakeupStep ==
  ASSUME IInv, NEW c \in CPU, IdleWakeup(c)
  PROVE  IInv'
  <1> USE Consts DEF IInv, IdleWakeup, TickWakeup, Wakeup1
  <1>1. TypeOK'
    BY ProcAssumption DEF TypeOK, ProcState
  <1>2. LockHandover'
    BY DEF TypeOK, LockHandover, HoldsPtable, HoldsTicks
  <1>3. RunsOnOneCpu'
    BY DEF TypeOK, RunsOnOneCpu
  <1>4. CpuInv'
    BY DEF TypeOK, CpuInv
  <1>5. ResumeInv' /\ ThreadInv' /\ ChildInv' /\ ForkInv'
    BY DEF TypeOK, ResumeInv, ThreadInv, ChildInv, ForkInv
  <1> QED BY <1>1, <1>2, <1>3, <1>4, <1>5

\* IInv is preserved: ticks++ over a process.
LEMMA TickStep ==
  ASSUME IInv, NEW c \in CPU, NEW p \in Slots, Tick(c, p)
  PROVE  IInv'
  <1>0. /\ state[p] = "RUNNING"
        /\ lock = c <=> pc[p] \in Handover
        /\ tickslock = c <=> pc[p] \in {"wake", "sleep.lock"}
    BY OnCpu DEF Tick
  <1>1. TypeOK'
    BY ProcAssumption DEF IInv, TypeOK, Labels, Tick, TickCount
  <1>2. StaysLocal(c, p)
    BY <1>0, Consts DEF IInv, TypeOK, Tick, StaysLocal, KeepsCpu, Handover,
       ResumeInv, ResumeOK, Handler, TickCount
  <1> QED BY <1>1, <1>2, LocalStep

\* IInv is preserved: wakeup(&ticks) over a process.
LEMMA WakeupStep ==
  ASSUME IInv, NEW c \in CPU, NEW p \in Slots, Wakeup(c, p)
  PROVE  IInv'
  <1>0. /\ state[p] = "RUNNING"
        /\ lock = c <=> pc[p] \in Handover
        /\ tickslock = c <=> pc[p] \in {"wake", "sleep.lock"}
    BY OnCpu DEF Wakeup
  <1>1. TypeOK'
    BY ProcAssumption DEF IInv, TypeOK, Labels, Wakeup, TickWakeup, Wakeup1, ProcState
  <1>2. StaysLocal(c, p)
    BY <1>0, Consts, SMTT(30) DEF IInv, TypeOK, Wakeup, StaysLocal, KeepsCpu, Handover,
       ResumeInv, ResumeOK, Handler, TickWakeup, Wakeup1
  <1> QED BY <1>1, <1>2, LocalStep

\* IInv is preserved: the end of the handler, before yield().
LEMMA TailStep ==
  ASSUME IInv, NEW c \in CPU, NEW p \in Slots, Tail(c, p)
  PROVE  IInv'
  <1>0. /\ state[p] = "RUNNING"
        /\ lock = c <=> pc[p] \in Handover
        /\ tickslock = c <=> pc[p] \in {"wake", "sleep.lock"}
    BY OnCpu, Zenon DEF Tail
  <1>a. pc' \in [Slots -> Labels]
    BY DEF IInv, TypeOK, Labels, Tail
  <1>1. TypeOK'
    BY <1>a DEF IInv, TypeOK, Tail
  <1>2. StaysLocal(c, p)
    BY <1>0, Consts, SMTT(30) DEF IInv, TypeOK, Tail, StaysLocal, KeepsCpu, Handover,
       ResumeInv, ResumeOK, Handler
  <1> QED BY <1>1, <1>2, LocalStep

\* IInv is preserved: return from the interrupt.
LEMMA IretStep ==
  ASSUME IInv, NEW c \in CPU, NEW p \in Slots, Iret(c, p)
  PROVE  IInv'
  <1>0. /\ state[p] = "RUNNING"
        /\ lock = c <=> pc[p] \in Handover
        /\ tickslock = c <=> pc[p] \in {"wake", "sleep.lock"}
    BY OnCpu, Zenon DEF Iret
  <1>a. resume[p] \in Interruptible
    BY DEF IInv, Iret, ResumeInv, ResumeOK
  <1>b. pc' \in [Slots -> Labels] /\ resume' \in [Slots -> Labels \cup {"none"}]
    <2>1. PICK l \in Interruptible, r \in {resume[p], "none"} :
            pc' = [pc EXCEPT ![p] = l] /\ resume' = [resume EXCEPT ![p] = r]
      <3>1. resume = [resume EXCEPT ![p] = resume[p]]
        BY DEF IInv, TypeOK
      <3> QED BY <1>a, <3>1 DEF Iret, Interruptible
    <2> QED BY <2>1, SMTT(30) DEF IInv, TypeOK, Labels, Interruptible
  <1>1. TypeOK'
    BY <1>b DEF IInv, TypeOK, Iret
  <1>2. StaysLocal(c, p)
    BY <1>0, <1>a, Consts DEF IInv, TypeOK, Iret, StaysLocal, KeepsCpu, Handover,
       ResumeInv, ResumeOK, Handler, Interruptible
  <1> QED BY <1>1, <1>2, LocalStep

-----------------------------------------------------------------------------
\* Every step of the kernel preserves the invariant.
LEMMA Inductive == IInv /\ [Next]_vars => IInv'
  <1> SUFFICES ASSUME IInv, [Next]_vars PROVE IInv'
    OBVIOUS
  <1>1. CASE UNCHANGED vars
    <2> USE <1>1 DEF vars
    <2>1. TypeOK' BY SMTT(30) DEF IInv, TypeOK
    <2>2. LockHandover' BY Zenon DEF IInv, LockHandover, HoldsPtable, HoldsTicks
    <2>3. RunsOnOneCpu' /\ CpuInv' BY DEF IInv, RunsOnOneCpu, CpuInv
    <2>4. ResumeInv' /\ ThreadInv' BY DEF IInv, ResumeInv, ThreadInv
    <2>5. ChildInv' /\ ForkInv' BY DEF IInv, ChildInv, ForkInv
    <2> QED BY <2>1, <2>2, <2>3, <2>4, <2>5 DEF IInv
  <1>2. ASSUME NEW c \in CPU, ~ panicked, CpuStep(c) PROVE IInv'
    <2>1. CASE SchedulerStep(c)
      BY <2>1, SchedAcquireStep, SchedReleaseStep, SchedBackStep, SchedPickStep,
         IdleTickStep, IdleWakeupStep DEF SchedulerStep
    <2>2. CASE Interrupt(c)
      BY <1>2, <2>2, TimerIdleStep, TimerStep DEF Interrupt
    <2>3. ASSUME NEW p \in Slots, KernelStep(c, p) PROVE IInv'
      BY <2>3, SyscallReturnStep, ForkAllocStep, ForkFailStep, ForkCopyStep,
         ForkReadyStep, ForkretStep, ExitStep, ExitInitStep, WaitStep,
         WaitResumeStep, KillStep, YieldStep, YieldResumeStep, SysSleepStep,
         SleepStep, SleepResumeStep, SleepRelockStep, TickStep, WakeupStep,
         TailStep, IretStep DEF KernelStep
    <2>4. ASSUME NEW p \in Slots, UserStep(c, p) PROVE IInv'
      BY <2>4, SyscallStep, FaultStep DEF UserStep
    <2> QED BY <1>2, <2>1, <2>2, <2>3, <2>4 DEF CpuStep
  <1> QED BY <1>1, <1>2 DEF Next, Halted

\* The inductive invariant holds in every reachable state.
THEOREM Invariance == Spec => []IInv
  BY InitIInv, Inductive, PTL DEF Spec

\* Every variable of the process table keeps its type, for any number of slots
\* and CPUs.
THEOREM TypeCorrect == Spec => []TypeOK
  <1>1. IInv => TypeOK BY DEF IInv
  <1> QED BY <1>1, Invariance, PTL

\* ptable.lock and tickslock are held exactly by the CPU whose code is between
\* an acquire and the matching release, although swtch hands ptable.lock over
\* from one thread to another: none of the lock panics of acquire(), release()
\* and sched() can happen.
THEOREM LockSafety == Spec => []LockHandover
  <1>1. IInv => LockHandover BY DEF IInv
  <1> QED BY <1>1, Invariance, PTL

\* No process ever runs on two CPUs, and no CPU runs on the kernel stack of a
\* slot that wait() has freed.
THEOREM StackSafety == Spec => []RunsOnOneCpu
  <1>1. IInv => RunsOnOneCpu BY DEF IInv
  <1> QED BY <1>1, Invariance, PTL
-----------------------------------------------------------------------------
\* sys_sleep and the ticks

\* The time p sleeps for has not passed.
Early(p) == (ticks - until[p][1]) % TickMod < until[p][2]

\* A process that has made the test and not yet slept holds tickslock, so that
\* the test still stands.
TickInv ==
  /\ NoLostTick
  /\ \A p \in Slots : pc[p] = "sleep.lock" => Early(p)

\* A step that counts no tick, puts nobody to sleep for one, makes no test and
\* does not end the handler of a tick.
KeepsTicks ==
  /\ UNCHANGED ticks
  /\ \A p \in Slots : state'[p] = "SLEEPING" /\ chan'[p] = tickschan =>
       state[p] = "SLEEPING" /\ chan[p] = tickschan /\ until'[p] = until[p]
  /\ \A p \in Slots : pc'[p] = "sleep.lock" => pc[p] = "sleep.lock" /\ until'[p] = until[p]
  /\ \A d \in CPU : TickPending(d) => TickPending(d)'

\* Such a step loses no tick.
LEMMA KeptTicks ==
  ASSUME TickInv, KeepsTicks
  PROVE  TickInv'
  <1>1. NoLostTick'
    <2> SUFFICES ASSUME NEW p \in Slots, state'[p] = "SLEEPING", chan'[p] = tickschan,
                        ~ \E d \in CPU : TickPending(d)'
                 PROVE  (ticks' - until'[p][1]) % TickMod < until'[p][2]
      BY DEF NoLostTick, tickschan
    <2>1. /\ state[p] = "SLEEPING" /\ chan[p] = tickschan /\ until'[p] = until[p]
          /\ ticks' = ticks /\ ~ \E d \in CPU : TickPending(d)
      BY DEF KeepsTicks
    <2> QED BY <2>1 DEF TickInv, NoLostTick
  <1>2. \A p \in Slots : pc'[p] = "sleep.lock" => Early(p)'
    BY DEF TickInv, KeepsTicks, Early
  <1> QED BY <1>1, <1>2 DEF TickInv

\* After boot nobody sleeps.
LEMMA InitTicks == Init => TickInv
  BY Consts DEF Init, TickInv, NoLostTick

\* A step of a process that is not in the handler of a tick leaves the handlers
\* of other CPUs where they are.
LEMMA PendingKept ==
  ASSUME IInv, NEW c \in CPU, NEW p \in Slots,
         where[c] = "run", proc[c] = p, pc[p] # "wake",
         \A d \in CPU : d # c => where'[d] = where[d] /\ proc'[d] = proc[d],
         \A q \in Slots : q # p => pc'[q] = pc[q] \/ state[q] # "RUNNING"
  PROVE  \A d \in CPU : TickPending(d) => TickPending(d)'
  <1> SUFFICES ASSUME NEW d \in CPU, TickPending(d) PROVE TickPending(d)'
    OBVIOUS
  <1>1. d # c
    BY DEF TickPending
  <1>2. where'[d] = where[d] /\ proc'[d] = proc[d]
    BY <1>1
  <1>3. CASE where[d] = "wake"
    BY <1>2, <1>3 DEF TickPending
  <1>4. CASE where[d] = "run" /\ pc[proc[d]] = "wake"
    <2>1. PICK q \in Slots : q = proc[d]
      BY <1>4, Consts, SMTT(30) DEF IInv, CpuInv, TypeOK
    <2>2. q # p /\ state[q] = "RUNNING"
      BY <1>1, <1>4, <2>1, OnCpu, SMTT(30)
    <2>3. pc'[q] = "wake"
      BY <1>4, <2>1, <2>2, ZenonT(30)
    <2> QED BY <1>2, <1>4, <2>1, <2>3 DEF TickPending
  <1> QED BY <1>3, <1>4 DEF TickPending
-----------------------------------------------------------------------------
\* scheduler(), and the handler on an idle CPU

\* The steps of the scheduler thread lose no tick.
LEMMA SchedulerTicks ==
  ASSUME IInv, TickInv, NEW c \in CPU,
         \/ SchedAcquire(c) \/ SchedRelease(c) \/ SchedBack(c) \/ TimerIdle(c)
         \/ \E p \in Slots : SchedPick(c, p)
  PROVE  TickInv'
  <1>1. /\ UNCHANGED <<chan, ticks, pc, until>>
        /\ where[c] \in {"top", "scan", "back"}
        /\ \A d \in CPU : d # c => where'[d] = where[d] /\ proc'[d] = proc[d]
    BY SMTT(30) DEF SchedAcquire, SchedRelease, SchedBack, TimerIdle, SchedPick, IInv, TypeOK
  <1>2. \A q \in Slots : state'[q] = "SLEEPING" => state[q] = "SLEEPING"
    BY SMTT(30) DEF SchedAcquire, SchedRelease, SchedBack, TimerIdle, SchedPick, IInv, TypeOK
  <1>3. \A d \in CPU : TickPending(d) => TickPending(d)'
    BY <1>1, Zenon DEF TickPending
  <1> QED BY <1>1, <1>2, <1>3, KeptTicks, ZenonT(30) DEF KeepsTicks

\* While a process is between its test and its sleep, nobody else has tickslock.
LEMMA NobodyBetween ==
  ASSUME IInv, tickslock = NoCpu, NEW p \in Slots
  PROVE  pc[p] # "sleep.lock"
  <1> SUFFICES ASSUME pc[p] = "sleep.lock" PROVE FALSE
    OBVIOUS
  <1>1. state[p] = "RUNNING"
    BY DEF IInv, ThreadInv, TypeOK, ProcState, Handover
  <1>2. PICK c \in CPU : where[c] = "run" /\ proc[c] = p
    BY <1>1 DEF IInv, RunsOnOneCpu
  <1> QED BY <1>2, OnCpu, Consts

\* A counted tick is not lost: its wakeup is pending.
LEMMA CountTicks ==
  ASSUME IInv, NEW c \in CPU, IdleTick(c) \/ \E p \in Slots : Tick(c, p)
  PROVE  TickInv'
  <1>1. TickPending(c)'
    <2>1. CASE IdleTick(c)
      BY <2>1 DEF IdleTick, TickPending, IInv, TypeOK
    <2>2. ASSUME NEW p \in Slots, Tick(c, p) PROVE TickPending(c)'
      <3>1. pc'[p] = "wake" /\ where'[c] = "run" /\ proc'[c] = p
        BY <2>2, SMTT(30) DEF Tick, IInv, TypeOK
      <3> QED BY <3>1 DEF TickPending
    <2> QED BY <2>1, <2>2
  <1>2. \A q \in Slots : pc'[q] # "sleep.lock"
    BY NobodyBetween DEF IdleTick, Tick, TickCount, IInv, TypeOK
  <1> QED BY <1>1, <1>2 DEF TickInv, NoLostTick

\* The wakeup leaves nobody asleep on &ticks.
LEMMA WakeTicks ==
  ASSUME IInv, TickInv, NEW c \in CPU, IdleWakeup(c) \/ \E p \in Slots : Wakeup(c, p)
  PROVE  TickInv'
  <1>1. state' = Wakeup1(tickschan) /\ UNCHANGED <<chan, ticks, until>>
    BY Zenon DEF IdleWakeup, Wakeup, TickWakeup
  <1>2. \A q \in Slots : ~ (state'[q] = "SLEEPING" /\ chan'[q] = tickschan)
    BY <1>1 DEF Wakeup1
  <1>3. \A q \in Slots : pc'[q] = "sleep.lock" => pc[q] = "sleep.lock"
    BY SMTT(30) DEF IdleWakeup, Wakeup, IInv, TypeOK
  <1>4. \A q \in Slots : pc'[q] = "sleep.lock" => Early(q)'
    BY <1>1, <1>3, Zenon DEF TickInv, Early
  <1>5. NoLostTick'
    BY <1>2 DEF NoLostTick, tickschan
  <1> QED BY <1>4, <1>5, SMTT(30) DEF TickInv
-----------------------------------------------------------------------------
\* sys_sleep(), sleep()

\* The frame and the label that the test leaves.
LEMMA TestResult ==
  ASSUME NEW c, NEW p, NEW t, NEW n, SleepTest(c, p, t, n)
  PROVE  \E u : \E l \in {"sleep.lock", "return"} :
           /\ pc' = [pc EXCEPT ![p] = l]
           /\ until' = [until EXCEPT ![p] = u]
           /\ l = "sleep.lock" => (ticks - u[1]) % TickMod < u[2]
  <1>1. CASE (ticks - t) % TickMod < n /\ ~ killed[p]
    <2>1. (ticks - <<t, n>>[1]) % TickMod < <<t, n>>[2]
      BY <1>1
    <2> QED BY <1>1, <2>1, Zenon DEF SleepTest
  <1>2. CASE ~ ((ticks - t) % TickMod < n /\ ~ killed[p])
    BY <1>2 DEF SleepTest
  <1> QED BY <1>1, <1>2

\* The test is made with tickslock held and sends to sleep only who is early.
LEMMA TestTicks ==
  ASSUME IInv, TickInv, NEW c \in CPU, NEW p \in Slots, SysSleep(c, p) \/ SleepRelock(c, p)
  PROVE  TickInv'
  <1>0. /\ where[c] = "run" /\ proc[c] = p /\ pc[p] # "wake"
        /\ UNCHANGED <<state, chan, ticks, where, proc>>
    BY ZenonT(30) DEF SysSleep, SleepRelock
  <1>t. PICK t, n : SleepTest(c, p, t, n)
    BY Zenon DEF SysSleep, SleepRelock
  <1>u. PICK u : \E l \in {"sleep.lock", "return"} :
          /\ pc' = [pc EXCEPT ![p] = l]
          /\ until' = [until EXCEPT ![p] = u]
          /\ l = "sleep.lock" => (ticks - u[1]) % TickMod < u[2]
    BY <1>t, TestResult
  <1>1. PICK l \in {"sleep.lock", "return"} :
          /\ pc' = [pc EXCEPT ![p] = l]
          /\ until' = [until EXCEPT ![p] = u]
          /\ l = "sleep.lock" => (ticks - u[1]) % TickMod < u[2]
    BY <1>u, Zenon
  <1>2. /\ pc'[p] = l /\ until'[p] = u
        /\ \A q \in Slots \ {p} : pc'[q] = pc[q] /\ until'[q] = until[q]
    BY <1>1 DEF IInv, TypeOK
  <1>3. \A d \in CPU : TickPending(d) => TickPending(d)'
    BY <1>0, <1>2, PendingKept, ZenonT(30)
  <1>4. state[p] = "RUNNING"
    BY <1>0, OnCpu, ZenonT(30)
  <1>5. NoLostTick'
    <2> SUFFICES ASSUME NEW q \in Slots, state[q] = "SLEEPING", chan[q] = tickschan,
                        ~ \E d \in CPU : TickPending(d)'
                 PROVE  (ticks - until'[q][1]) % TickMod < until'[q][2]
      BY <1>0, Zenon DEF NoLostTick, tickschan
    <2>1. until'[q] = until[q]
      BY <1>2, <1>4, ZenonT(30)
    <2> QED BY <1>3, <2>1, ZenonT(30) DEF TickInv, NoLostTick
  <1>6. ASSUME NEW q \in Slots, pc'[q] = "sleep.lock"
        PROVE  (ticks' - until'[q][1]) % TickMod < until'[q][2]
    <2>1. CASE q = p
      <3>1. (ticks - u[1]) % TickMod < u[2] /\ until'[q] = u
        BY <1>1, <1>2, <1>6, <2>1, SMTT(30)
      <3> QED BY <3>1, <1>0
    <2>2. CASE q # p
      <3>1. until'[q] = until[q] /\ Early(q)
        BY <1>2, <1>6, <2>2 DEF TickInv
      <3> QED BY <3>1, <1>0, SMTT(30) DEF Early
    <2> QED BY <2>1, <2>2
  <1> QED BY <1>5, <1>6 DEF TickInv, Early

\* Who goes to sleep is early still: no tick was counted since the test.
LEMMA SleepTicksKept ==
  ASSUME IInv, TickInv, NEW c \in CPU, NEW p \in Slots, Sleep(c, p)
  PROVE  TickInv'
  <1>0. /\ where[c] = "run" /\ proc[c] = p /\ pc[p] = "sleep.lock"
        /\ UNCHANGED <<ticks, until, proc>>
    BY ZenonT(30) DEF Sleep
  <1>1. \A q \in Slots \ {p} : pc'[q] = pc[q] /\ state'[q] = state[q] /\ chan'[q] = chan[q]
    BY DEF Sleep, Sched, IInv, TypeOK
  <1>2. pc'[p] = "sleep.resume" /\ \A d \in CPU : d # c => where'[d] = where[d]
    BY SMTT(30) DEF Sleep, Sched, IInv, TypeOK
  <1>3. \A d \in CPU : TickPending(d) => TickPending(d)'
    <2>1. \A d \in CPU : d # c => where'[d] = where[d] /\ proc'[d] = proc[d]
      BY <1>0, <1>2, Zenon
    <2>2. \A q \in Slots : q # p => pc'[q] = pc[q] \/ state[q] # "RUNNING"
      BY <1>1
    <2>3. pc[p] # "wake"
      BY <1>0
    <2> QED BY <1>0, <2>1, <2>2, <2>3, PendingKept, Zenon
  <1>4. NoLostTick'
    <2> SUFFICES ASSUME NEW q \in Slots, state'[q] = "SLEEPING", chan'[q] = tickschan,
                        ~ \E d \in CPU : TickPending(d)'
                 PROVE  (ticks - until[q][1]) % TickMod < until[q][2]
      BY <1>0, Zenon DEF NoLostTick, tickschan
    <2>1. CASE q = p
      BY <1>0, <2>1 DEF TickInv, Early
    <2>2. CASE q # p
      BY <1>1, <1>3, <2>2 DEF TickInv, NoLostTick
    <2> QED BY <2>1, <2>2
  <1>5. \A q \in Slots : pc'[q] = "sleep.lock" => Early(q)'
    BY <1>0, <1>1, <1>2, SMTT(30) DEF TickInv, Early
  <1> QED BY <1>4, <1>5, SMTT(30) DEF TickInv
-----------------------------------------------------------------------------
\* Every other step of a process

\* What the other steps of p have in common: they are not those of sys_sleep nor
\* of the handler of a tick.
Elsewhere(c, p) ==
  /\ where[c] = "run" /\ proc[c] = p /\ pc[p] # "wake"
  /\ UNCHANGED <<ticks, until>>
  /\ \A d \in CPU : d # c => where'[d] = where[d] /\ proc'[d] = proc[d]
  /\ \A q \in Slots : q # p => pc'[q] = pc[q] \/ (state[q] # "RUNNING" /\ pc'[q] = "forkret")
  /\ pc'[p] # "sleep.lock"
  /\ \A q \in Slots : state'[q] = "SLEEPING" /\ chan'[q] = tickschan =>
       state[q] = "SLEEPING" /\ chan[q] = tickschan

\* Such a step loses no tick.
LEMMA ElsewhereTicks ==
  ASSUME IInv, TickInv, NEW c \in CPU, NEW p \in Slots, Elsewhere(c, p)
  PROVE  TickInv'
  <1>1. \A d \in CPU : TickPending(d) => TickPending(d)'
    BY PendingKept, ZenonT(30) DEF Elsewhere
  <1>2. \A q \in Slots : pc'[q] = "sleep.lock" => pc[q] = "sleep.lock" /\ until'[q] = until[q]
    BY ZenonT(30) DEF Elsewhere
  <1> QED BY <1>1, <1>2, KeptTicks, ZenonT(30) DEF KeepsTicks, Elsewhere

\* The system calls other than sleep, faults, yield() and the rest of the
\* interrupt path are such steps.
LEMMA OtherTicks ==
  ASSUME IInv, TickInv, NEW c \in CPU, NEW p \in Slots,
         \/ Syscall(c, p) \/ Fault(c, p) \/ SyscallReturn(c, p)
         \/ ForkAlloc(c, p) \/ ForkFail(c, p) \/ ForkCopy(c, p) \/ ForkReady(c, p)
         \/ Forkret(c, p) \/ Exit(c, p) \/ ExitInit(c, p)
         \/ Wait(c, p) \/ WaitResume(c, p) \/ Kill(c, p)
         \/ Yield(c, p) \/ YieldResume(c, p) \/ SleepResume(c, p)
         \/ Timer(c, p) \/ Tail(c, p) \/ Iret(c, p)
  PROVE  TickInv'
  <1> SUFFICES Elsewhere(c, p)
    BY ElsewhereTicks, SMTT(30)
  <1>0. /\ pc \in [Slots -> Labels] /\ state \in [Slots -> ProcState] /\ DOMAIN chan = Slots
        /\ where \in [CPU -> {"top", "tick", "wake", "scan", "run", "back"}] /\ DOMAIN proc = CPU
        /\ chan \in [Slots -> Slots \cup {0, tickschan}]
        /\ tickschan # 0 /\ tickschan \notin Slots
    <2>1. tickschan # 0 /\ tickschan \notin Slots
      BY ProcAssumption, Consts DEF tickschan
    <2> QED BY <2>1 DEF IInv, TypeOK
  <1> USE <1>0 DEF Elsewhere
  <1>1. CASE Syscall(c, p)
    <2>1. PICK s \in Program[p] \ {"fault"} : pc' = [pc EXCEPT ![p] = IF killed[p] THEN "exit" ELSE s]
      BY <1>1, Zenon DEF Syscall
    <2>2. s # "sleep.lock"
      BY ProcAssumption DEF Calls
    <2> QED BY <1>1, <2>1, <2>2, Zenon DEF Syscall
  <1>2. CASE Fault(c, p) \/ SyscallReturn(c, p) \/ Forkret(c, p) \/ ExitInit(c, p)
    BY <1>2, ZenonT(30) DEF Fault, SyscallReturn, Forkret, ExitInit
  <1>3. CASE ForkAlloc(c, p)
    <2>1. \A q \in Slots : state'[q] = "SLEEPING" => state[q] = "SLEEPING"
      BY <1>3, ZenonT(30) DEF ForkAlloc
    <2>2. PICK l \in {"return", "fork.copy"} : pc' = [pc EXCEPT ![p] = l]
      BY <1>3, ZenonT(30) DEF ForkAlloc
    <2> QED BY <1>3, <2>1, <2>2, ZenonT(30) DEF ForkAlloc
  <1>4. CASE ForkFail(c, p) \/ ForkReady(c, p)
    <2>1. child[p] \in Slots
      BY <1>4, InFork DEF ForkFail, ForkReady
    <2> QED BY <1>4, <2>1, SMTT(30) DEF ForkFail, ForkReady
  <1>5. CASE ForkCopy(c, p)
    <2>1. child[p] \in Slots \ {p} /\ state[child[p]] = "EMBRYO"
      BY <1>5, InFork DEF ForkCopy
    <2> QED BY <1>5, <2>1 DEF ForkCopy
  <1>6. CASE Exit(c, p)
    BY <1>6, SMTT(30) DEF Exit, Sched, ExitStates
  <1>7. CASE Wait(c, p) \/ WaitResume(c, p)
    <2>0. WaitRound(c, p) /\ where[c] = "run" /\ proc[c] = p /\ pc[p] # "wake"
          /\ UNCHANGED <<ticks, until, proc>>
      BY <1>7 DEF Wait, WaitResume
    <2>1. PICK l \in {"return", "wait.resume"}, ch \in {0, p} :
            pc' = [pc EXCEPT ![p] = l] /\ chan' = [chan EXCEPT ![p] = ch]
      BY <2>0 DEF WaitRound, Sched
    <2>2. \A d \in CPU : d # c => where'[d] = where[d]
      BY <2>0 DEF WaitRound, Sched
    <2>3. \A q \in Slots : state'[q] = "SLEEPING" => q = p \/ state[q] = "SLEEPING"
      BY <2>0 DEF WaitRound, Reap
    <2>4. chan'[p] # tickschan
      BY <2>1
    <2> QED BY <2>0, <2>1, <2>2, <2>3, <2>4, ZenonT(30)
  <1>8. CASE Kill(c, p)
    <2>1. \A q \in Slots : state'[q] = "SLEEPING" => state[q] = "SLEEPING"
      BY <1>8, Zenon DEF Kill
    <2> QED BY <1>8, <2>1 DEF Kill
  <1>9. CASE Yield(c, p) \/ YieldResume(c, p)
    BY <1>9 DEF Yield, YieldResume, Sched
  <1>10. CASE SleepResume(c, p)
    BY <1>10 DEF SleepResume
  <1>11. CASE Timer(c, p)
    <2>1. pc[p] # "wake"
      BY <1>11, OnCpu DEF Timer, InterruptsOn
    <2> QED BY <1>11, <2>1, Zenon DEF Timer
  <1>12. CASE Tail(c, p)
    BY <1>12, SMTT(30) DEF Tail
  <1>13. CASE Iret(c, p)
    <2>1. resume[p] # "sleep.lock"
      BY DEF IInv, ResumeInv, ResumeOK, Interruptible
    <2> QED BY <1>13, <2>1 DEF Iret
  <1> QED BY <1>1, <1>2, <1>3, <1>4, <1>5, <1>6, <1>7, <1>8, <1>9, <1>10, <1>11, <1>12, <1>13, Zenon

\* Every step of the kernel preserves the invariant.
LEMMA TicksStep == IInv /\ TickInv /\ [Next]_vars => TickInv'
  <1> SUFFICES ASSUME IInv, TickInv, [Next]_vars PROVE TickInv'
    OBVIOUS
  <1>1. CASE UNCHANGED vars
    <2>1. KeepsTicks
      BY <1>1, Zenon DEF vars, KeepsTicks, TickPending
    <2> QED BY <2>1, KeptTicks, SMTT(30)
  <1>2. ASSUME NEW c \in CPU, CpuStep(c) PROVE TickInv'
    <2>1. CASE SchedulerStep(c) \/ TimerIdle(c)
      BY <2>1, SchedulerTicks, CountTicks, WakeTicks DEF SchedulerStep
    <2>2. ASSUME NEW p \in Slots, Timer(c, p) \/ KernelStep(c, p) \/ UserStep(c, p)
          PROVE  TickInv'
      BY <2>2, OtherTicks, TestTicks, SleepTicksKept, CountTicks, WakeTicks DEF KernelStep, UserStep
    <2> QED BY <1>2, <2>1, <2>2 DEF CpuStep, Interrupt
  <1> QED BY <1>1, <1>2 DEF Next, Halted

\* A process sleeps in sys_sleep only while its time has not come, unless the
\* wakeup for the tick that ends it is under way: sleep() takes ptable.lock
\* before it lets go of tickslock, so the tick after the test is not lost.
THEOREM TicksSeen == Spec => []NoLostTick
  <1>1. TickInv => NoLostTick BY DEF TickInv
  <1> QED BY <1>1, InitTicks, TicksStep, Invariance, PTL DEF Spec
=============================================================================
