-------------------------------- MODULE Proc --------------------------------
(***************************************************************************)
(* The process table of the kernel: life cycle of a process (fork, exit,   *)
(* wait, kill, sleep, wakeup, yield), ptable.lock, tickslock, the timer    *)
(* interrupt, and the context switch between the scheduler thread of each  *)
(* CPU and the kernel threads of the processes.  ptable.lock is handed     *)
(* over by swtch: the thread that acquires it is not the one that releases *)
(* it.                                                                     *)
(*                                                                         *)
(* Which RUNNABLE process the scheduler prefers (priorities, aging) and    *)
(* when the time slice runs out are left open here; Sched states them.     *)
(***************************************************************************)
EXTENDS Integers

CONSTANTS NPROC,      \* size of ptable.proc
          NCPU,       \* number of CPUs
          TickMod,    \* ticks is an unsigned integer modulo TickMod
          MaxPid,     \* bound: no fork is issued once nextpid passes it
          KillPids,   \* arguments user programs pass to kill
          SleepTicks, \* arguments user programs pass to sleep
          Program     \* Program[p]: what the program in slot p may do

Slots == 1..NPROC
NoProc == 0
initproc == 1
CPU == 0..NCPU - 1
NoCpu == -1
tickschan == NPROC + 1          \* &ticks, as a sleep channel

ProcState == {"UNUSED", "EMBRYO", "SLEEPING", "RUNNABLE", "RUNNING", "ZOMBIE"}

\* What a program may do in user mode: the system calls that change the
\* process table, and a fault (any trap that is not an interrupt).
Calls == {"fork", "exit", "wait", "kill", "sleep", "yield", "fault"}

\* Program counters of a process's kernel thread.
Labels == {"user", "return", "forkret",
           "fork", "fork.copy", "fork.ready", "exit", "zombie", "kill",
           "wait", "wait.resume", "yield", "yield.resume",
           "sleep", "sleep.lock", "sleep.resume", "sleep.relock",
           "tick", "wake", "tail", "iret", "panic"}

ASSUME ProcAssumption ==
  /\ NPROC \in Nat \ {0}
  /\ NCPU \in Nat \ {0}
  /\ TickMod \in Nat \ {0}
  /\ MaxPid \in Nat
  /\ KillPids \subseteq Nat
  /\ SleepTicks \subseteq Nat
  /\ Program \in [Slots -> SUBSET Calls]

VARIABLES
  state, pid, parent, chan, killed,  \* struct proc, per slot
  nextpid,
  lock,      \* CPU that holds ptable.lock, or NoCpu
  tickslock, \* CPU that holds tickslock, or NoCpu
  ticks,
  proc,      \* proc[c]: struct cpu's proc
  where,     \* where[c]: what CPU c executes
  pos,       \* pos[c]: the slot scheduler()'s outer loop goes on from
  pc,        \* pc[p]: program counter of p's kernel thread
  resume,    \* resume[p]: label the interrupt p is serving returns to
  child,     \* child[p]: np, in fork
  until      \* until[p]: <<ticks0, n>>, in sys_sleep

attrs == <<pid, parent, chan, killed>>
table == <<state, attrs>>
cpus == <<proc, where, pos>>
frame == <<child, until>>
threads == <<pc, resume, frame>>
clock == <<tickslock, ticks>>
vars == <<table, nextpid, lock, clock, cpus, threads>>

\* After main() and userinit(): init is RUNNABLE in the first slot, every CPU
\* has entered scheduler().
Init ==
  /\ state = [p \in Slots |-> IF p = initproc THEN "RUNNABLE" ELSE "UNUSED"]
  /\ pid = [p \in Slots |-> IF p = initproc THEN 1 ELSE 0]
  /\ parent = [p \in Slots |-> NoProc]
  /\ chan = [p \in Slots |-> 0]
  /\ killed = [p \in Slots |-> FALSE]
  /\ nextpid = 2
  /\ lock = NoCpu
  /\ tickslock = NoCpu
  /\ ticks = 0
  /\ proc = [c \in CPU |-> NoProc]
  /\ where = [c \in CPU |-> "top"]
  /\ pos = [c \in CPU |-> 1]
  /\ pc = [p \in Slots |-> "forkret"]
  /\ resume = [p \in Slots |-> "none"]
  /\ child = [p \in Slots |-> NoProc]
  /\ until = [p \in Slots |-> <<0, 0>>]
-----------------------------------------------------------------------------
\* Helpers

\* The first slot of a set, as a scan of ptable.proc finds it.
IsFirst(q, S) == q \in S /\ \A r \in S : q <= r

UnusedSlots == {q \in Slots : state[q] = "UNUSED"}
Children(p) == {q \in Slots : parent[q] = p}
\* Mutant: the parent test is missing.
AnyZombie(p) == {q \in Slots : state[q] = "ZOMBIE"}

ZombieChildren(p) == {q \in Children(p) : state[q] = "ZOMBIE"}

\* Mutant: nobody is woken.
WakeupNobody(ch) == state

\* The states after wakeup1(ch).
Wakeup1(ch) ==
  [q \in Slots |->
     IF state[q] = "SLEEPING" /\ chan[q] = ch THEN "RUNNABLE" ELSE state[q]]

\* p++ in scheduler()'s outer loop.
NextSlot(i) == i + 1

\* CPU c executes the kernel thread of p, which has come to label l.
At(c, p, l) == where[c] = "run" /\ proc[c] = p /\ pc[p] = l

Goto(p, l) == pc' = [pc EXCEPT ![p] = l]

\* Mutant: the lock is let go before the switch.
SchedUnlocked(c, p, l) ==
  /\ lock' = NoCpu
  /\ where' = [where EXCEPT ![c] = "back"]
  /\ Goto(p, l)

\* swtch from p's thread to CPU c's scheduler thread: ptable.lock stays with
\* the CPU.  The process goes on from label l when it is next chosen.
Sched(c, p, l) ==
  /\ lock' = c
  /\ where' = [where EXCEPT ![c] = "back"]
  /\ Goto(p, l)
-----------------------------------------------------------------------------
\* scheduler()

SchedAcquire(c) ==
  /\ where[c] = "top"
  /\ lock = NoCpu
  /\ lock' = c
  /\ where' = [where EXCEPT ![c] = "scan"]
  /\ UNCHANGED <<table, nextpid, clock, proc, pos, threads>>

\* A RUNNABLE slot from pos[c] on lets the inner loop choose among all the
\* RUNNABLE slots.
SchedPick(c, p) ==
  /\ where[c] = "scan"
  /\ \E q \in Slots : q >= pos[c] /\ state[q] = "RUNNABLE"
  /\ state[p] = "RUNNABLE"
  /\ state' = [state EXCEPT ![p] = "RUNNING"]
  /\ proc' = [proc EXCEPT ![c] = p]
  /\ where' = [where EXCEPT ![c] = "run"]
  /\ pos' = [pos EXCEPT ![c] = p]
  /\ UNCHANGED <<attrs, nextpid, lock, clock, threads>>

\* The outer loop has come to the end of the table; the next one starts over.
SchedRelease(c) ==
  /\ where[c] = "scan"
  /\ ~ \E q \in Slots : q >= pos[c] /\ state[q] = "RUNNABLE"
  /\ lock' = NoCpu
  /\ where' = [where EXCEPT ![c] = "top"]
  /\ pos' = [pos EXCEPT ![c] = 1]
  /\ UNCHANGED <<table, nextpid, clock, proc, threads>>

\* The chosen process has come back through sched().
SchedBack(c) ==
  /\ where[c] = "back"
  /\ pos' = [pos EXCEPT ![c] = NextSlot(@)]
  /\ proc' = [proc EXCEPT ![c] = NoProc]
  /\ where' = [where EXCEPT ![c] = "scan"]
  /\ UNCHANGED <<table, nextpid, lock, clock, threads>>
-----------------------------------------------------------------------------
\* trap(): system calls and faults

Syscall(c, p) ==
  /\ At(c, p, "user")
  /\ \E s \in Program[p] \ {"fault"} :
       /\ s = "fork" => nextpid <= MaxPid
       /\ Goto(p, IF killed[p] THEN "exit" ELSE s)
  /\ UNCHANGED <<table, nextpid, lock, clock, cpus, resume, frame>>

SyscallReturn(c, p) ==
  /\ At(c, p, "return")
  /\ Goto(p, IF killed[p] THEN "exit" ELSE "user")
  /\ UNCHANGED <<table, nextpid, lock, clock, cpus, resume, frame>>

\* The process kills itself without ptable.lock and exits, with interrupts off.
Fault(c, p) ==
  /\ At(c, p, "user")
  /\ "fault" \in Program[p]
  /\ killed' = [killed EXCEPT ![p] = TRUE]
  /\ resume' = [resume EXCEPT ![p] = "user"]
  /\ Goto(p, "exit")
  /\ UNCHANGED <<state, pid, parent, chan, nextpid, lock, clock, cpus, frame>>
-----------------------------------------------------------------------------
\* fork(), set_prio()

\* allocproc(): the slot is claimed under the lock.
ForkAlloc(c, p) ==
  /\ At(c, p, "fork")
  /\ lock = NoCpu
  /\ \/ /\ UnusedSlots = {}
        /\ Goto(p, "return")
        /\ UNCHANGED <<state, pid, nextpid, child>>
     \/ \E q \in Slots :
          /\ IsFirst(q, UnusedSlots)
          /\ state' = [state EXCEPT ![q] = "EMBRYO"]
          /\ pid' = [pid EXCEPT ![q] = nextpid]
          /\ nextpid' = nextpid + 1
          /\ child' = [child EXCEPT ![p] = q]
          /\ Goto(p, "fork.copy")
  /\ UNCHANGED <<parent, chan, killed, lock, clock, cpus, resume, until>>

\* kalloc or copyuvm finds no memory: the slot is given back, without the lock.
ForkFail(c, p) ==
  /\ At(c, p, "fork.copy")
  /\ state' = [state EXCEPT ![child[p]] = "UNUSED"]
  /\ child' = [child EXCEPT ![p] = NoProc]
  /\ Goto(p, "return")
  /\ UNCHANGED <<attrs, nextpid, lock, clock, cpus, resume, until>>

\* The child's thread starts at forkret; its parent is set without the lock.
ForkCopy(c, p) ==
  /\ At(c, p, "fork.copy")
  /\ parent' = [parent EXCEPT ![child[p]] = p]
  /\ pc' = [pc EXCEPT ![p] = "fork.ready", ![child[p]] = "forkret"]
  /\ UNCHANGED <<state, pid, chan, killed, nextpid, lock, clock, cpus, resume,
                 frame>>

ForkReady(c, p) ==
  /\ At(c, p, "fork.ready")
  /\ lock = NoCpu
  /\ state' = [state EXCEPT ![child[p]] = "RUNNABLE"]
  /\ child' = [child EXCEPT ![p] = NoProc]
  /\ Goto(p, "return")
  /\ UNCHANGED <<attrs, nextpid, lock, clock, cpus, resume, until>>

\* Mutant: the release is missing.
ForkretHolding(c, p) ==
  /\ At(c, p, "forkret")
  /\ Goto(p, "user")
  /\ UNCHANGED <<table, nextpid, lock, clock, cpus, resume, frame>>

\* forkret(): the child releases the lock the scheduler acquired.
Forkret(c, p) ==
  /\ At(c, p, "forkret")
  /\ lock' = NoCpu
  /\ Goto(p, "user")
  /\ UNCHANGED <<table, nextpid, clock, cpus, resume, frame>>
-----------------------------------------------------------------------------
\* exit()

\* Mutant: init is not told of the zombies it inherits.
ExitStatesQuiet(p) == [Wakeup1(parent[p]) EXCEPT ![p] = "ZOMBIE"]

\* The states once p has woken its parent, and init if it hands it a zombie.
ExitStates(p) ==
  LET orphanZombie == ZombieChildren(p) # {}
      woken == [q \in Slots |->
                  IF /\ state[q] = "SLEEPING"
                     /\ \/ chan[q] = parent[p]
                        \/ orphanZombie /\ chan[q] = initproc
                  THEN "RUNNABLE" ELSE state[q]]
  IN  [woken EXCEPT ![p] = "ZOMBIE"]

\* Mutant: abandoned children keep their parent.
KeepParents(p) == parent

\* Abandoned children are passed to init.
Reparent(p) ==
  [q \in Slots |-> IF parent[q] = p THEN initproc ELSE parent[q]]

Exit(c, p) ==
  /\ At(c, p, "exit")
  /\ p # initproc
  /\ lock = NoCpu
  /\ state' = ExitStates(p)
  /\ parent' = Reparent(p)
  /\ resume' = [resume EXCEPT ![p] = "none"]
  /\ Sched(c, p, "zombie")
  /\ UNCHANGED <<pid, chan, killed, nextpid, clock, proc, pos, frame>>

\* panic("init exiting")
ExitInit(c, p) ==
  /\ At(c, p, "exit")
  /\ p = initproc
  /\ Goto(p, "panic")
  /\ UNCHANGED <<table, nextpid, lock, clock, cpus, resume, frame>>
-----------------------------------------------------------------------------
\* wait(), wait2(), wait3()

\* The first zombie child is freed.
Reap(p, q) ==
  /\ IsFirst(q, ZombieChildren(p))
  /\ state' = [state EXCEPT ![q] = "UNUSED"]
  /\ pid' = [pid EXCEPT ![q] = 0]
  /\ parent' = [parent EXCEPT ![q] = NoProc]
  /\ killed' = [killed EXCEPT ![q] = FALSE]

\* One round of wait()'s loop, with ptable.lock held.
WaitRound(c, p) ==
  \/ /\ \E q \in Slots : Reap(p, q)
     /\ chan' = [chan EXCEPT ![p] = 0]
     /\ Goto(p, "return")
     /\ lock' = NoCpu
     /\ UNCHANGED where
  \/ /\ ZombieChildren(p) = {}
     /\ Children(p) = {} \/ killed[p]
     /\ chan' = [chan EXCEPT ![p] = 0]
     /\ Goto(p, "return")
     /\ lock' = NoCpu
     /\ UNCHANGED <<state, pid, parent, killed, where>>
  \/ /\ ZombieChildren(p) = {}
     /\ Children(p) # {} /\ ~ killed[p]
     /\ chan' = [chan EXCEPT ![p] = p]
     /\ state' = [state EXCEPT ![p] = "SLEEPING"]
     /\ Sched(c, p, "wait.resume")
     /\ UNCHANGED <<pid, parent, killed>>

Wait(c, p) ==
  /\ At(c, p, "wait")
  /\ lock = NoCpu
  /\ WaitRound(c, p)
  /\ UNCHANGED <<nextpid, clock, proc, pos, resume, frame>>

\* sleep() returns with the lock the scheduler handed over.
WaitResume(c, p) ==
  /\ At(c, p, "wait.resume")
  /\ WaitRound(c, p)
  /\ UNCHANGED <<nextpid, clock, proc, pos, resume, frame>>
-----------------------------------------------------------------------------
\* kill()

\* The first slot with that pid, whatever its state.
Kill(c, p) ==
  /\ At(c, p, "kill")
  /\ lock = NoCpu
  /\ \E t \in KillPids :
       LET match == {q \in Slots : pid[q] = t}
       IN  \/ match = {} /\ UNCHANGED <<state, killed>>
           \/ \E q \in Slots :
                /\ IsFirst(q, match)
                /\ killed' = [killed EXCEPT ![q] = TRUE]
                /\ state' = [state EXCEPT ![q] =
                               IF @ = "SLEEPING" THEN "RUNNABLE" ELSE @]
  /\ Goto(p, "return")
  /\ UNCHANGED <<pid, parent, chan, nextpid, lock, clock, cpus, resume, frame>>
-----------------------------------------------------------------------------
\* yield()

Yield(c, p) ==
  /\ At(c, p, "yield")
  /\ lock = NoCpu
  /\ state' = [state EXCEPT ![p] = "RUNNABLE"]
  /\ Sched(c, p, "yield.resume")
  /\ UNCHANGED <<attrs, nextpid, clock, proc, pos, resume, frame>>

\* Back to sys_yield2, or to the interrupt handler that called yield().
YieldResume(c, p) ==
  /\ At(c, p, "yield.resume")
  /\ lock' = NoCpu
  /\ Goto(p, IF resume[p] = "none" THEN "return" ELSE "iret")
  /\ UNCHANGED <<table, nextpid, clock, cpus, resume, frame>>
-----------------------------------------------------------------------------
\* sys_sleep(), sleep()

\* Mutant: tickslock is let go before sleep() has ptable.lock.
SleepTestUnlocked(c, p, ticks0, n) ==
  /\ tickslock' = NoCpu
  /\ IF (ticks - ticks0) % TickMod < n /\ ~ killed[p]
     THEN until' = [until EXCEPT ![p] = <<ticks0, n>>] /\ Goto(p, "sleep.lock")
     ELSE until' = [until EXCEPT ![p] = <<0, 0>>] /\ Goto(p, "return")

\* The loop condition and the killed test, made with tickslock held.
SleepTest(c, p, ticks0, n) ==
  IF (ticks - ticks0) % TickMod < n /\ ~ killed[p]
  THEN /\ until' = [until EXCEPT ![p] = <<ticks0, n>>]
       /\ tickslock' = c
       /\ Goto(p, "sleep.lock")
  ELSE /\ until' = [until EXCEPT ![p] = <<0, 0>>]
       /\ tickslock' = NoCpu
       /\ Goto(p, "return")

SysSleep(c, p) ==
  /\ At(c, p, "sleep")
  /\ tickslock = NoCpu
  /\ \E n \in SleepTicks : SleepTest(c, p, ticks, n)
  /\ UNCHANGED <<table, nextpid, lock, ticks, cpus, resume, child>>

\* sleep(&ticks, &tickslock): acquire ptable.lock, then let go of tickslock.
Sleep(c, p) ==
  /\ At(c, p, "sleep.lock")
  /\ lock = NoCpu
  /\ tickslock' = NoCpu
  /\ chan' = [chan EXCEPT ![p] = tickschan]
  /\ state' = [state EXCEPT ![p] = "SLEEPING"]
  /\ Sched(c, p, "sleep.resume")
  /\ UNCHANGED <<pid, parent, killed, nextpid, ticks, proc, pos, resume,
                 frame>>

SleepResume(c, p) ==
  /\ At(c, p, "sleep.resume")
  /\ chan' = [chan EXCEPT ![p] = 0]
  /\ lock' = NoCpu
  /\ Goto(p, "sleep.relock")
  /\ UNCHANGED <<state, pid, parent, killed, nextpid, clock, cpus, resume,
                 frame>>

SleepRelock(c, p) ==
  /\ At(c, p, "sleep.relock")
  /\ tickslock = NoCpu
  /\ SleepTest(c, p, until[p][1], until[p][2])
  /\ UNCHANGED <<table, nextpid, lock, ticks, cpus, resume, child>>
-----------------------------------------------------------------------------
\* The timer interrupt

\* Interrupts are on where no spinlock is held and no interrupt is served.
InterruptsOn(c) ==
  /\ lock # c /\ tickslock # c
  /\ \/ where[c] = "top"
     \/ where[c] = "run" /\ resume[proc[c]] = "none"

\* Only CPU 0 counts ticks; on an idle CPU the handler does nothing else.
TimerIdle(c) ==
  /\ where[c] = "top"
  /\ InterruptsOn(c)
  /\ c = 0
  /\ where' = [where EXCEPT ![c] = "tick"]
  /\ UNCHANGED <<table, nextpid, lock, clock, proc, pos, threads>>

Timer(c, p) ==
  /\ where[c] = "run" /\ proc[c] = p
  /\ InterruptsOn(c)
  /\ resume' = [resume EXCEPT ![p] = pc[p]]
  /\ Goto(p, IF c = 0 THEN "tick" ELSE "tail")
  /\ UNCHANGED <<table, nextpid, lock, clock, cpus, frame>>

\* acquire(&tickslock); ticks++
TickCount(c) ==
  /\ tickslock = NoCpu
  /\ tickslock' = c
  /\ ticks' = (ticks + 1) % TickMod

\* wakeup(&ticks); release(&tickslock)
TickWakeup(c) ==
  /\ lock = NoCpu
  /\ state' = Wakeup1(tickschan)
  /\ tickslock' = NoCpu

IdleTick(c) ==
  /\ where[c] = "tick"
  /\ TickCount(c)
  /\ where' = [where EXCEPT ![c] = "wake"]
  /\ UNCHANGED <<table, nextpid, lock, proc, pos, threads>>

IdleWakeup(c) ==
  /\ where[c] = "wake"
  /\ TickWakeup(c)
  /\ where' = [where EXCEPT ![c] = "top"]
  /\ UNCHANGED <<attrs, nextpid, lock, ticks, proc, pos, threads>>

Tick(c, p) ==
  /\ At(c, p, "tick")
  /\ TickCount(c)
  /\ Goto(p, "wake")
  /\ UNCHANGED <<table, nextpid, lock, cpus, resume, frame>>

Wakeup(c, p) ==
  /\ At(c, p, "wake")
  /\ TickWakeup(c)
  /\ Goto(p, "tail")
  /\ UNCHANGED <<attrs, nextpid, lock, ticks, cpus, resume, frame>>

\* The killed test of an interrupt that came from user mode; then, unless the
\* time slice lasts, yield().
Tail(c, p) ==
  /\ At(c, p, "tail")
  /\ IF killed[p] /\ resume[p] = "user"
     THEN Goto(p, "exit")
     ELSE \E l \in {"yield", "iret"} : Goto(p, l)
  /\ UNCHANGED <<table, nextpid, lock, clock, cpus, resume, frame>>

\* The killed test after yield(), and the return to the interrupted code.
Iret(c, p) ==
  /\ At(c, p, "iret")
  /\ IF killed[p] /\ resume[p] = "user"
     THEN Goto(p, "exit") /\ UNCHANGED resume
     ELSE Goto(p, resume[p]) /\ resume' = [resume EXCEPT ![p] = "none"]
  /\ UNCHANGED <<table, nextpid, lock, clock, cpus, frame>>
-----------------------------------------------------------------------------
SchedulerStep(c) ==
  \/ SchedAcquire(c) \/ SchedRelease(c) \/ SchedBack(c)
  \/ \E p \in Slots : SchedPick(c, p)
  \/ IdleTick(c) \/ IdleWakeup(c)

KernelStep(c, p) ==
  \/ SyscallReturn(c, p)
  \/ ForkAlloc(c, p) \/ ForkFail(c, p) \/ ForkCopy(c, p) \/ ForkReady(c, p)
  \/ Forkret(c, p) \/ Exit(c, p) \/ ExitInit(c, p)
  \/ Wait(c, p) \/ WaitResume(c, p) \/ Kill(c, p)
  \/ Yield(c, p) \/ YieldResume(c, p)
  \/ SysSleep(c, p) \/ Sleep(c, p) \/ SleepResume(c, p) \/ SleepRelock(c, p)
  \/ Tick(c, p) \/ Wakeup(c, p) \/ Tail(c, p) \/ Iret(c, p)

UserStep(c, p) == Syscall(c, p) \/ Fault(c, p)

Interrupt(c) == TimerIdle(c) \/ \E p \in Slots : Timer(c, p)

CpuStep(c) ==
  \/ SchedulerStep(c)
  \/ Interrupt(c)
  \/ \E p \in Slots : KernelStep(c, p) \/ UserStep(c, p)

\* panic() never returns, and freezes the other CPUs.
panicked == pc[initproc] = "panic"
Halted == panicked /\ UNCHANGED vars

Next ==
  \/ ~ panicked /\ \E c \in CPU : CpuStep(c)
  \/ Halted

Spec == Init /\ [][Next]_vars

\* A CPU goes on executing kernel code; a pending timer interrupt is delivered
\* once interrupts are on often enough.  Nothing is assumed of user programs,
\* nor of who wins a contended spinlock.
FairSpec ==
  /\ Spec
  /\ \A c \in CPU :
       /\ WF_vars(~ panicked /\ (SchedulerStep(c) \/ \E p \in Slots : KernelStep(c, p)))
       /\ SF_vars(~ panicked /\ Interrupt(c))
-----------------------------------------------------------------------------
\* Properties

\* Every variable stays in its range; pos may be one past the end of the table.
TypeOK ==
  /\ state \in [Slots -> ProcState]
  /\ pid \in [Slots -> Nat]
  /\ parent \in [Slots -> Slots \cup {NoProc}]
  /\ chan \in [Slots -> Slots \cup {0, tickschan}]
  /\ killed \in [Slots -> BOOLEAN]
  /\ nextpid \in Nat
  /\ lock \in CPU \cup {NoCpu}
  /\ tickslock \in CPU \cup {NoCpu}
  /\ ticks \in 0..TickMod - 1
  /\ proc \in [CPU -> Slots \cup {NoProc}]
  /\ where \in [CPU -> {"top", "tick", "wake", "scan", "run", "back"}]
  /\ pos \in [CPU -> 1..NPROC + 1]
  /\ pc \in [Slots -> Labels]
  /\ resume \in [Slots -> Labels \cup {"none"}]
  /\ child \in [Slots -> Slots \cup {NoProc}]
  /\ until \in [Slots -> (0..TickMod - 1) \X Nat]

\* Where a process goes on after swtch: it owns the ptable.lock its CPU's
\* scheduler acquired.
Handover == {"forkret", "wait.resume", "yield.resume", "sleep.resume"}

HoldsPtable(c) ==
  \/ where[c] \in {"scan", "back"}
  \/ where[c] = "run" /\ pc[proc[c]] \in Handover

HoldsTicks(c) ==
  \/ where[c] = "wake"
  \/ where[c] = "run" /\ pc[proc[c]] \in {"wake", "sleep.lock"}

\* ptable.lock passes between scheduler and process threads by swtch: at every
\* moment the CPU the lock names is the one, and the only one, whose code is
\* between an acquire and the matching release.  So sched() finds the lock
\* held and no other lock held, no acquire is tried by the holder, and no
\* release by another (the panics of sched, acquire and release).
LockHandover ==
  /\ \A c \in CPU : lock = c <=> HoldsPtable(c)
  /\ \A c \in CPU : tickslock = c <=> HoldsTicks(c)

\* A process is RUNNING exactly while one CPU executes it, no two CPUs are
\* ever on the same kernel stack, and no CPU is on the stack of a slot that
\* wait() has freed: the scheduler holds ptable.lock until it has left it.
RunsOnOneCpu ==
  /\ \A c, d \in CPU : proc[c] # NoProc /\ proc[c] = proc[d] => c = d
  /\ \A p \in Slots :
       state[p] = "RUNNING" <=> \E c \in CPU : where[c] = "run" /\ proc[c] = p
  /\ \A c \in CPU : proc[c] # NoProc => state[proc[c]] \notin {"UNUSED", "EMBRYO"}

\* CPU c has counted a tick and is about to wake the sleepers.
TickPending(c) ==
  \/ where[c] = "wake"
  \/ where[c] = "run" /\ pc[proc[c]] = "wake"

\* A process sleeps in sys_sleep only while its time has not come, unless the
\* wakeup for the tick that ends it is under way: the tick counted between the
\* test and the sleep is not lost.
NoLostTick ==
  \A p \in Slots :
    state[p] = "SLEEPING" /\ chan[p] = tickschan =>
      \/ (ticks - until[p][1]) % TickMod < until[p][2]
      \/ \E c \in CPU : TickPending(c)

\* A process sleeps in wait() only while it has children, none of them a
\* zombie, and has not been killed: no exit, inherited zombie or kill is lost.
NoLostExit ==
  \A p \in Slots :
    state[p] = "SLEEPING" /\ chan[p] = p =>
      Children(p) # {} /\ ZombieChildren(p) = {} /\ ~ killed[p]

\* Every process but init has a parent that is older, in use and not itself
\* a zombie: exit hands its children on before it becomes one, so that there
\* is always somebody to reap a zombie, and no slot is reused under a child.
ProcessTree ==
  \A q \in Slots \ {initproc} :
    state[q] \notin {"UNUSED", "EMBRYO"} =>
      /\ parent[q] \in Slots
      /\ state[parent[q]] \in {"SLEEPING", "RUNNABLE", "RUNNING"}
      /\ pid[parent[q]] < pid[q]

\* A zombie's slot changes only when its parent, on a CPU, frees it, and no CPU
\* is still on the kernel stack that is freed.
ReapedByParent ==
  [][\A q \in Slots :
       state[q] = "ZOMBIE" /\ state'[q] # "ZOMBIE" =>
         /\ state'[q] = "UNUSED"
         /\ \E c \in CPU : where[c] = "run" /\ proc[c] = parent[q]
         /\ \A c \in CPU : proc[c] # q]_vars

\* Whoever acquires ptable.lock, it is eventually released.
LockReleased == lock # NoCpu ~> lock = NoCpu

\* A process that sleeps in sys_sleep is eventually woken.
SleeperWakes ==
  \A p \in Slots :
    state[p] = "SLEEPING" /\ chan[p] = tickschan ~> state[p] # "SLEEPING"

\* The kernel goes on: no lock is kept for ever and no sleeper of sys_sleep is
\* forgotten.
KernelGoesOn == LockReleased /\ SleeperWakes

\* "Kill the process with the given pid": a process that kill was not called
\* for does not start its life killed.
FreshNotKilled ==
  [][\A q \in Slots :
       state[q] = "UNUSED" /\ state'[q] = "EMBRYO" => ~ killed'[q]]_vars
=============================================================================
