--------------------------- MODULE ProcInvariant ----------------------------
(***************************************************************************)
(* The inductive invariant of Proc, for any number of slots and CPUs, any  *)
(* workload, and any choice the scheduler makes among the RUNNABLE         *)
(* processes; what a step that stays on its CPU, and one that leaves it in *)
(* sched(), preserve; and the steps of scheduler(), of the entry and exit  *)
(* of system calls, and of fork().                                         *)
(***************************************************************************)
EXTENDS Proc, TLAPS

\* Labels at which an interrupt can find a thread: no spinlock is held.
Interruptible ==
  {"user", "return", "fork", "fork.copy", "fork.ready", "exit", "kill", "wait",
   "yield", "sleep", "sleep.relock"}

\* Labels a thread passes while it serves an interrupt.
Handler == {"tick", "wake", "tail", "iret", "yield", "yield.resume"}

\* A thread that serves an interrupt knows where to return to, and returns to
\* code that holds no lock; exit, once called from an interrupt, came from user
\* mode.
ResumeOK(l, r) ==
  /\ r \in Interruptible \cup {"none"}
  /\ l \in {"tick", "wake", "tail", "iret"} => r # "none"
  /\ r # "none" => l \in Handler \/ (l \in {"exit", "panic"} /\ r = "user")

ResumeInv == \A p \in Slots : ResumeOK(pc[p], resume[p])

\* A CPU has a current process exactly while it runs it or comes back from it.
CpuInv ==
  \A c \in CPU :
    /\ proc[c] # NoProc <=> where[c] \in {"run", "back"}
    /\ where[c] \in {"run", "back"} => pos[c] = proc[c]

\* A process that is not on a CPU goes on, when it is chosen, by releasing the
\* lock; a slot that is not in use has no thread.
ThreadInv ==
  \A p \in Slots :
    /\ state[p] \in {"RUNNABLE", "SLEEPING"} => pc[p] \in Handover
    /\ state[p] \in {"UNUSED", "EMBRYO", "ZOMBIE"} =>
         pc[p] \in {"zombie", "forkret"} /\ resume[p] = "none"
    /\ state[p] = "RUNNING" => pc[p] # "zombie"
    /\ pc[p] = "panic" => p = initproc

\* A child is an EMBRYO until its parent makes it RUNNABLE, and belongs to one
\* parent.
ChildInv ==
  \A p \in Slots : child[p] # NoProc =>
    /\ state[child[p]] = "EMBRYO"
    /\ \A q \in Slots : child[q] = child[p] => q = p

\* A process in fork, perhaps interrupted there, has a child; once it is about
\* to make it RUNNABLE the child's thread starts at forkret.
ForkOK(l, r, np, start) ==
  /\ l \in {"fork.copy", "fork.ready"} \/ r \in {"fork.copy", "fork.ready"} => np # NoProc
  /\ l = "fork.ready" \/ r = "fork.ready" => start = "forkret"

ForkInv == \A p \in Slots : ForkOK(pc[p], resume[p], child[p], pc[child[p]])

IInv ==
  /\ TypeOK /\ LockHandover /\ RunsOnOneCpu
  /\ ResumeInv /\ CpuInv /\ ThreadInv /\ ChildInv /\ ForkInv
-----------------------------------------------------------------------------
\* Null pointers are no slots and no CPUs; &ticks is no process.
LEMMA Consts ==
  /\ NoCpu \notin CPU
  /\ NoProc \notin Slots
  /\ initproc \in Slots
  /\ tickschan \notin Slots
  BY ProcAssumption DEF NoCpu, CPU, NoProc, Slots, initproc, tickschan

USE DEF attrs, table, cpus, frame, threads, clock, At, Goto

\* What IInv says of the process p that CPU c executes.
LEMMA OnCpu ==
  ASSUME IInv, NEW c \in CPU, NEW p \in Slots, where[c] = "run", proc[c] = p
  PROVE  /\ state[p] = "RUNNING"
         /\ \A d \in CPU : d # c => proc[d] # p
         /\ \A q \in Slots : child[q] # p
         /\ lock = c <=> pc[p] \in Handover
         /\ tickslock = c <=> pc[p] \in {"wake", "sleep.lock"}
  <1>1. state[p] = "RUNNING" /\ \A d \in CPU : d # c => proc[d] # p
    BY Consts DEF IInv, RunsOnOneCpu
  <1>2. \A q \in Slots : child[q] # p
    BY <1>1, Consts DEF IInv, ChildInv
  <1>3. QED
    BY <1>1, <1>2 DEF IInv, LockHandover, HoldsPtable, HoldsTicks

\* A step of p that stays on its CPU c: p lets go of ptable.lock if it was
\* handed over, and holds tickslock after it only at the labels that say so.
KeepsCpu(c, p) ==
  /\ where[c] = "run" /\ proc[c] = p /\ UNCHANGED <<proc, where, pos>>
  /\ pc'[p] \notin Handover
  /\ \A q \in Slots : q # p => pc'[q] = pc[q] \/ state[q] # "RUNNING"
  /\ lock' = IF lock = c THEN NoCpu ELSE lock
  /\ \/ pc'[p] \in {"wake", "sleep.lock"} /\ tickslock \in {c, NoCpu} /\ tickslock' = c
     \/ /\ pc'[p] \notin {"wake", "sleep.lock"}
        /\ tickslock' = IF tickslock = c THEN NoCpu ELSE tickslock
  /\ \A q \in Slots : state'[q] = "RUNNING" <=> state[q] = "RUNNING"
  /\ \A q \in Slots : state'[q] \in {"UNUSED", "EMBRYO"} =>
       \/ state[q] \in {"UNUSED", "EMBRYO"}
       \/ state[q] = "ZOMBIE" /\ lock \in {c, NoCpu}

\* Such a step keeps the locks and the CPUs in order.
LEMMA StayOnCpu ==
  ASSUME IInv, NEW c \in CPU, NEW p \in Slots, KeepsCpu(c, p)
  PROVE  LockHandover' /\ RunsOnOneCpu' /\ CpuInv'
  <1> USE Consts DEF IInv, KeepsCpu
  <1>1. \A d \in CPU : d # c => proc[d] # p
    BY OnCpu
  <1>2. \A d \in CPU : where[d] = "run" => proc[d] \in Slots /\ state[proc[d]] = "RUNNING"
    BY DEF RunsOnOneCpu, CpuInv, TypeOK
  <1>3. \A d \in CPU : d # c /\ where[d] = "run" => pc'[proc[d]] = pc[proc[d]]
    BY <1>1, <1>2
  <1>4. LockHandover'
    <2>1. ASSUME NEW d \in CPU PROVE (lock = d <=> HoldsPtable(d))'
      <3>1. CASE d = c BY <3>1 DEF HoldsPtable, Handover
      <3>2. CASE d # c BY <3>2, <1>3 DEF HoldsPtable, LockHandover
      <3> QED BY <3>1, <3>2
    <2>2. ASSUME NEW d \in CPU PROVE (tickslock = d <=> HoldsTicks(d))'
      <3>1. CASE d = c BY <3>1 DEF HoldsTicks
      <3>2. CASE d # c BY <3>2, <1>3 DEF HoldsTicks, LockHandover
      <3> QED BY <3>1, <3>2
    <2> QED BY <2>1, <2>2 DEF LockHandover
  <1>5. RunsOnOneCpu'
    <2>1. ASSUME NEW d \in CPU, proc[d] # NoProc
          PROVE  state'[proc[d]] \notin {"UNUSED", "EMBRYO"}
      <3>1. proc[d] \in Slots BY <2>1 DEF TypeOK
      <3>2. CASE where[d] = "run" BY <3>1, <3>2, <1>2
      <3>3. CASE where[d] = "back"
        BY <3>1, <3>3, <2>1 DEF LockHandover, HoldsPtable, RunsOnOneCpu
      <3> QED BY <3>2, <3>3, <2>1 DEF CpuInv
    <2> QED BY <2>1 DEF RunsOnOneCpu
  <1>6. CpuInv'
    BY DEF CpuInv
  <1> QED BY <1>4, <1>5, <1>6

\* A step of p that ends in sched(): the lock stays with the CPU, and others
\* are at most woken.
LeavesCpu(c, p, l) ==
  /\ where[c] = "run" /\ proc[c] = p /\ lock \in {c, NoCpu}
  /\ Sched(c, p, l) /\ UNCHANGED <<proc, pos>>
  /\ tickslock' = IF tickslock = c THEN NoCpu ELSE tickslock
  /\ state'[p] \in {"RUNNABLE", "SLEEPING", "ZOMBIE"}
  /\ \A q \in Slots : q # p =>
       \/ state'[q] = state[q]
       \/ state[q] = "SLEEPING" /\ state'[q] = "RUNNABLE"

\* Such a step keeps the locks and the CPUs in order.
LEMMA LeaveCpu ==
  ASSUME IInv, NEW c \in CPU, NEW p \in Slots, NEW l, LeavesCpu(c, p, l)
  PROVE  LockHandover' /\ RunsOnOneCpu' /\ CpuInv'
  <1> USE Consts DEF IInv, LeavesCpu
  <1>0. /\ where' = [where EXCEPT ![c] = "back"]
        /\ pc' = [pc EXCEPT ![p] = l]
        /\ lock' = c
    BY DEF Sched
  <1>1. \A d \in CPU : d # c => proc[d] # p /\ where'[d] = where[d]
    BY <1>0, OnCpu DEF TypeOK
  <1>w. where'[c] = "back"
    BY <1>0 DEF TypeOK
  <1>2. \A d \in CPU : d # c /\ where[d] = "run" =>
          proc[d] \in Slots /\ pc'[proc[d]] = pc[proc[d]]
    BY <1>0, <1>1 DEF TypeOK, CpuInv
  <1>3. LockHandover'
    <2>1. ASSUME NEW d \in CPU PROVE (lock = d <=> HoldsPtable(d))'
      <3>1. CASE d = c BY <3>1, <1>0, <1>w DEF HoldsPtable
      <3>2. CASE d # c BY <3>2, <1>0, <1>1, <1>2 DEF HoldsPtable, LockHandover
      <3> QED BY <3>1, <3>2
    <2>2. ASSUME NEW d \in CPU PROVE (tickslock = d <=> HoldsTicks(d))'
      <3>1. CASE d = c BY <3>1, <1>0, <1>w DEF HoldsTicks
      <3>2. CASE d # c BY <3>2, <1>0, <1>1, <1>2 DEF HoldsTicks, LockHandover
      <3> QED BY <3>1, <3>2
    <2> QED BY <2>1, <2>2 DEF LockHandover
  <1>4. RunsOnOneCpu'
    <2>1. ASSUME NEW q \in Slots
          PROVE  state'[q] = "RUNNING" <=> \E d \in CPU : where'[d] = "run" /\ proc[d] = q
      <3>1. CASE q = p BY <3>1, <1>1, <1>w
      <3>2. CASE q # p BY <3>2, <1>1, <1>w DEF RunsOnOneCpu
      <3> QED BY <3>1, <3>2
    <2>2. ASSUME NEW d \in CPU, proc[d] # NoProc
          PROVE  state'[proc[d]] \notin {"UNUSED", "EMBRYO"}
      BY <2>2 DEF TypeOK, RunsOnOneCpu
    <2> QED BY <2>1, <2>2 DEF RunsOnOneCpu
  <1>5. CpuInv'
    BY <1>1, <1>w DEF CpuInv
  <1> QED BY <1>3, <1>4, <1>5

\* A step of p that stays on its CPU and disturbs no other process, save that it
\* may wake some; the label it comes to is in order.
StaysLocal(c, p) ==
  /\ KeepsCpu(c, p)
  /\ UNCHANGED child
  /\ \A q \in Slots : \/ state'[q] = state[q]
                      \/ state[q] = "SLEEPING" /\ state'[q] = "RUNNABLE"
  /\ \A q \in Slots : q # p => pc'[q] = pc[q] /\ resume'[q] = resume[q]
  /\ pc'[p] # "zombie" /\ (pc'[p] = "panic" => p = initproc)
  /\ ResumeOK(pc'[p], resume'[p])
  /\ \A l \in {"fork.copy", "fork.ready"} :
       pc'[p] = l \/ resume'[p] = l => pc[p] = l \/ resume[p] = l

\* Such a step preserves IInv.
LEMMA LocalStep ==
  ASSUME IInv, NEW c \in CPU, NEW p \in Slots, TypeOK', StaysLocal(c, p)
  PROVE  IInv'
  <1>0. state[p] = "RUNNING" /\ \A q \in Slots : child[q] # p
    BY OnCpu DEF StaysLocal, KeepsCpu
  <1>1. LockHandover' /\ RunsOnOneCpu' /\ CpuInv'
    BY StayOnCpu DEF StaysLocal
  <1>2. ResumeInv'
    BY DEF IInv, ResumeInv, StaysLocal
  <1>3. ThreadInv'
    BY <1>0 DEF IInv, ThreadInv, Handover, StaysLocal, KeepsCpu
  <1>4. ChildInv'
    BY DEF IInv, ChildInv, TypeOK, StaysLocal
  <1>5. ForkInv'
    <2> SUFFICES ASSUME NEW q \in Slots
                 PROVE  ForkOK(pc'[q], resume'[q], child'[q], pc'[child'[q]])
      BY DEF ForkInv
    <2>1. child'[q] = child[q] /\ (child[q] # NoProc => pc'[child[q]] = pc[child[q]])
      BY <1>0 DEF IInv, TypeOK, StaysLocal
    <2>2. ForkOK(pc[q], resume[q], child[q], pc[child[q]])
      BY DEF IInv, ForkInv
    <2>3. CASE q = p BY <2>1, <2>2, <2>3 DEF ForkOK, StaysLocal
    <2>4. CASE q # p BY <2>1, <2>2, <2>4 DEF ForkOK, StaysLocal
    <2> QED BY <2>3, <2>4
  <1> QED BY <1>1, <1>2, <1>3, <1>4, <1>5 DEF IInv

\* A step of p that ends in sched() and changes nobody's interrupt frame but
\* p's own.
Switches(c, p, l) ==
  /\ LeavesCpu(c, p, l)
  /\ UNCHANGED child
  /\ \/ state'[p] \in {"RUNNABLE", "SLEEPING"} /\ l \in Handover
     \/ state'[p] = "ZOMBIE" /\ l = "zombie" /\ resume'[p] = "none"
  /\ \A q \in Slots : q # p => resume'[q] = resume[q]
  /\ resume'[p] \in {resume[p], "none"}
  /\ ResumeOK(l, resume'[p])

\* Such a step preserves IInv.
LEMMA SwitchOut ==
  ASSUME IInv, NEW c \in CPU, NEW p \in Slots, NEW l, TypeOK', Switches(c, p, l)
  PROVE  IInv'
  <1>0. state[p] = "RUNNING" /\ \A q \in Slots : child[q] # p
    BY OnCpu DEF Switches, LeavesCpu
  <1>a. pc'[p] = l /\ \A q \in Slots : q # p => pc'[q] = pc[q]
    BY DEF IInv, TypeOK, Switches, LeavesCpu, Sched
  <1>b. l \notin {"panic", "fork.copy", "fork.ready"}
    BY DEF Handover, Switches
  <1>c. \A q \in Slots : q # p =>
          \/ state'[q] = state[q]
          \/ state[q] = "SLEEPING" /\ state'[q] = "RUNNABLE"
    BY DEF Switches, LeavesCpu
  <1>1. LockHandover' /\ RunsOnOneCpu' /\ CpuInv'
    BY LeaveCpu DEF Switches
  <1>2. ResumeInv'
    BY <1>a DEF IInv, ResumeInv, Switches
  <1>3. ThreadInv'
    BY <1>0, <1>a, <1>b, <1>c DEF IInv, ThreadInv, Handover, Switches
  <1>4. ChildInv'
    BY <1>0, <1>c DEF IInv, ChildInv, TypeOK, Switches
  <1>5. ForkInv'
    <2> SUFFICES ASSUME NEW q \in Slots
                 PROVE  ForkOK(pc'[q], resume'[q], child'[q], pc'[child'[q]])
      BY DEF ForkInv
    <2>1. child'[q] = child[q] /\ (child[q] # NoProc => pc'[child[q]] = pc[child[q]])
      BY <1>0, <1>a DEF IInv, TypeOK, Switches
    <2>2. ForkOK(pc[q], resume[q], child[q], pc[child[q]])
      BY DEF IInv, ForkInv
    <2>3. CASE q = p BY <1>a, <1>b, <2>1, <2>2, <2>3 DEF ForkOK, Switches
    <2>4. CASE q # p BY <1>a, <2>1, <2>2, <2>4 DEF ForkOK, Switches
    <2> QED BY <2>3, <2>4
  <1> QED BY <1>1, <1>2, <1>3, <1>4, <1>5 DEF IInv

\* The initial state after boot satisfies the invariant.
LEMMA InitIInv == Init => IInv
  BY Consts, ProcAssumption DEF Init, IInv, TypeOK, LockHandover, RunsOnOneCpu,
     ResumeInv, ResumeOK, CpuInv, ThreadInv, ChildInv, ForkInv, ForkOK, HoldsPtable, HoldsTicks,
     Handover, Labels, ProcState

-----------------------------------------------------------------------------
\* scheduler()

\* IInv is preserved: scheduler() takes ptable.lock.
LEMMA SchedAcquireStep ==
  ASSUME IInv, NEW c \in CPU, SchedAcquire(c)
  PROVE  IInv'
  <1> USE Consts DEF IInv, SchedAcquire
  <1>1. TypeOK'
    BY ProcAssumption DEF TypeOK, ProcState
  <1>2. LockHandover'
    BY DEF TypeOK, LockHandover, HoldsPtable, HoldsTicks
  <1>3. RunsOnOneCpu'
    BY DEF TypeOK, RunsOnOneCpu
  <1>4. CpuInv'
    BY DEF TypeOK, CpuInv
  <1>5. ResumeInv' /\ ThreadInv' /\ ChildInv' /\ ForkInv'
    BY DEF TypeOK, ResumeInv, ThreadInv, ChildInv, ForkInv
  <1> QED BY <1>1, <1>2, <1>3, <1>4, <1>5

\* IInv is preserved: the chosen process gets the lock with the CPU.
LEMMA SchedPickStep ==
  ASSUME IInv, NEW c \in CPU, NEW p \in Slots, SchedPick(c, p)
  PROVE  IInv'
  <1> USE Consts DEF IInv, SchedPick
  <1>0. \A d \in CPU : proc[d] # p
    BY DEF RunsOnOneCpu, LockHandover, HoldsPtable, CpuInv
  <1>1. TypeOK'
    <2>1. p \in 1..NPROC + 1
      BY ProcAssumption DEF Slots
    <2> QED BY <2>1 DEF TypeOK, ProcState
  <1>2. LockHandover'
    BY <1>0 DEF TypeOK, LockHandover, HoldsPtable, HoldsTicks, ThreadInv,
       Handover
  <1>3. RunsOnOneCpu'
    BY <1>0 DEF TypeOK, RunsOnOneCpu, CpuInv
  <1>4. CpuInv'
    BY DEF TypeOK, CpuInv
  <1>5. ResumeInv' /\ ThreadInv' /\ ChildInv' /\ ForkInv'
    BY DEF TypeOK, ResumeInv, ThreadInv, ChildInv, ForkInv, Handover
  <1> QED BY <1>1, <1>2, <1>3, <1>4, <1>5

\* IInv is preserved: the scheduler gives the lock up at the end of the table.
LEMMA SchedReleaseStep ==
  ASSUME IInv, NEW c \in CPU, SchedRelease(c)
  PROVE  IInv'
  <1> USE Consts DEF IInv, SchedRelease
  <1>1. TypeOK'
    BY ProcAssumption DEF TypeOK, ProcState
  <1>2. LockHandover'
    BY DEF TypeOK, LockHandover, HoldsPtable, HoldsTicks
  <1>3. RunsOnOneCpu'
    BY DEF TypeOK, RunsOnOneCpu
  <1>4. CpuInv'
    BY DEF TypeOK, CpuInv
  <1>5. ResumeInv' /\ ThreadInv' /\ ChildInv' /\ ForkInv'
    BY DEF TypeOK, ResumeInv, ThreadInv, ChildInv, ForkInv
  <1> QED BY <1>1, <1>2, <1>3, <1>4, <1>5

\* IInv is preserved: the CPU has left the process's stack, still with the lock.
LEMMA SchedBackStep ==
  ASSUME IInv, NEW c \in CPU, SchedBack(c)
  PROVE  IInv'
  <1> USE Consts DEF IInv, SchedBack
  <1>1. TypeOK'
    <2>1. pos[c] \in 1..NPROC
      BY DEF TypeOK, CpuInv, Slots
    <2>2. NextSlot(pos[c]) \in 1..NPROC + 1
      BY <2>1, ProcAssumption DEF NextSlot
    <2> QED BY <2>2 DEF TypeOK
  <1>2. LockHandover'
    BY DEF TypeOK, LockHandover, HoldsPtable, HoldsTicks
  <1>3. RunsOnOneCpu'
    BY DEF TypeOK, RunsOnOneCpu
  <1>4. CpuInv'
    BY DEF TypeOK, CpuInv
  <1>5. ResumeInv' /\ ThreadInv' /\ ChildInv' /\ ForkInv'
    BY DEF TypeOK, ResumeInv, ThreadInv, ChildInv, ForkInv
  <1> QED BY <1>1, <1>2, <1>3, <1>4, <1>5

-----------------------------------------------------------------------------
\* trap(): system calls and faults

\* IInv is preserved: entry of a system call.
LEMMA SyscallStep ==
  ASSUME IInv, NEW c \in CPU, NEW p \in Slots, Syscall(c, p)
  PROVE  IInv'
  <1>0. /\ state[p] = "RUNNING"
        /\ lock = c <=> pc[p] \in Handover
        /\ tickslock = c <=> pc[p] \in {"wake", "sleep.lock"}
    BY OnCpu DEF Syscall
  <1>a. PICK s \in Program[p] \ {"fault"} :
          pc' = [pc EXCEPT ![p] = IF killed[p] THEN "exit" ELSE s]
    BY Zenon DEF Syscall
  <1>b. s \in {"fork", "exit", "wait", "kill", "sleep", "yield"}
    BY ProcAssumption DEF Calls
  <1>1. TypeOK'
    BY <1>a, <1>b, ProcAssumption DEF IInv, TypeOK, Labels, Syscall
  <1>2. StaysLocal(c, p)
    BY <1>0, <1>a, <1>b, Consts, SMTT(30) DEF IInv, TypeOK, Syscall, StaysLocal, KeepsCpu, Handover,
       ResumeInv, ResumeOK, Handler
  <1> QED BY <1>1, <1>2, LocalStep

\* IInv is preserved: return from a system call.
LEMMA SyscallReturnStep ==
  ASSUME IInv, NEW c \in CPU, NEW p \in Slots, SyscallReturn(c, p)
  PROVE  IInv'
  <1>0. /\ state[p] = "RUNNING"
        /\ lock = c <=> pc[p] \in Handover
        /\ tickslock = c <=> pc[p] \in {"wake", "sleep.lock"}
    BY OnCpu DEF SyscallReturn
  <1>1. TypeOK'
    BY ProcAssumption DEF IInv, TypeOK, Labels, SyscallReturn
  <1>2. StaysLocal(c, p)
    BY <1>0, Consts, SMTT(30) DEF IInv, TypeOK, SyscallReturn, StaysLocal, KeepsCpu, Handover,
       ResumeInv, ResumeOK, Handler
  <1> QED BY <1>1, <1>2, LocalStep

\* IInv is preserved: a fault in user mode.
LEMMA FaultStep ==
  ASSUME IInv, NEW c \in CPU, NEW p \in Slots, Fault(c, p)
  PROVE  IInv'
  <1>0. /\ state[p] = "RUNNING"
        /\ lock = c <=> pc[p] \in Handover
        /\ tickslock = c <=> pc[p] \in {"wake", "sleep.lock"}
    BY OnCpu DEF Fault
  <1>1. TypeOK'
    BY ProcAssumption DEF IInv, TypeOK, Labels, Fault
  <1>2. StaysLocal(c, p)
    BY <1>0, Consts DEF IInv, TypeOK, Fault, StaysLocal, KeepsCpu, Handover,
       ResumeInv, ResumeOK, Handler, Interruptible
  <1> QED BY <1>1, <1>2, LocalStep

-----------------------------------------------------------------------------
\* fork()

\* IInv is preserved: allocproc() claims an unused slot.
LEMMA ForkAllocStep ==
  ASSUME IInv, NEW c \in CPU, NEW p \in Slots, ForkAlloc(c, p)
  PROVE  IInv'
  <1>0. /\ state[p] = "RUNNING"
        /\ \A q \in Slots : child[q] # p
        /\ tickslock # c
        /\ pc[p] = "fork" /\ resume[p] = "none"
    BY OnCpu DEF IInv, ResumeInv, ResumeOK, Handler, ForkAlloc
  <1>a. /\ where[c] = "run" /\ proc[c] = p /\ lock = NoCpu
        /\ UNCHANGED <<parent, chan, killed, lock, clock, cpus, resume, until>>
    BY DEF ForkAlloc
  <1>b. CASE pc' = [pc EXCEPT ![p] = "return"] /\ UNCHANGED <<state, pid, nextpid, child>>
    <2>1. TypeOK'
      BY <1>a, <1>b DEF IInv, TypeOK, Labels
    <2>2. StaysLocal(c, p)
      BY <1>0, <1>a, <1>b, Consts DEF IInv, TypeOK, StaysLocal, KeepsCpu, Handover,
         ResumeOK
    <2> QED BY <2>1, <2>2, LocalStep
  <1>c. ASSUME NEW q \in Slots, IsFirst(q, UnusedSlots),
               state' = [state EXCEPT ![q] = "EMBRYO"],
               pid' = [pid EXCEPT ![q] = nextpid],
               nextpid' = nextpid + 1,
               child' = [child EXCEPT ![p] = q],
               pc' = [pc EXCEPT ![p] = "fork.copy"]
        PROVE  IInv'
    <2>0. state[q] = "UNUSED"
      BY <1>c DEF IsFirst, UnusedSlots
    <2>1. TypeOK'
      BY <1>a, <1>c DEF IInv, TypeOK, ProcState, Labels
    <2>2. KeepsCpu(c, p)
      BY <1>0, <1>a, <1>c, <2>0, Consts DEF IInv, TypeOK, KeepsCpu, Handover
    <2>3. ResumeInv'
      BY <1>0, <1>a, <1>c DEF IInv, TypeOK, ResumeInv, ResumeOK
    <2>4. ThreadInv'
      BY <1>0, <1>a, <1>c, <2>0 DEF IInv, TypeOK, ThreadInv, Handover
    <2>5. ChildInv'
      BY <1>c, <2>0, Consts DEF IInv, TypeOK, ChildInv
    <2>6. ForkInv'
      BY <1>0, <1>a, <1>c, Consts DEF IInv, TypeOK, ForkInv, ForkOK
    <2> QED BY <2>1, <2>2, <2>3, <2>4, <2>5, <2>6, StayOnCpu DEF IInv
  <1> QED BY <1>b, <1>c DEF ForkAlloc

\* In fork, between allocproc() and the release of the child, the child is an
\* EMBRYO that belongs to p alone.
LEMMA InFork ==
  ASSUME IInv, NEW c \in CPU, NEW p \in Slots, where[c] = "run", proc[c] = p,
         pc[p] \in {"fork.copy", "fork.ready"}
  PROVE  /\ state[p] = "RUNNING" /\ resume[p] = "none"
         /\ lock # c /\ tickslock # c
         /\ child[p] \in Slots /\ child[p] # p /\ state[child[p]] = "EMBRYO"
         /\ resume[child[p]] = "none"
         /\ \A q \in Slots : q # p => child[q] # child[p]
         /\ \A q \in Slots : child[q] # p
  <1>1. /\ state[p] = "RUNNING" /\ lock # c /\ tickslock # c
        /\ \A q \in Slots : child[q] # p
    BY OnCpu DEF Handover
  <1>2. resume[p] = "none"
    BY DEF IInv, ResumeInv, ResumeOK, Handler
  <1>3. child[p] \in Slots
    BY DEF IInv, ForkInv, ForkOK, TypeOK
  <1>4. state[child[p]] = "EMBRYO" /\ \A q \in Slots : q # p => child[q] # child[p]
    BY <1>3, Consts DEF IInv, ChildInv
  <1> QED BY <1>1, <1>2, <1>3, <1>4 DEF IInv, ThreadInv

\* IInv is preserved: a failed fork gives the slot back without the lock.
LEMMA ForkFailStep ==
  ASSUME IInv, NEW c \in CPU, NEW p \in Slots, ForkFail(c, p)
  PROVE  IInv'
  <1> DEFINE np == child[p]
  <1>0. /\ where[c] = "run" /\ proc[c] = p
        /\ state' = [state EXCEPT ![np] = "UNUSED"]
        /\ child' = [child EXCEPT ![p] = NoProc]
        /\ pc' = [pc EXCEPT ![p] = "return"]
        /\ UNCHANGED <<attrs, nextpid, lock, clock, cpus, resume, until>>
    BY DEF ForkFail
  <1>a. /\ state[p] = "RUNNING" /\ resume[p] = "none" /\ lock # c /\ tickslock # c
        /\ np \in Slots \ {p} /\ state[np] = "EMBRYO" /\ resume[np] = "none"
        /\ \A q \in Slots : q # p => child[q] # np
        /\ \A q \in Slots : child[q] # p
    BY InFork DEF ForkFail
  <1> HIDE DEF np
  <1>1. TypeOK'
    BY <1>0, <1>a DEF IInv, TypeOK, ProcState, Labels
  <1>2. KeepsCpu(c, p)
    BY <1>0, <1>a, Consts DEF IInv, TypeOK, KeepsCpu, Handover
  <1>3. ResumeInv'
    BY <1>0, <1>a DEF IInv, TypeOK, ResumeInv, ResumeOK
  <1>4. ThreadInv'
    BY <1>0, <1>a DEF IInv, TypeOK, ThreadInv, Handover
  <1>5. ChildInv'
    BY <1>0, <1>a, Consts DEF IInv, TypeOK, ChildInv
  <1>6. ForkInv'
    BY <1>0, <1>a, Consts, SMTT(30) DEF IInv, TypeOK, ForkInv, ForkOK
  <1> QED BY <1>1, <1>2, <1>3, <1>4, <1>5, <1>6, StayOnCpu DEF IInv

\* IInv is preserved: the child's thread and parent are set without the lock.
LEMMA ForkCopyStep ==
  ASSUME IInv, NEW c \in CPU, NEW p \in Slots, ForkCopy(c, p)
  PROVE  IInv'
  <1> DEFINE np == child[p]
  <1>0. /\ parent' = [parent EXCEPT ![np] = p]
        /\ pc' = [pc EXCEPT ![p] = "fork.ready", ![np] = "forkret"]
    BY Zenon DEF ForkCopy
  <1>c. /\ where[c] = "run" /\ proc[c] = p
        /\ UNCHANGED <<state, pid, chan, killed, nextpid, lock, clock, cpus, resume,
                       frame>>
    BY DEF ForkCopy
  <1>a. /\ state[p] = "RUNNING" /\ resume[p] = "none" /\ lock # c /\ tickslock # c
        /\ np \in Slots \ {p} /\ state[np] = "EMBRYO" /\ resume[np] = "none"
        /\ \A q \in Slots : q # p => child[q] # np
        /\ \A q \in Slots : child[q] # p
    BY InFork DEF ForkCopy
  <1>d. np = child[p]
    OBVIOUS
  <1> HIDE DEF np
  <1>b. /\ pc'[p] = "fork.ready" /\ pc'[np] = "forkret"
        /\ \A q \in Slots : q \notin {p, np} => pc'[q] = pc[q]
    BY <1>0, <1>a DEF IInv, TypeOK
  <1>1. TypeOK'
    BY <1>0, <1>a, <1>c DEF IInv, TypeOK, ProcState, Labels
  <1>2. KeepsCpu(c, p)
    BY <1>c, <1>a, <1>b, Consts, SMTT(30) DEF KeepsCpu, Handover
  <1>3. ResumeInv'
    BY <1>c, <1>a, <1>b, Zenon DEF IInv, ResumeInv, ResumeOK
  <1>4. ThreadInv'
    BY <1>c, <1>a, <1>b DEF IInv, ThreadInv, Handover
  <1>5. ChildInv'
    BY <1>c, Zenon DEF IInv, ChildInv
  <1>6. ForkInv'
    <2> SUFFICES ASSUME NEW q \in Slots
                 PROVE  ForkOK(pc'[q], resume[q], child[q], pc'[child[q]])
      BY <1>c DEF ForkInv
    <2>0. ForkOK(pc[q], resume[q], child[q], pc[child[q]])
      BY DEF IInv, ForkInv
    <2>1. CASE q = p
      BY <2>1, <1>a, <1>b, <1>d, Consts DEF ForkOK
    <2>2. CASE q = np
      BY <2>2, <1>a, <1>b DEF ForkOK
    <2>3. CASE q \notin {p, np}
      <3>1. child[q] # NoProc => pc'[child[q]] = pc[child[q]]
        BY <2>3, <1>a, <1>b DEF IInv, TypeOK
      <3> QED BY <2>0, <2>3, <3>1, <1>b DEF ForkOK
    <2> QED BY <2>1, <2>2, <2>3
  <1> QED BY <1>1, <1>2, <1>3, <1>4, <1>5, <1>6, StayOnCpu DEF IInv

\* IInv is preserved: the child becomes RUNNABLE.
LEMMA ForkReadyStep ==
  ASSUME IInv, NEW c \in CPU, NEW p \in Slots, ForkReady(c, p)
  PROVE  IInv'
  <1> DEFINE np == child[p]
  <1>0. /\ where[c] = "run" /\ proc[c] = p
        /\ state' = [state EXCEPT ![np] = "RUNNABLE"]
        /\ child' = [child EXCEPT ![p] = NoProc]
        /\ pc' = [pc EXCEPT ![p] = "return"]
        /\ UNCHANGED <<attrs, nextpid, lock, clock, cpus, resume, until>>
    BY DEF ForkReady
  <1>a. /\ state[p] = "RUNNING" /\ resume[p] = "none" /\ lock # c /\ tickslock # c
        /\ np \in Slots \ {p} /\ state[np] = "EMBRYO" /\ resume[np] = "none"
        /\ \A q \in Slots : q # p => child[q] # np
        /\ \A q \in Slots : child[q] # p
    BY InFork DEF ForkReady
  <1>b. pc[np] = "forkret"
    BY DEF IInv, ForkInv, ForkOK, ForkReady
  <1> HIDE DEF np
  <1>1. TypeOK'
    BY <1>0, <1>a DEF IInv, TypeOK, ProcState, Labels
  <1>2. KeepsCpu(c, p)
    BY <1>0, <1>a, Consts DEF IInv, TypeOK, KeepsCpu, Handover
  <1>3. ResumeInv'
    BY <1>0, <1>a DEF IInv, TypeOK, ResumeInv, ResumeOK
  <1>4. ThreadInv'
    BY <1>0, <1>a, <1>b DEF IInv, TypeOK, ThreadInv, Handover
  <1>5. ChildInv'
    BY <1>0, <1>a, Consts DEF IInv, TypeOK, ChildInv
  <1>6. ForkInv'
    BY <1>0, <1>a, Consts DEF IInv, TypeOK, ForkInv, ForkOK
  <1> QED BY <1>1, <1>2, <1>3, <1>4, <1>5, <1>6, StayOnCpu DEF IInv

\* IInv is preserved: the child's first step releases the lock.
LEMMA ForkretStep ==
  ASSUME IInv, NEW c \in CPU, NEW p \in Slots, Forkret(c, p)
  PROVE  IInv'
  <1>0. /\ state[p] = "RUNNING"
        /\ lock = c <=> pc[p] \in Handover
        /\ tickslock = c <=> pc[p] \in {"wake", "sleep.lock"}
    BY OnCpu DEF Forkret
  <1>1. TypeOK'
    BY ProcAssumption DEF IInv, TypeOK, Labels, Forkret
  <1>2. StaysLocal(c, p)
    BY <1>0, Consts DEF IInv, TypeOK, Forkret, StaysLocal, KeepsCpu, Handover,
       ResumeInv, ResumeOK, Handler
  <1> QED BY <1>1, <1>2, LocalStep

=============================================================================
