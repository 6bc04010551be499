---------------------------- MODULE SchedProofs -----------------------------
(***************************************************************************)
(* The nested loops of scheduler() choose the process that SchedRule       *)
(* names, for a table of any size and any priorities; and how the          *)
(* scheduler charges slices and turns, promotes and demotes, for every     *)
(* number of slots and CPUs and all thresholds.                            *)
(***************************************************************************)
EXTENDS SchedTimes, TLAPS

\* The loops of scheduler() that choose a process, with variables of their own.
VARIABLES runnable, prio, start, cur, highest, at

Loop == INSTANCE SchedLoop WITH Priorities <- Int, priority <- prio, p <- cur, pc <- at

\* The outer loop has passed no RUNNABLE slot.
OuterInv ==
  at = "outer" => cur >= start /\ \A q \in runnable : q >= start => q >= cur

\* After the inner loop has seen the slots before i: h is s, the slot the outer
\* loop found, unless a slot before i has higher priority; then it is the first
\* of the highest priority seen.
BestSoFar(s, h, i) ==
  /\ Loop!FirstFrom(runnable, start, s)
  /\ h \in runnable
  /\ prio[s] <= prio[h]
  /\ \A r \in runnable : r < i => prio[r] <= prio[h]
  /\ h # s => /\ prio[s] < prio[h]
              /\ \A r \in runnable : r < h => prio[r] < prio[h]

InnerInv == at = "inner" => \E s \in Loop!Slots : BestSoFar(s, highest, cur)

LInv == Loop!TypeOK /\ OuterInv /\ InnerInv /\ Loop!LoopsChoose /\ Loop!ReleasedWhenNone

\* The priorities of the table are integers.
LEMMA PriorityInt == Loop!TypeOK => \A q \in Loop!Slots : prio[q] \in Int
  BY SchedAssumption DEF Loop!TypeOK

\* Once the inner loop has seen every slot, the best so far is the chosen one.
LEMMA BestIsChosen ==
  ASSUME Loop!TypeOK, NEW s \in Loop!Slots, NEW h \in Loop!Slots, BestSoFar(s, h, NPROC + 1)
  PROVE  Loop!Chosen(runnable, prio, start, h)
  <1>1. \A r \in runnable : prio[r] <= prio[h]
    BY SchedAssumption DEF Loop!TypeOK, Loop!Slots, BestSoFar
  <1>2. h \in Loop!Best(runnable, prio)
    BY <1>1 DEF Loop!Best, BestSoFar
  <1>3. CASE h = s
    BY <1>2, <1>3 DEF Loop!Chosen, BestSoFar, Loop!FirstFrom
  <1>4. CASE h # s
    <2>1. s \notin Loop!Best(runnable, prio)
      BY <1>4, PriorityInt DEF Loop!Best, BestSoFar, Loop!TypeOK, Loop!FirstFrom
    <2>2. \A r \in Loop!Best(runnable, prio) : h <= r
      BY <1>4, <1>2, PriorityInt DEF Loop!Best, BestSoFar, Loop!TypeOK, Loop!Slots
    <2>3. Loop!FirstFrom(Loop!Best(runnable, prio), 1, h)
      BY <1>2, <2>2 DEF Loop!FirstFrom, Loop!Slots
    <2> QED BY <2>1, <2>3 DEF Loop!Chosen, BestSoFar, Loop!FirstFrom
  <1> QED BY <1>3, <1>4

\* One iteration of the inner loop.
LEMMA InnerKeeps ==
  ASSUME Loop!TypeOK, NEW s \in Loop!Slots, at = "inner", BestSoFar(s, highest, cur), Loop!InnerStep
  PROVE  BestSoFar(s, highest', cur')
  <1>0. /\ cur \in Loop!Slots /\ cur' = cur + 1 /\ highest \in Loop!Slots
        /\ \A q \in Loop!Slots : prio[q] \in Int
        /\ runnable \subseteq Loop!Slots
        /\ \A r \in Loop!Slots : r < cur + 1 => r < cur \/ r = cur
    BY PriorityInt DEF Loop!TypeOK, Loop!InnerStep, Loop!InTable, Loop!Slots, BestSoFar
  <1>1. CASE cur \in runnable /\ Loop!Prefers(cur, highest)
    <2>1. highest' = cur /\ prio[highest] < prio[cur]
      BY <1>0, <1>1 DEF Loop!InnerStep, Loop!Prefers
    <2>2. \A r \in runnable : r < cur => prio[r] < prio[cur]
      BY <1>0, <2>1 DEF BestSoFar
    <2>3. prio[s] < prio[cur]
      BY <1>0, <2>1 DEF BestSoFar
    <2>4. \A r \in runnable : r < cur + 1 => prio[r] <= prio[cur]
      BY <1>0, <2>2
    <2> QED BY <1>0, <1>1, <2>1, <2>2, <2>3, <2>4 DEF BestSoFar
  <1>2. CASE ~ (cur \in runnable /\ Loop!Prefers(cur, highest))
    <2>1. highest' = highest /\ (cur \in runnable => prio[cur] <= prio[highest])
      BY <1>0, <1>2 DEF Loop!InnerStep, Loop!Prefers
    <2>2. \A r \in runnable : r < cur + 1 => prio[r] <= prio[highest]
      BY <1>0, <2>1 DEF BestSoFar
    <2> QED BY <1>0, <2>1, <2>2 DEF BestSoFar
  <1> QED BY <1>1, <1>2

\* Every step of the loops preserves LInv.
LEMMA LoopInductive == LInv /\ [Loop!Next]_(Loop!vars) => LInv'
  <1> SUFFICES ASSUME LInv, [Loop!Next]_(Loop!vars) PROVE LInv'
    OBVIOUS
  <1> USE DEF Loop!table
  <1>1. CASE Loop!OuterSkip
    BY <1>1, SchedAssumption DEF Loop!OuterSkip, LInv, Loop!TypeOK, OuterInv, InnerInv,
       Loop!LoopsChoose,
       Loop!ReleasedWhenNone, Loop!InTable, Loop!Slots
  <1>2. CASE Loop!OuterFound
    <2>1. Loop!TypeOK' /\ OuterInv' /\ Loop!LoopsChoose' /\ Loop!ReleasedWhenNone'
      BY <1>2, SchedAssumption DEF Loop!OuterFound, LInv, Loop!TypeOK, OuterInv, Loop!LoopsChoose,
         Loop!ReleasedWhenNone, Loop!InTable, Loop!Slots
    <2>2. cur \in Loop!Slots /\ BestSoFar(cur, cur, 1)
      BY <1>2, PriorityInt DEF Loop!OuterFound, LInv, Loop!TypeOK, OuterInv, BestSoFar, Loop!FirstFrom,
         Loop!Slots
    <2>3. InnerInv'
      BY <1>2, <2>2 DEF Loop!OuterFound, InnerInv, BestSoFar
    <2> QED BY <2>1, <2>3 DEF LInv
  <1>3. CASE Loop!OuterEnd
    BY <1>3, SchedAssumption DEF Loop!OuterEnd, LInv, Loop!TypeOK, OuterInv, InnerInv, Loop!LoopsChoose,
       Loop!ReleasedWhenNone, Loop!InTable, Loop!Slots
  <1>4. CASE Loop!InnerStep
    <2>1. Loop!TypeOK' /\ OuterInv' /\ Loop!LoopsChoose' /\ Loop!ReleasedWhenNone'
      BY <1>4, SchedAssumption DEF Loop!InnerStep, LInv, Loop!TypeOK, OuterInv, Loop!LoopsChoose,
         Loop!ReleasedWhenNone, Loop!InTable, Loop!Slots
    <2>2. PICK s \in Loop!Slots : BestSoFar(s, highest, cur)
      BY <1>4 DEF Loop!InnerStep, LInv, InnerInv
    <2>3. BestSoFar(s, highest', cur')
      BY <1>4, <2>2, InnerKeeps DEF Loop!InnerStep, LInv
    <2>4. InnerInv'
      BY <1>4, <2>3 DEF Loop!InnerStep, InnerInv, BestSoFar
    <2> QED BY <2>1, <2>4 DEF LInv
  <1>5. CASE Loop!InnerEnd
    <2>0. PICK s \in Loop!Slots : BestSoFar(s, highest, cur)
      BY <1>5 DEF Loop!InnerEnd, LInv, InnerInv
    <2>1. highest \in Loop!Slots /\ highest # 0 /\ cur = NPROC + 1
      BY <1>5, <2>0, SchedAssumption DEF Loop!InnerEnd, LInv, Loop!TypeOK, Loop!InTable, Loop!Slots, BestSoFar
    <2>2. at' = "dispatch" /\ cur' = highest /\ UNCHANGED <<Loop!table, highest>>
      BY <1>5, <2>1 DEF Loop!InnerEnd
    <2>3. Loop!Chosen(runnable, prio, start, highest)
      BY <2>0, <2>1, BestIsChosen DEF LInv
    <2>4. Loop!TypeOK'
      BY <2>1, <2>2, SchedAssumption DEF LInv, Loop!TypeOK, Loop!Slots
    <2> QED
      BY <2>2, <2>3, <2>4 DEF LInv, OuterInv, InnerInv, Loop!LoopsChoose, Loop!ReleasedWhenNone
  <1>6. CASE Loop!Done \/ UNCHANGED Loop!vars
    BY <1>6 DEF Loop!Done, Loop!vars, LInv, Loop!TypeOK, OuterInv, InnerInv, BestSoFar, Loop!LoopsChoose,
       Loop!ReleasedWhenNone
  <1> QED BY <1>1, <1>2, <1>3, <1>4, <1>5, <1>6 DEF Loop!Next

\* The loops of scheduler() are correct for every table: LInv is invariant.
THEOREM LoopInvariance == Loop!Spec => []LInv
  <1>1. Loop!Init => LInv
    BY SchedAssumption DEF Loop!Init, LInv, Loop!TypeOK, OuterInv, InnerInv, Loop!LoopsChoose,
       Loop!ReleasedWhenNone, Loop!Slots
  <1> QED BY <1>1, LoopInductive, PTL DEF Loop!Spec

\* What the loops dispatch is what the rule says: the first RUNNABLE process
\* from where the scan stands, or else the first one of the highest priority.
THEOREM LoopsMeetRule == Loop!Spec => []Loop!LoopsChoose
  <1>1. LInv => Loop!LoopsChoose BY DEF LInv
  <1> QED BY <1>1, LoopInvariance, PTL

\* The scheduler gives ptable.lock up only when the rest of the table holds no
\* RUNNABLE process.
THEOREM LoopsReleaseRightly == Loop!Spec => []Loop!ReleasedWhenNone
  <1>1. LInv => Loop!ReleasedWhenNone BY DEF LInv
  <1> QED BY <1>1, LoopInvariance, PTL
-----------------------------------------------------------------------------
\* What each place of scheduler() says of its CPU, and who has ptable.lock.
CpuInv ==
  \A c \in CPU :
    /\ lock = c <=> where[c] \in {"scan", "back"}
    /\ where[c] \in {"top", "scan"} <=> proc[c] = NoProc
    /\ where[c] \in {"run", "back"} => pos[c] = proc[c]
    /\ where[c] = "run" => state[proc[c]] = "RUNNING"
    /\ where[c] = "back" => state[proc[c]] \in {"RUNNABLE", "SLEEPING", "ZOMBIE"}

\* A process is on one CPU at most.
OneCpu == \A c, d \in CPU : c # d /\ proc[c] # NoProc => proc[c] # proc[d]

\* A pid is given once, and every slot in use has one.
PidInv ==
  /\ nextpid > 0
  /\ \A q \in Slots : pid[q] < nextpid /\ (state[q] # "UNUSED" => pid[q] # 0)
  /\ \A q, r \in Slots : q # r /\ pid[q] = pid[r] => pid[q] = 0

\* A process that was never dispatched has no turns.
EmbryoInv == \A q \in Slots : state[q] = "EMBRYO" => queue_time[q] = 0

SInv ==
  /\ TypeOK /\ CpuInv /\ OneCpu /\ PidInv /\ EmbryoInv
  /\ SliceCharged /\ NoMissedPromotion

\* The null values are no CPU and no slot.
LEMMA Nulls == NoCpu \notin CPU /\ NoProc \notin Slots
  BY SchedAssumption DEF NoCpu, CPU, NoProc, Slots

USE SchedAssumption, Nulls DEF cpus

\* The invariant holds when userinit() is done.
LEMMA SchedInit == Init => SInv
  BY DEF Init, SInv, TypeOK, CpuInv, OneCpu, PidInv, EmbryoInv, SliceCharged,
     NoMissedPromotion, Due, Slots, initproc, Priorities, ProcState, NoProc

\* sched(): only the state of the process changes, and the lock.
LEMMA LeaveKeeps ==
  ASSUME SInv, NEW c \in CPU, NEW p \in Slots, NEW s \in {"RUNNABLE", "SLEEPING", "ZOMBIE"},
         Leave(c, p, s)
  PROVE  SInv'
  <1>1. TypeOK'
    BY DEF SInv, TypeOK, Leave, Runs, ProcState
  <1>2. CpuInv' /\ OneCpu'
    BY DEF SInv, TypeOK, CpuInv, OneCpu, Leave, Runs
  <1>3. PidInv' /\ EmbryoInv'
    BY DEF SInv, TypeOK, CpuInv, PidInv, EmbryoInv, Leave, Runs
  <1>4. SliceCharged'
    BY DEF SInv, TypeOK, SliceCharged, Leave, Runs
  <1>5. NoMissedPromotion'
    BY DEF SInv, TypeOK, NoMissedPromotion, Due, Leave, Runs
  <1> QED BY <1>1, <1>2, <1>3, <1>4, <1>5 DEF SInv

\* scheduler() takes the lock: no process is touched.
LEMMA AcquireKeeps ==
  ASSUME SInv, NEW c \in CPU, SchedAcquire(c)
  PROVE  SInv'
  <1>1. TypeOK' /\ CpuInv' /\ OneCpu' /\ PidInv' /\ EmbryoInv'
    BY DEF SInv, TypeOK, CpuInv, OneCpu, PidInv, EmbryoInv, SchedAcquire
  <1>2. SliceCharged' /\ NoMissedPromotion'
    BY DEF SInv, TypeOK, SliceCharged, NoMissedPromotion, Due, SchedAcquire
  <1> QED BY <1>1, <1>2 DEF SInv

\* scheduler() gives the lock up at the end of the table.
LEMMA ReleaseKeeps ==
  ASSUME SInv, NEW c \in CPU, SchedRelease(c)
  PROVE  SInv'
  <1>1. TypeOK' /\ CpuInv' /\ OneCpu' /\ PidInv' /\ EmbryoInv'
    BY DEF SInv, TypeOK, CpuInv, OneCpu, PidInv, EmbryoInv, SchedRelease
  <1>2. SliceCharged' /\ NoMissedPromotion'
    BY DEF SInv, TypeOK, SliceCharged, NoMissedPromotion, Due, SchedRelease
  <1> QED BY <1>1, <1>2 DEF SInv

\* The chosen process is RUNNABLE, and so on no CPU.
LEMMA ChosenIsFree ==
  ASSUME SInv, NEW c \in CPU, NEW p \in Slots, where[c] = "scan",
         Chosen(Runnable, priority, pos[c], p)
  PROVE  /\ state[p] = "RUNNABLE"
         /\ \A q \in Runnable : priority[q] <= priority[p]
         /\ lock = c
         /\ \A d \in CPU : proc[d] # p
  <1>1. PICK s \in Runnable :
          /\ FirstFrom(Runnable, pos[c], s)
          /\ IF s \in Best(Runnable, priority) THEN p = s
             ELSE FirstFrom(Best(Runnable, priority), 1, p)
    BY DEF Chosen
  <1>2. p \in Best(Runnable, priority)
    BY <1>1 DEF FirstFrom
  <1>3. p \in Runnable /\ \A q \in Runnable : priority[q] <= priority[p]
    BY <1>2 DEF Best
  <1>4. lock = c /\ \A d \in CPU : proc[d] # p
    BY <1>3 DEF SInv, CpuInv, TypeOK, Runnable
  <1> QED BY <1>3, <1>4 DEF Runnable

\* A dispatch gives a full slice to a process that is on no CPU.
LEMMA DispatchKeeps ==
  ASSUME SInv, NEW c \in CPU, NEW p \in Slots, Dispatch(c, p)
  PROVE  SInv'
  <1>0. /\ state[p] = "RUNNABLE" /\ lock = c
        /\ \A d \in CPU : proc[d] # p
    BY ChosenIsFree DEF Dispatch
  <1>1. TypeOK'
    <2>1. queue_time' \in [Slots -> 0..QueueMax]
      BY DEF SInv, TypeOK, Dispatch, Count
    <2>2. pos' \in [CPU -> 1..NPROC + 1]
      <3>1. p \in 1..NPROC + 1
        BY DEF Slots
      <3> QED BY <3>1 DEF SInv, TypeOK, Dispatch
    <2>3. time_slice' \in [Slots -> 0..INTERV]
      BY DEF SInv, TypeOK, Dispatch
    <2> QED BY <2>1, <2>2, <2>3 DEF SInv, TypeOK, Dispatch, ProcState
  <1>2. CpuInv' /\ OneCpu'
    BY <1>0 DEF SInv, TypeOK, CpuInv, OneCpu, Dispatch
  <1>3. PidInv' /\ EmbryoInv'
    BY <1>0 DEF SInv, TypeOK, PidInv, EmbryoInv, Dispatch
  <1>4. SliceCharged'
    BY <1>0 DEF SInv, TypeOK, CpuInv, SliceCharged, Dispatch
  <1>5. NoMissedPromotion'
    <2> SUFFICES ASSUME NEW q \in Slots, state'[q] \in {"EMBRYO", "RUNNABLE", "SLEEPING", "ZOMBIE"},
                        Due(q)'
                 PROVE  \E d \in CPU : proc'[d] = q
      BY DEF NoMissedPromotion
    <2>1. q # p /\ Due(q) /\ state[q] = state'[q]
      BY DEF SInv, TypeOK, Dispatch, Due
    <2>2. PICK d \in CPU : proc[d] = q
      BY <2>1 DEF SInv, NoMissedPromotion
    <2>3. d # c
      BY <2>2 DEF SInv, CpuInv, TypeOK, Dispatch
    <2> QED BY <2>2, <2>3 DEF SInv, TypeOK, Dispatch
  <1> QED BY <1>1, <1>2, <1>3, <1>4, <1>5 DEF SInv

\* The pass at the end of a turn leaves nobody due.
LEMMA BackKeeps ==
  ASSUME SInv, NEW c \in CPU, SchedBack(c)
  PROVE  SInv'
  <1>0. lock = c /\ proc[c] \in Slots /\ pos[c] = proc[c]
    BY DEF SInv, TypeOK, CpuInv, SchedBack
  <1>1. TypeOK'
    <2>1. priority' \in [Slots -> Priorities \cup {0}]
      BY DEF SInv, TypeOK, SchedBack, Aging, Priorities
    <2>2. queue_time' \in [Slots -> 0..QueueMax]
      BY DEF SInv, TypeOK, SchedBack
    <2>3. pos' \in [CPU -> 1..NPROC + 1]
      <3>1. pos[c] \in 1..NPROC
        BY <1>0 DEF Slots
      <3> QED BY <3>1 DEF SInv, TypeOK, SchedBack, NextSlot
    <2> QED BY <2>1, <2>2, <2>3 DEF SInv, TypeOK, SchedBack
  <1>2. CpuInv' /\ OneCpu'
    BY <1>0 DEF SInv, TypeOK, CpuInv, OneCpu, SchedBack
  <1>3. PidInv' /\ EmbryoInv'
    BY DEF SInv, TypeOK, PidInv, EmbryoInv, SchedBack
  <1>4. SliceCharged'
    BY <1>0 DEF SInv, TypeOK, SliceCharged, SchedBack
  <1>5. ASSUME NEW q \in Slots PROVE ~ Due(q)'
    <2>1. CASE Aging(q)
      BY <2>1 DEF SInv, TypeOK, SchedBack, Aging, Due
    <2>2. CASE ~ Aging(q)
      BY <2>2 DEF SInv, TypeOK, SchedBack, Aging, Due, Priorities
    <2> QED BY <2>1, <2>2
  <1>6. NoMissedPromotion'
    BY <1>5 DEF NoMissedPromotion
  <1> QED BY <1>1, <1>2, <1>3, <1>4, <1>6 DEF SInv

\* A tick is charged to the process that is on the CPU, and that is on no other.
LEMMA TickKeeps ==
  ASSUME SInv, NEW c \in CPU, NEW p \in Slots, Tick(c, p)
  PROVE  SInv'
  <1>1. TypeOK' /\ CpuInv' /\ OneCpu' /\ PidInv' /\ EmbryoInv'
    BY SMTT(30) DEF SInv, TypeOK, CpuInv, OneCpu, PidInv, EmbryoInv, Tick, Runs
  <1>2. SliceCharged'
    BY DEF SInv, TypeOK, OneCpu, SliceCharged, Tick, Runs
  <1>3. NoMissedPromotion'
    BY DEF SInv, TypeOK, NoMissedPromotion, Due, Tick
  <1> QED BY <1>1, <1>2, <1>3 DEF SInv

\* wakeup() and kill() only make sleepers RUNNABLE, and those are on no CPU.
LEMMA WakeupKeeps ==
  ASSUME SInv, NEW S \in SUBSET Slots, Wakeup(S)
  PROVE  SInv'
  <1>1. TypeOK' /\ PidInv' /\ EmbryoInv'
    BY DEF SInv, TypeOK, PidInv, EmbryoInv, Wakeup, ProcState
  <1>2. CpuInv' /\ OneCpu'
    BY DEF SInv, TypeOK, CpuInv, OneCpu, Wakeup
  <1>3. SliceCharged' /\ NoMissedPromotion'
    BY DEF SInv, TypeOK, SliceCharged, NoMissedPromotion, Due, Wakeup
  <1> QED BY <1>1, <1>2, <1>3 DEF SInv

\* allocproc() takes a slot that is on no CPU, and a pid that nobody has.
LEMMA AllocKeeps ==
  ASSUME SInv, NEW c \in CPU, NEW q \in Slots, Alloc(c, q)
  PROVE  SInv'
  <1>0. state[q] = "UNUSED"
    BY DEF Alloc, IsFirst
  <1>1. TypeOK'
    BY DEF SInv, TypeOK, Alloc, ProcState, Priorities
  <1>2. CpuInv' /\ OneCpu'
    BY <1>0 DEF SInv, TypeOK, CpuInv, OneCpu, Alloc
  <1>3. PidInv' /\ EmbryoInv'
    BY <1>0 DEF SInv, TypeOK, PidInv, EmbryoInv, Alloc
  <1>4. SliceCharged' /\ NoMissedPromotion'
    BY DEF SInv, TypeOK, SliceCharged, NoMissedPromotion, Due, Alloc
  <1> QED BY <1>1, <1>2, <1>3, <1>4 DEF SInv

\* A fork() that fails gives an EMBRYO slot back.
LEMMA ForkFailKeeps ==
  ASSUME SInv, NEW c \in CPU, NEW q \in Slots, ForkFail(c, q)
  PROVE  SInv'
  <1>1. TypeOK' /\ PidInv' /\ EmbryoInv'
    BY DEF SInv, TypeOK, PidInv, EmbryoInv, ForkFail, ProcState
  <1>2. CpuInv' /\ OneCpu'
    BY DEF SInv, TypeOK, CpuInv, OneCpu, ForkFail
  <1>3. SliceCharged' /\ NoMissedPromotion'
    BY DEF SInv, TypeOK, SliceCharged, NoMissedPromotion, Due, ForkFail
  <1> QED BY <1>1, <1>2, <1>3 DEF SInv

\* The end of fork() or set_prio(): a new process has no turns yet.
LEMMA ForkReadyKeeps ==
  ASSUME SInv, NEW c \in CPU, NEW q \in Slots, NEW n \in Priorities, ForkReady(c, q, n)
  PROVE  SInv'
  <1>1. TypeOK' /\ PidInv' /\ EmbryoInv'
    BY DEF SInv, TypeOK, PidInv, EmbryoInv, ForkReady, ProcState
  <1>2. CpuInv' /\ OneCpu'
    BY DEF SInv, TypeOK, CpuInv, OneCpu, ForkReady
  <1>3. SliceCharged' /\ NoMissedPromotion'
    BY DEF SInv, TypeOK, EmbryoInv, SliceCharged, NoMissedPromotion, Due, ForkReady
  <1> QED BY <1>1, <1>2, <1>3 DEF SInv

\* wait() and its relatives free a ZOMBIE that has left its CPU.
LEMMA ReapKeeps ==
  ASSUME SInv, NEW c \in CPU, NEW q \in Slots, NEW n, Reap(c, q, n)
  PROVE  SInv'
  <1>1. TypeOK' /\ PidInv' /\ EmbryoInv'
    BY DEF SInv, TypeOK, PidInv, EmbryoInv, Reap, ProcState, Priorities
  <1>2. CpuInv' /\ OneCpu'
    BY DEF SInv, TypeOK, CpuInv, OneCpu, Reap
  <1>3. SliceCharged' /\ NoMissedPromotion'
    BY DEF SInv, TypeOK, SliceCharged, NoMissedPromotion, Due, Reap
  <1> QED BY <1>1, <1>2, <1>3 DEF SInv

\* The first slot with the caller's pid is the caller's: pids are given once.
LEMMA OwnSlotIsOwn ==
  ASSUME SInv, NEW c \in CPU, NEW q \in Slots, where[c] = "run", q \in OwnSlots(c)
  PROVE  q = proc[c]
  <1>1. proc[c] \in Slots /\ pid[proc[c]] # 0 /\ pid[q] = pid[proc[c]]
    BY DEF SInv, TypeOK, CpuInv, PidInv, OwnSlots
  <1> QED BY <1>1 DEF SInv, PidInv

\* change_prio() changes the caller alone, which is on its CPU.
LEMMA ChangePrioKeeps ==
  ASSUME SInv, NEW c \in CPU, NEW q \in Slots, NEW n \in Requests, ChangePrio(c, q, n)
  PROVE  SInv'
  <1>0. q = proc[c]
    BY OwnSlotIsOwn DEF ChangePrio, IsFirst
  <1>1. TypeOK' /\ CpuInv' /\ OneCpu' /\ PidInv' /\ EmbryoInv'
    BY DEF SInv, TypeOK, CpuInv, OneCpu, PidInv, EmbryoInv, ChangePrio
  <1>2. SliceCharged' /\ NoMissedPromotion'
    BY <1>0 DEF SInv, TypeOK, SliceCharged, NoMissedPromotion, Due, ChangePrio
  <1> QED BY <1>1, <1>2 DEF SInv

\* Every step of the scheduler, the timer and the processes keeps the invariant.
LEMMA SchedNext == SInv /\ [Next]_vars => SInv'
  <1> SUFFICES ASSUME SInv, [Next]_vars PROVE SInv'
    OBVIOUS
  <1>1. CASE UNCHANGED vars
    BY <1>1 DEF vars, SInv, TypeOK, CpuInv, OneCpu, PidInv, EmbryoInv, SliceCharged,
       NoMissedPromotion, Due
  <1>2. ASSUME NEW c \in CPU, SchedulerStep(c) PROVE SInv'
    BY <1>2, AcquireKeeps, ReleaseKeeps, BackKeeps, DispatchKeeps DEF SchedulerStep
  <1>3. ASSUME NEW c \in CPU, TimerStep(c) PROVE SInv'
    BY <1>3, TickKeeps, LeaveKeeps DEF TimerStep, Preempt
  <1>4. ASSUME NEW c \in CPU, ProcessStep(c) PROVE SInv'
    BY <1>4, LeaveKeeps, AllocKeeps, ForkFailKeeps, ForkReadyKeeps, ReapKeeps,
       ChangePrioKeeps DEF ProcessStep, Yield2, Sleep, Exit
  <1>5. ASSUME NEW S \in SUBSET Slots, Wakeup(S) PROVE SInv'
    BY <1>5, WakeupKeeps
  <1> QED BY <1>1, <1>2, <1>3, <1>4, <1>5 DEF Next

\* The variables of the scheduler stay in their ranges; the scan in particular does
\* not leave the table by more than one slot, and no priority passes 3.
THEOREM SchedTypeCorrect == Spec => []TypeOK
  <1>1. SInv => TypeOK
    BY DEF SInv
  <1> QED BY SchedInit, SchedNext, <1>1, PTL DEF Spec

\* Ticks are charged to the slice of the process that saw them, and nobody runs
\* on after the tick that finds its slice used up.
THEOREM SlicesCharged == Spec => []SliceCharged
  <1>1. SInv => SliceCharged
    BY DEF SInv
  <1> QED BY SchedInit, SchedNext, <1>1, PTL DEF Spec

\* No process stays at a level once it has had the turns of that level.
THEOREM PromotionsMade == Spec => []NoMissedPromotion
  <1>1. SInv => NoMissedPromotion
    BY DEF SInv
  <1> QED BY SchedInit, SchedNext, <1>1, PTL DEF Spec

\* A step that changes the priority of a living process promotes it in the pass over
\* the table, or is its own call of change_prio.
LEMMA DemotionStep ==
  ASSUME SInv, Next, NEW q \in Slots, state[q] \in {"RUNNABLE", "SLEEPING", "RUNNING"},
         priority'[q] # priority[q]
  PROVE  priority'[q] = priority[q] + 1 \/ \E c \in CPU : Runs(c, q)
  <1>1. ASSUME NEW c \in CPU, SchedulerStep(c) PROVE priority'[q] = priority[q] + 1
    <2>1. CASE SchedBack(c)
      BY <2>1 DEF SInv, TypeOK, SchedBack
    <2>2. CASE ~ SchedBack(c)
      BY <1>1, <2>2 DEF SchedulerStep, SchedAcquire, SchedRelease, Dispatch
    <2> QED BY <2>1, <2>2
  <1>2. ASSUME NEW c \in CPU, TimerStep(c) PROVE FALSE
    BY <1>2 DEF TimerStep, Tick, Preempt, Leave
  <1>3. ASSUME NEW c \in CPU, ProcessStep(c) PROVE \E d \in CPU : Runs(d, q)
    <2>1. PICK r \in Slots :
            \/ Yield2(c, r) \/ Sleep(c, r) \/ Exit(c, r)
            \/ Alloc(c, r) \/ ForkFail(c, r)
            \/ \E n \in Priorities : ForkReady(c, r, n) \/ Reap(c, r, n)
            \/ \E n \in Requests : ChangePrio(c, r, n)
      BY <1>3 DEF ProcessStep
    <2>2. ~ (Yield2(c, r) \/ Sleep(c, r) \/ Exit(c, r) \/ ForkFail(c, r))
      BY DEF Yield2, Sleep, Exit, Leave, ForkFail
    <2>3. ~ Alloc(c, r)
      BY DEF SInv, TypeOK, Alloc, IsFirst
    <2>4. ASSUME NEW n \in Priorities, ForkReady(c, r, n) \/ Reap(c, r, n) PROVE FALSE
      BY <2>4, SMTT(30) DEF SInv, TypeOK, ForkReady, Reap
    <2>5. PICK n \in Requests : ChangePrio(c, r, n)
      BY <2>1, <2>2, <2>3, <2>4, Zenon
    <2>6. r = proc[c] /\ where[c] = "run"
      BY <2>5, OwnSlotIsOwn DEF ChangePrio, IsFirst
    <2>7. r = q
      BY <2>5 DEF SInv, TypeOK, ChangePrio
    <2> QED BY <2>6, <2>7, ZenonT(30) DEF Runs
  <1>4. ASSUME NEW S \in SUBSET Slots, Wakeup(S) PROVE FALSE
    BY <1>4 DEF Wakeup
  <1> QED BY <1>1, <1>2, <1>3, <1>4 DEF Next

\* Only the process itself lowers its priority: pids being given once, change_prio
\* never meets another process in its search.
THEOREM OnlyOwnDemotion == Spec => OnlySelfDemotes
  <1>1. SInv /\ [Next]_vars =>
          [\A q \in Slots :
             state[q] \in {"RUNNABLE", "SLEEPING", "RUNNING"} /\ priority'[q] # priority[q] =>
               priority'[q] = priority[q] + 1 \/ \E c \in CPU : Runs(c, q)]_vars
    BY DemotionStep
  <1> QED BY SchedInit, SchedNext, <1>1, PTL DEF Spec, OnlySelfDemotes

\* A dispatch is of a process of the highest priority there is at that moment,
\* wherever the scan stood.
THEOREM HighestFirst == Spec => HighestDispatched
  <1>1. SInv /\ [Next]_vars =>
          [\A c \in CPU :
             where[c] = "scan" /\ where'[c] = "run" =>
               \A q \in Runnable : priority[q] <= priority[proc'[c]]]_vars
    <2> SUFFICES ASSUME SInv, Next, NEW c \in CPU, where[c] = "scan", where'[c] = "run"
                 PROVE  \A q \in Runnable : priority[q] <= priority[proc'[c]]
      OBVIOUS
    <2>1. PICK p \in Slots : Dispatch(c, p)
      <3>1. ASSUME NEW d \in CPU, SchedulerStep(d) PROVE \E p \in Slots : Dispatch(c, p)
        BY <3>1 DEF SInv, TypeOK, SchedulerStep, SchedAcquire, SchedRelease, SchedBack, Dispatch
      <3>2. ASSUME NEW d \in CPU, TimerStep(d) PROVE FALSE
        BY <3>2, SMTT(30) DEF SInv, TypeOK, TimerStep, Tick, Preempt, Leave
      <3>3. ASSUME NEW d \in CPU, ProcessStep(d) PROVE FALSE
        BY <3>3 DEF SInv, TypeOK, ProcessStep, Yield2, Sleep, Exit, Leave, Alloc, ForkFail,
           ForkReady, Reap, ChangePrio
      <3>4. ASSUME NEW S \in SUBSET Slots, Wakeup(S) PROVE FALSE
        BY <3>4 DEF Wakeup
      <3> QED BY <3>1, <3>2, <3>3, <3>4, SMTT(30) DEF Next
    <2>2. proc'[c] = p /\ \A q \in Runnable : priority[q] <= priority[p]
      BY <2>1, ChosenIsFree DEF SInv, TypeOK, Dispatch
    <2> QED BY <2>2
  <1> QED BY SchedInit, SchedNext, <1>1, PTL DEF Spec, HighestDispatched

\* The times are natural numbers.
TimesType ==
  /\ ctime \in [Slots -> Nat] /\ retime \in [Slots -> Nat]
  /\ rutime \in [Slots -> Nat] /\ stime \in [Slots -> Nat]

TInv == SInv /\ TimesType /\ BooksBalance

\* A step that touches neither the times nor proc, and creates no process, keeps the
\* books.
LEMMA UntouchedBalance ==
  ASSUME TInv, UNCHANGED <<times, proc>>, state' \in [Slots -> ProcState],
         \A q \in Slots : state[q] = "UNUSED" => state'[q] = "UNUSED"
  PROVE  TimesType' /\ BooksBalance'
  BY DEF TInv, TimesType, BooksBalance, Open, times

\* A process that leaves its CPU keeps its turn open until scheduler() is back.
LEMMA LeaveBalances ==
  ASSUME TInv, NEW c \in CPU, NEW p \in Slots, NEW s, Leave(c, p, s), UNCHANGED times
  PROVE  TimesType' /\ BooksBalance'
  BY DEF TInv, SInv, TypeOK, CpuInv, TimesType, BooksBalance, Open, times, Leave, Runs

\* A dispatch opens a turn and charges it in advance.
LEMMA DispatchBalances ==
  ASSUME TInv, NEW c \in CPU, NEW p \in Slots, TDispatch(c, p)
  PROVE  TimesType' /\ BooksBalance'
  <1>0. Dispatch(c, p) /\ where[c] = "scan" /\ Chosen(Runnable, priority, pos[c], p)
    BY SMTT(30) DEF TDispatch, Dispatch
  <1>1. state[p] = "RUNNABLE" /\ proc[c] = NoProc /\ \A d \in CPU : proc[d] # p
    BY <1>0, ChosenIsFree DEF TInv, SInv, CpuInv
  <1>2. TimesType'
    BY DEF TInv, TimesType, TDispatch
  <1>3. ASSUME NEW q \in Slots, q # p PROVE Open(q)' = Open(q)
    BY <1>0, <1>1, <1>3 DEF TInv, SInv, TypeOK, Open, Dispatch
  <1>4. Open(p) = 0 /\ Open(p)' = 1
    BY <1>0, <1>1, SMTT(30) DEF TInv, SInv, TypeOK, Open, Dispatch
  <1>5. rutime'[p] = rutime[p] + 1 /\ \A q \in Slots : q # p => rutime'[q] = rutime[q] /\ state'[q] = state[q]
    BY <1>0 DEF TInv, SInv, TypeOK, TimesType, TDispatch, Dispatch
  <1>6. ctime' = ctime /\ retime' = retime /\ stime' = stime
    BY DEF TDispatch
  <1>7. ASSUME NEW q \in Slots, state'[q] # "UNUSED"
        PROVE  retime'[q] + stime'[q] + rutime'[q] = ctime'[q] + Open(q)'
    <2>1. state[q] # "UNUSED"
      BY <1>1, <1>5, <1>7
    <2>2. retime[q] + stime[q] + rutime[q] = ctime[q] + Open(q)
      BY <2>1 DEF TInv, BooksBalance
    <2>3. /\ ctime[q] \in Nat /\ retime[q] \in Nat /\ rutime[q] \in Nat /\ stime[q] \in Nat
          /\ Open(q) \in Nat
      BY SMTT(30) DEF TInv, TimesType, Open
    <2>4. CASE q = p
      BY <2>2, <2>3, <2>4, <1>4, <1>5, <1>6
    <2>5. CASE q # p
      BY <2>2, <2>3, <2>5, <1>3, <1>5, <1>6
    <2> QED BY <2>4, <2>5
  <1>8. BooksBalance'
    BY <1>7 DEF BooksBalance
  <1> QED BY <1>2, <1>8

\* The end of a turn charges all the others, and closes that of the process that ran.
LEMMA BackBalances ==
  ASSUME TInv, NEW c \in CPU, TBack(c)
  PROVE  TimesType' /\ BooksBalance'
  <1>0. PICK p \in Slots : /\ SchedBack(c) /\ where[c] = "back" /\ proc[c] = p
                           /\ state' = state
    <2>1. SchedBack(c)
      BY Zenon DEF TBack
    <2>2. where[c] = "back" /\ state' = state
      BY <2>1, Zenon DEF SchedBack
    <2>3. proc[c] # NoProc /\ proc[c] \in Slots \cup {NoProc}
      BY <2>2 DEF TInv, SInv, CpuInv, TypeOK
    <2>4. proc[c] \in Slots
      BY <2>3, Zenon
    <2> QED BY <2>1, <2>2, <2>4, Zenon
  <1>1. TimesType'
    BY SMTT(30) DEF TInv, TimesType, TBack
  <1>2. Open(p) = 1 /\ Open(p)' = 0
    <2>1. \A d \in CPU : proc'[d] # p
      BY <1>0 DEF TInv, SInv, TypeOK, OneCpu, SchedBack
    <2> QED BY <2>1, <1>0, Zenon DEF Open
  <1>3. ASSUME NEW q \in Slots, q # p PROVE Open(q)' = Open(q)
    BY <1>0, <1>3 DEF TInv, SInv, TypeOK, Open, SchedBack
  <1>4. ASSUME NEW q \in Slots, state[q] # "UNUSED" PROVE Waited(c, q) <=> q # p
    BY <1>0, <1>4, SMTT(30) DEF TInv, SInv, TypeOK, PidInv, Waited
  <1>5. ASSUME NEW q \in Slots, state[q] # "UNUSED"
        PROVE  retime'[q] + stime'[q] + rutime'[q] = ctime'[q] + Open(q)'
    <2>1. /\ ctime'[q] = ctime[q] + 1 /\ rutime'[q] = rutime[q]
          /\ stime'[q] = IF Waited(c, q) /\ Slept(q) THEN stime[q] + 1 ELSE stime[q]
          /\ retime'[q] = IF Waited(c, q) /\ ~ Slept(q) THEN retime[q] + 1 ELSE retime[q]
      BY DEF TBack
    <2>2. retime[q] + stime[q] + rutime[q] = ctime[q] + Open(q)
      BY <1>5 DEF TInv, BooksBalance
    <2>3. /\ ctime[q] \in Nat /\ retime[q] \in Nat /\ rutime[q] \in Nat /\ stime[q] \in Nat
          /\ Open(q) \in Nat
      BY DEF TInv, TimesType, Open
    <2>4. CASE q = p
      <3>1. Open(q) = 1 /\ Open(q)' = 0
        BY <1>2, <2>4
      <3>2. ~ Waited(c, q)
        BY <1>4, <1>5, <2>4, SMTT(30)
      <3> QED BY <2>1, <2>2, <2>3, <3>1, <3>2
    <2>5. CASE q # p
      <3>1. Open(q)' = Open(q)
        BY <1>3, <2>5
      <3>2. Waited(c, q)
        BY <1>4, <1>5, <2>5, SMTT(30)
      <3>3. \/ stime'[q] = stime[q] + 1 /\ retime'[q] = retime[q]
            \/ stime'[q] = stime[q] /\ retime'[q] = retime[q] + 1
        BY <2>1, <3>2
      <3> QED BY <2>1, <2>2, <2>3, <3>1, <3>3
    <2> QED BY <2>4, <2>5
  <1>6. BooksBalance'
    BY <1>0, <1>5 DEF BooksBalance
  <1> QED BY <1>1, <1>6

\* A new process starts with empty books.
LEMMA AllocBalances ==
  ASSUME TInv, NEW c \in CPU, NEW q \in Slots, TAlloc(c, q)
  PROVE  TimesType' /\ BooksBalance'
  <1>1. state[q] = "UNUSED" /\ \A d \in CPU : proc[d] # q
    BY DEF TInv, SInv, TypeOK, CpuInv, TAlloc, Alloc, IsFirst
  <1>2. TimesType'
    BY DEF TInv, TimesType, TAlloc
  <1>3. proc' = proc /\ Open(q)' = 0
    BY <1>1 DEF TAlloc, Alloc, Open
  <1>4. ASSUME NEW r \in Slots, r # q
        PROVE  /\ ctime'[r] = ctime[r] /\ retime'[r] = retime[r] /\ rutime'[r] = rutime[r]
               /\ stime'[r] = stime[r] /\ state'[r] = state[r] /\ Open(r)' = Open(r)
    BY <1>3, <1>4 DEF TInv, SInv, TypeOK, TimesType, TAlloc, Alloc, Open
  <1>5. ctime'[q] = 0 /\ retime'[q] = 0 /\ rutime'[q] = 0 /\ stime'[q] = 0
    BY DEF TInv, TimesType, TAlloc
  <1>6. BooksBalance'
    BY <1>3, <1>4, <1>5 DEF TInv, BooksBalance
  <1> QED BY <1>2, <1>6

\* A slot that is freed has no books to balance, whether its times are cleared or not.
LEMMA ReapBalances ==
  ASSUME TInv, NEW c \in CPU, NEW q \in Slots, TWait(c, q) \/ TWait2(c, q)
  PROVE  TimesType' /\ BooksBalance'
  <1>1. TimesType'
    BY DEF TInv, TimesType, TWait, TWait2, times
  <1>2. state'[q] = "UNUSED" /\ proc' = proc
    BY DEF TInv, SInv, TypeOK, TWait, TWait2, Reap
  <1>3. ASSUME NEW r \in Slots, r # q
        PROVE  /\ ctime'[r] = ctime[r] /\ retime'[r] = retime[r] /\ rutime'[r] = rutime[r]
               /\ stime'[r] = stime[r] /\ state'[r] = state[r] /\ Open(r)' = Open(r)
    BY <1>2, <1>3, SMTT(30) DEF TInv, SInv, TypeOK, TimesType, TWait, TWait2, Reap, Open, times
  <1>4. BooksBalance'
    BY <1>2, <1>3, Zenon DEF TInv, BooksBalance
  <1> QED BY <1>1, <1>4

\* Every step keeps the books of all processes.
LEMMA TimesNext == TInv /\ [TNext]_tvars => TInv'
  <1> SUFFICES ASSUME TInv, [TNext]_tvars PROVE TInv'
    OBVIOUS
  <1> USE DEF TInv
  <1>1. CASE UNCHANGED tvars
    <2>1. SInv'
      BY <1>1, SchedNext, Zenon DEF tvars
    <2>2. TimesType' /\ BooksBalance'
      <3>1. UNCHANGED <<times, proc, state>>
        BY <1>1, Zenon DEF tvars, vars, cpus
      <3>2. state' \in [Slots -> ProcState]
        BY <3>1, Zenon DEF SInv, TypeOK
      <3> QED BY <3>1, <3>2, UntouchedBalance, Zenon
    <2> QED BY <2>1, <2>2
  <1>2. ASSUME NEW c \in CPU, TBack(c) PROVE TInv'
    BY <1>2, BackKeeps, BackBalances, Zenon DEF TBack
  <1>3. ASSUME NEW c \in CPU, TOther(c) PROVE TInv'
    <2>0. Next /\ UNCHANGED times
      BY <1>3 DEF TOther, Next, SchedulerStep, ProcessStep
    <2>1. SInv'
      BY <2>0, SchedNext
    <2>2. CASE \E p \in Slots, s \in ProcState : Leave(c, p, s)
      BY <2>0, <2>1, <2>2, LeaveBalances, Zenon
    <2>3. CASE SchedAcquire(c) \/ SchedRelease(c) \/ \E p \in Slots : Tick(c, p)
      <3>1. UNCHANGED <<state, proc>>
        BY <2>3, Zenon DEF SchedAcquire, SchedRelease, Tick, cpus
      <3>2. state' \in [Slots -> ProcState]
        BY <2>1, Zenon DEF SInv, TypeOK
      <3> QED BY <2>0, <2>1, <3>1, <3>2, UntouchedBalance, Zenon
    <2>4. ASSUME NEW q \in Slots, ForkFail(c, q) PROVE TInv'
      BY <2>0, <2>1, <2>4, UntouchedBalance, ZenonT(30) DEF SInv, TypeOK, ForkFail, cpus
    <2>5. ASSUME NEW q \in Slots, NEW n \in Priorities, ForkReady(c, q, n) PROVE TInv'
      BY <2>0, <2>1, <2>5, UntouchedBalance, ZenonT(30) DEF SInv, TypeOK, ForkReady, cpus
    <2>6. ASSUME NEW q \in Slots, NEW n \in Requests, ChangePrio(c, q, n) PROVE TInv'
      BY <2>0, <2>1, <2>6, UntouchedBalance, Zenon DEF SInv, TypeOK, ChangePrio, cpus
    <2> QED BY <1>3, <2>2, <2>3, <2>4, <2>5, <2>6
            DEF TOther, TimerStep, Preempt, Yield2, Sleep, Exit, ProcState
  <1>4. ASSUME NEW c \in CPU, NEW q \in Slots, TDispatch(c, q) PROVE TInv'
    BY <1>4, DispatchKeeps, DispatchBalances, Zenon DEF TDispatch
  <1>5. ASSUME NEW c \in CPU, NEW q \in Slots, TAlloc(c, q) PROVE TInv'
    BY <1>5, AllocKeeps, AllocBalances, Zenon DEF TAlloc
  <1>6. ASSUME NEW c \in CPU, NEW q \in Slots, TWait(c, q) \/ TWait2(c, q) PROVE TInv'
    BY <1>6, ReapKeeps, ReapBalances DEF TWait, TWait2
  <1>7. ASSUME NEW S \in SUBSET Slots, Wakeup(S), UNCHANGED times PROVE TInv'
    BY <1>7, WakeupKeeps, UntouchedBalance, Zenon DEF SInv, TypeOK, Wakeup, cpus
  <1> QED BY <1>1, <1>2, <1>3, <1>4, <1>5, <1>6, <1>7 DEF TNext

\* Every turn that has ended since a process was created is charged to it exactly once,
\* as waiting, as sleeping or as running, on any number of CPUs.
THEOREM TurnsAccounted == TSpec => []BooksBalance
  <1>1. TInit => TInv
    <2>1. TInit => SInv
      BY SchedInit DEF TInit
    <2>2. TInit => TimesType /\ BooksBalance
      BY DEF TInit, Init, TimesType, BooksBalance, Open
    <2> QED BY <2>1, <2>2 DEF TInv
  <1>2. TInv => BooksBalance
    BY DEF TInv
  <1> QED BY TimesNext, <1>1, <1>2, PTL DEF TSpec
=============================================================================
